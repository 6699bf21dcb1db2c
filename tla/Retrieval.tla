------------------------------ MODULE Retrieval ------------------------------
(***************************************************************************)
(* One search, from the question to the passages an answer is made from.   *)
(*                                                                         *)
(* A question is rewritten and decomposed, each of its queries is asked of *)
(* two vector collections and of the word index, what they find is fused   *)
(* and reranked, filtered by tenant and access, thinned out, widened to    *)
(* the passages the hits are from, joined with summaries, and checked      *)
(* against the governance of the documents.  Every index and model may     *)
(* fail, and the search goes on without it.                                *)
(*                                                                         *)
(* The rows are what the transaction of the request sees; the indexes know *)
(* of chunks and documents that are no longer there.  An idx of a document *)
(* is one chunk, scores are whole numbers, and what a model makes of texts *)
(* (an order, a choice, another wording) is any outcome it can have.       *)
(***************************************************************************)
EXTENDS Naturals, FiniteSets, SequencesExt

CONSTANTS
    Snapshots,      \* the documents a search may see: rows by name
    Found,          \* Found[i]: lists index i may return, of [doc, idx, score]
    Searches,       \* what is asked
    SearchSettings, \* sets of switches
    RrfK,           \* the smoothing of the fusion
    MaxSubs         \* bound: queries a question is decomposed into

IndexNames == {"dense_cloud", "dense_bge", "bm25"}

\* At least one item is asked for, as the schema of the search demands.
ASSUME SearchAssumption ==
    /\ RrfK \in Nat /\ MaxSubs \in Nat
    /\ Found \in [IndexNames -> SUBSET Seq([doc : STRING, idx : Nat, score : Nat])]
    /\ \A ask \in Searches : ask.topk \in Nat \ {0} /\ ask.debug \in BOOLEAN
    /\ \A seen \in Snapshots :
          /\ IsFiniteSet(DOMAIN seen) /\ DOMAIN seen \subseteq STRING
          /\ \A d \in DOMAIN seen : seen[d].passage \in Seq(Nat)

VARIABLES
    librarySeen,    \* the documents, their access, their chunks and passages
    switches,
    rewrites,       \* the cached rewriting: none, or whether it was better
    subs,           \* the cached decomposition: how many queries, or 0
    search

searchVars == <<librarySeen, switches, rewrites, subs, search>>

None == "none"

FirstMatch(rules) == rules[SelectInSeq(rules, LAMBDA r : r.holds)]

Take(s, n) == SubSeq(s, 1, IF Len(s) < n THEN Len(s) ELSE n)

\* The elements of S, each after those that are before it.
InOrder(S, before) ==
    [n \in 1..Cardinality(S) |->
        CHOOSE x \in S : Cardinality({y \in S : <<y, x>> \in before}) = n - 1]

\* What stands at some places of a list, in the order it stands there.
Those(list, places) ==
    LET at == InOrder(places, {p \in places \X places : p[1] < p[2]})
    IN  [n \in DOMAIN at |-> list[at[n]]]

---------------------------------------------------------------------------
\* Where a question goes by the features of its text; in percent.
Classify(f) ==
    FirstMatch(<<
        [holds |-> f.standard, route |-> "sparse", confidence |-> 92, skip |-> TRUE],
        [holds |-> f.length <= 5, route |-> "sparse", confidence |-> 90, skip |-> TRUE],
        [holds |-> f.length <= 10 /\ f.density >= 30, route |-> "sparse", confidence |-> 85,
         skip |-> TRUE],
        [holds |-> f.numeric, route |-> "sparse_first", confidence |-> 72, skip |-> FALSE],
        [holds |-> f.fault /\ f.length > 10, route |-> "dense", confidence |-> 88, skip |-> FALSE],
        [holds |-> f.alias /\ f.length > 5, route |-> "dense", confidence |-> 78, skip |-> FALSE],
        [holds |-> f.length >= 30 /\ f.density <= 10, route |-> "dense", confidence |-> 82,
         skip |-> FALSE],
        [holds |-> TRUE, route |-> "hybrid", confidence |-> 50, skip |-> FALSE]>>)

Everywhere == [route |-> "hybrid", skip |-> FALSE]

\* A decision that is not sure enough goes everywhere, and so does a question with none.
Decision(ask) ==
    IF ask.by = "route" THEN [route |-> ask.route, skip |-> FALSE]
    ELSE LET d == Classify(ask.features)
             rerankless == d.skip /\ d.confidence >= 85 /\ d.route = "sparse"
         IN  IF ask.by = "router" /\ d.confidence >= 60
             THEN [route |-> d.route, skip |-> rerankless]
             ELSE Everywhere

\* What may reach the reranker: less of it when routes are tuned.
PoolCap(topk) ==
    IF "route_aware" \in switches THEN (12 * topk + 9) \div 10 ELSE 2 * topk

NoSearch == [pc |-> "idle"]

StartSearch ==
    /\ search.pc = "idle"
    /\ \E ask \in Searches :
          search' = [pc |-> "rewrite", ask |-> ask, decision |-> Decision(ask),
                     rewritten |-> FALSE, queries |-> 1, dense |-> <<>>, sparse |-> <<>>,
                     fused |-> <<>>, pool |-> <<>>, governed |-> TRUE]
    /\ UNCHANGED <<librarySeen, switches, rewrites, subs>>

\* A question that reads like a document is not reworded, unless all are.
Rewordable == search.ask.odd \/ "adaptive" \notin switches

\* A trial search compares the wordings; without the trial none is better than the question.
Trials == IF "rewrite_eval" \in switches THEN BOOLEAN ELSE {FALSE}

Reword ==
    /\ search.pc = "rewrite"
    /\ \/ /\ ~Rewordable
          /\ search' = [search EXCEPT !.pc = "decompose"] /\ UNCHANGED rewrites
       \/ /\ Rewordable /\ rewrites # None
          /\ search' = [search EXCEPT !.pc = "decompose", !.rewritten = rewrites = "better"]
          /\ UNCHANGED rewrites
       \/ /\ Rewordable /\ rewrites = None
          /\ \E better \in Trials :
                /\ search' = [search EXCEPT !.pc = "decompose", !.rewritten = better]
                /\ rewrites' \in {rewrites, IF better THEN "better" ELSE "worse"}
    /\ UNCHANGED <<librarySeen, switches, subs>>

\* The queries of a question: itself, and what a model makes of it.
Wordings == 1..(1 + MaxSubs)

\* A model that fails has found no queries, which is remembered as an answer of it.
Decompose ==
    /\ search.pc = "decompose"
    /\ \/ /\ search.decision.route = "sparse" \/ "multi" \notin switches
          /\ search' = [search EXCEPT !.pc = "recall"] /\ UNCHANGED subs
       \/ /\ search.decision.route # "sparse" /\ "multi" \in switches
          /\ \/ /\ subs # 0
                /\ search' = [search EXCEPT !.pc = "recall", !.queries = subs]
                /\ UNCHANGED subs
             \/ /\ subs = 0
                /\ \E n \in Wordings :
                      /\ search' = [search EXCEPT !.pc = "recall", !.queries = n]
                      /\ subs' \in {subs, n}
    /\ UNCHANGED <<librarySeen, switches, rewrites>>

---------------------------------------------------------------------------
Key(h) == [doc |-> h.doc, idx |-> h.idx]
Tagged(list, index) ==
    [i \in DOMAIN list |-> [doc |-> list[i].doc, idx |-> list[i].idx, score |-> list[i].score,
                            src |-> index]]

\* The indexes of the route; one provider alone has no cloud.
Asked == (CASE search.decision.route = "sparse" -> {"bm25"}
            [] search.decision.route = "dense" -> {"dense_cloud", "dense_bge"}
            [] OTHER -> IndexNames)
         \ (IF "local_only" \in switches THEN {"dense_cloud"} ELSE {})

\* What an index may find: nothing if it is down.
Lists(index) == IF index \in Asked THEN Found[index] ELSE {<<>>}

\* Each index is asked for one query, and their lists are put one after another.
AskIndexes ==
    /\ search.pc = "recall" /\ search.queries > 0
    /\ \E cloud \in Lists("dense_cloud"), bge \in Lists("dense_bge"), words \in Lists("bm25") :
          search' = [search EXCEPT !.queries = @ - 1,
                                   !.dense = @ \o Tagged(cloud, "dense_cloud")
                                               \o Tagged(bge, "dense_bge"),
                                   !.sparse = @ \o Tagged(words, "bm25")]
    /\ UNCHANGED <<librarySeen, switches, rewrites, subs>>

SourcesOf(key) ==
    {h.src : h \in {x \in Range(search.dense \o search.sparse) : Key(x) = key}}

AsHit(key, score) ==
    [key |-> key, score |-> score, srcs |-> SourcesOf(key), text |-> {key.idx}, summary |-> FALSE]

\* One list by its scores, first come first; a chunk that was found twice stands there twice.
BestFirst(list) ==
    {p \in (DOMAIN list) \X (DOMAIN list) :
        \/ list[p[1]].score > list[p[2]].score
        \/ list[p[1]].score = list[p[2]].score /\ p[1] < p[2]}

ByScore(list) ==
    LET order == InOrder(DOMAIN list, BestFirst(list))
    IN  [n \in DOMAIN order |-> AsHit(Key(list[order[n]]), list[order[n]].score)]

Scale == 27720
Share(weight, place) == (weight * Scale) \div (RrfK + place)
RankScore(list, weight, key) ==
    LET upTo[n \in 0..Len(list)] ==
            IF n = 0 THEN 0
            ELSE upTo[n - 1] + (IF Key(list[n]) = key THEN Share(weight, n) ELSE 0)
    IN  upTo[Len(list)]

\* What words find weighs more where the question has numbers and routes are tuned.
SparseWeight ==
    IF "route_aware" \in switches /\ search.decision.route = "sparse_first" THEN 13 ELSE 10

FusedScore(key) ==
    RankScore(search.dense, 10, key) + RankScore(search.sparse, SparseWeight, key)

\* The place where a list has a chunk first.
FirstAt(list, key) ==
    CHOOSE i \in DOMAIN list : Key(list[i]) = key /\ \A j \in 1..(i - 1) : Key(list[j]) # key

KeysFound == {Key(h) : h \in Range(search.dense \o search.sparse)}

RankedFirst ==
    LET all == search.dense \o search.sparse
    IN  {p \in KeysFound \X KeysFound :
            \/ FusedScore(p[1]) > FusedScore(p[2])
            \/ FusedScore(p[1]) = FusedScore(p[2]) /\ FirstAt(all, p[1]) < FirstAt(all, p[2])}

\* Reciprocal ranks: each chunk once, by the places it has in both lists.
ByRank ==
    LET order == InOrder(KeysFound, RankedFirst)
    IN  [n \in DOMAIN order |-> AsHit(order[n], FusedScore(order[n]))]

Fuse ==
    /\ search.pc = "recall" /\ search.queries = 0
    /\ LET list == IF search.decision.route = "sparse" THEN ByScore(search.sparse)
                   ELSE IF search.decision.route = "dense" THEN ByScore(search.dense) ELSE ByRank
           cap == PoolCap(search.ask.topk)
       IN  search' = [search EXCEPT !.pc = "rerank", !.fused = list,
                                    !.pool = IF search.ask.debug THEN list ELSE Take(list, cap)]
    /\ UNCHANGED <<librarySeen, switches, rewrites, subs>>

\* The reranker orders the pool anew; when it is late or fails the pool stays as it was.
Rerank ==
    /\ search.pc = "rerank"
    /\ LET n == Len(search.pool)
           most == IF search.ask.debug THEN 2 * search.ask.topk ELSE PoolCap(search.ask.topk)
           kept == IF n < most THEN n ELSE most
       IN  \/ search' = [search EXCEPT !.pc = "filter", !.pool = Take(@, most)]
           \/ /\ "rerank" \in switches /\ n > 1 /\ ~search.decision.skip
              /\ \E order \in Injection(1..kept, 1..n) :
                    search' = [search EXCEPT !.pc = "filter",
                                  !.pool = [i \in 1..kept |-> [@[order[i]] EXCEPT !.score = n - i]]]
    /\ UNCHANGED <<librarySeen, switches, rewrites, subs>>

---------------------------------------------------------------------------
Filters(ask) == ask.tenant # "" \/ ask.type # "" \/ ask.dept # "" \/ ask.role # ""

\* Who may read a document: anyone if it has no department, else its people in the roles it names.
AclOk(dept, roles, ask) ==
    \/ ask.dept = "" /\ ask.role = ""
    \/ ask.role = "admin"
    \/ dept = ""
    \/ ~(ask.dept # "" /\ dept # ask.dept) /\ (roles = {} \/ ask.role \in roles)

\* As above with a missing tenant taken for the asker's.
PassesUnlessForeign(doc, ask) ==
    doc \in DOMAIN librarySeen =>
        /\ ask.tenant # "" => librarySeen[doc].tenant = ask.tenant
        /\ ask.type # "" => librarySeen[doc].type = ask.type
        /\ AclOk(librarySeen[doc].dept, librarySeen[doc].roles, ask)

\* A document without a row is of no tenant and no type, and of no department: public.
Passes(doc, ask) ==
    IF doc \in DOMAIN librarySeen
    THEN /\ ask.tenant # "" => librarySeen[doc].tenant = ask.tenant
         /\ ask.type # "" => librarySeen[doc].type = ask.type
         /\ AclOk(librarySeen[doc].dept, librarySeen[doc].roles, ask)
    ELSE ask.tenant = "" /\ ask.type = ""

Filter ==
    /\ search.pc = "filter"
    /\ search' = [search EXCEPT !.pc = "select",
                     !.pool = IF Filters(search.ask)
                              THEN Those(@, {i \in DOMAIN @ : Passes(@[i].key.doc, search.ask)})
                              ELSE @]
    /\ UNCHANGED <<librarySeen, switches, rewrites, subs>>

\* Every choice that starts with the best of the pool: what comes next is weighed against it.
Diverse(pool, n) ==
    IF "mmr" \in switches /\ Len(pool) > n
    THEN {<<pool[1]>> \o [i \in 1..(n - 1) |-> pool[f[i]]] :
             f \in Injection(1..(n - 1), 2..Len(pool))}
    ELSE {Take(pool, n)}

\* The passage a chunk is from, or none if the chunk is not in the table.
PassageOf(key) ==
    IF key.doc \in DOMAIN librarySeen /\ key.idx \in DOMAIN librarySeen[key.doc].passage
    THEN librarySeen[key.doc].passage[key.idx] ELSE 0

\* The best hit of each passage, with its whole text; if none has a passage, the pool as it is.
Widened(pool) ==
    LET order == InOrder(DOMAIN pool, BestFirst(pool))
        best == [n \in DOMAIN order |-> pool[order[n]]]
        Whole(key) == {c \in DOMAIN librarySeen[key.doc].passage :
                          PassageOf([key EXCEPT !.idx = c]) = PassageOf(key)}
        SamePassage(a, b) == a.doc = b.doc /\ PassageOf(a) = PassageOf(b)
        kept == {n \in DOMAIN best :
                    /\ PassageOf(best[n].key) # 0
                    /\ \A m \in 1..(n - 1) : ~SamePassage(best[m].key, best[n].key)}
        told == Those(best, kept)
    IN  IF kept = {} THEN pool
        ELSE [n \in DOMAIN told |-> [told[n] EXCEPT !.text = Whole(told[n].key)]]

Select ==
    /\ search.pc = "select"
    /\ \E chosen \in Diverse(search.pool, search.ask.topk) :
          search' = [search EXCEPT
              !.pc = IF search.ask.debug THEN "served" ELSE "summaries",
              !.pool = IF "small_to_big" \in switches /\ ~search.ask.debug
                       THEN Widened(chosen) ELSE chosen]
    /\ UNCHANGED <<librarySeen, switches, rewrites, subs>>

\* The summaries kept of the tenant's documents; no access is asked of them.
Told == {d \in DOMAIN librarySeen : /\ librarySeen[d].summarised
                                    /\ librarySeen[d].tenant = search.ask.tenant}
SummaryOf(d) ==
    [key |-> [doc |-> d, idx |-> 0], score |-> 0, srcs |-> {}, text |-> {0}, summary |-> TRUE]

\* Those that are near the question fill what room is left.
Summaries ==
    /\ search.pc = "summaries"
    /\ \E near \in IF "raptor" \in switches THEN SUBSET Told ELSE {{}} :
          \E told \in SetToSeqs(near) :
             search' = [search EXCEPT !.pc = "govern",
                           !.pool = Take(@ \o [i \in DOMAIN told |-> SummaryOf(told[i])],
                                         search.ask.topk)]
    /\ UNCHANGED <<librarySeen, switches, rewrites, subs>>

Blocked == {d \in DOMAIN librarySeen : librarySeen[d].blocked}

\* An item as it is served: of a summary the text and the document are under other names.
Presented(h) == IF h.summary THEN [h EXCEPT !.text = {}] ELSE h

TypeIn(h) == IF h.key.doc \in DOMAIN librarySeen THEN librarySeen[h.key.doc].type ELSE ""

\* What must not be used is taken out; not knowing what must not be used, all of a tenant's is.
Govern ==
    /\ search.pc = "govern"
    /\ \E known \in BOOLEAN :
          LET unsure == search.ask.tenant # "" /\ "fail_open" \notin switches
              pool == IF known THEN Those(search.pool, {i \in DOMAIN search.pool :
                                                    search.pool[i].key.doc \notin Blocked})
                      ELSE IF unsure THEN <<>> ELSE search.pool
              human == IF "ai_exclude" \notin switches THEN pool
                       ELSE Those(pool, {i \in DOMAIN pool :
                                         pool[i].summary \/ TypeIn(pool[i]) # "ai_evolution"})
          IN  search' = [search EXCEPT !.pc = "served", !.governed = known,
                                       !.pool = [i \in DOMAIN human |-> Presented(human[i])]]
    /\ UNCHANGED <<librarySeen, switches, rewrites, subs>>

---------------------------------------------------------------------------
RetrievalInit ==
    /\ librarySeen \in Snapshots /\ switches \in SearchSettings
    /\ rewrites = None /\ subs = 0
    /\ search = NoSearch

\* The next question finds what the last one left in the caches.
AskAgain ==
    /\ search.pc = "served" /\ (rewrites # None \/ subs # 0)
    /\ search' = NoSearch
    /\ UNCHANGED <<librarySeen, switches, rewrites, subs>>

RetrievalNext ==
    \/ StartSearch \/ Reword \/ Decompose \/ AskIndexes \/ Fuse \/ Rerank \/ Filter \/ Select
    \/ Summaries \/ Govern \/ AskAgain

RetrievalSpec == RetrievalInit /\ [][RetrievalNext]_searchVars

RetrievalTypeOK ==
    /\ librarySeen \in Snapshots /\ switches \in SearchSettings
    /\ rewrites \in {None, "better", "worse"} /\ subs \in {0} \cup Wordings
    /\ search.pc \in {"idle", "rewrite", "decompose", "recall", "rerank", "filter", "select",
                      "summaries", "govern", "served"}
    /\ search.pc # "idle" =>
          /\ search.ask \in Searches
          /\ \A h \in Range(search.pool) : h.srcs \subseteq IndexNames

---------------------------------------------------------------------------
ItemsServed == IF search.pc = "served" THEN search.pool ELSE <<>>
Passages == {h \in Range(ItemsServed) : ~h.summary}

\* What is served is of the tenant, of the type, and for the eyes of who asked.
ServedIsAllowed ==
    \A h \in Passages :
        LET ask == search.ask  doc == h.key.doc
        IN  /\ ask.tenant # "" => doc \in DOMAIN librarySeen /\ librarySeen[doc].tenant = ask.tenant
            /\ doc \in DOMAIN librarySeen =>
                  /\ ask.type # "" => librarySeen[doc].type = ask.type
                  /\ librarySeen[doc].dept \notin {"", ask.dept} /\ ask.dept # "" =>
                        ask.role = "admin"
                  /\ librarySeen[doc].dept # "" /\ librarySeen[doc].roles # {} /\ ask.role # "" =>
                        ask.role \in librarySeen[doc].roles \cup {"admin"}

\* A tenant is served nothing withdrawn or expired, unless governance is down and open; only
\* a search for debugging is not governed.
ServedIsValid ==
    \A h \in Range(ItemsServed) :
        h.key.doc \in Blocked =>
            \/ search.ask.debug
            \/ ~search.governed /\ (search.ask.tenant = "" \/ "fail_open" \in switches)

\* An item names exactly the indexes that found it, and its text holds what they found.
ServedWasFound ==
    \A h \in Passages : h.srcs # {} /\ h.srcs = SourcesOf(h.key) /\ h.key.idx \in h.text

\* No more than was asked for, and with passages no two items of one passage.
ServedFitsThePrompt ==
    /\ Len(ItemsServed) <= search.ask.topk
    /\ "small_to_big" \in switches /\ ~search.ask.debug =>
          \A i, j \in DOMAIN ItemsServed : i # j =>
              \/ ItemsServed[i].text \cap ItemsServed[j].text = {}
              \/ ItemsServed[i].key.doc # ItemsServed[j].key.doc
              \/ PassageOf(ItemsServed[i].key) = 0

\* y is before x wherever x is: at the first place both have in a list, and at every later one.
Ahead(list, y, x) ==
    LET P(k) == {i \in DOMAIN list : Key(list[i]) = k}
    IN  \A i \in P(x) : Cardinality({j \in P(y) : j < i}) >= Cardinality({j \in P(x) : j <= i})

\* A chunk that is ahead of another in what vectors and words find is ahead of it in the fusion.
FusionAgrees ==
    search.pc = "rerank" /\ search.decision.route \in {"hybrid", "sparse_first"} =>
        \A i, j \in DOMAIN search.fused :
            i < j => ~(/\ Ahead(search.dense, search.fused[j].key, search.fused[i].key)
                       /\ Ahead(search.sparse, search.fused[j].key, search.fused[i].key))

\* The three below are stated of the code and refuted by it, and no run checks them.
\* What was found and may be read is served while there is room: the pool is cut before the
\* filter, so that what may not be read takes the room of what may.
RoomIsUsed ==
    search.pc = "served" /\ search.governed /\ Len(ItemsServed) < search.ask.topk =>
        \A h \in Range(search.fused) :
            Passes(h.key.doc, search.ask) /\ h.key.doc \notin Blocked =>
                \E i \in Range(ItemsServed) : i.key.doc = h.key.doc

\* A chunk is served once: on one route, two collections that have it both serve it.
ServedOnce ==
    \A i, j \in DOMAIN ItemsServed : i # j => ItemsServed[i].key # ItemsServed[j].key

\* What is served says something: a summary takes a place and loses its text.
ServedSpeaks == \A h \in Range(ItemsServed) : h.text # {}

\* What a search serves its asker may read, is valid and was found, and fits what was asked.
RetrievalHolds ==
    search.pc # "idle" =>
        ServedIsAllowed /\ ServedIsValid /\ ServedWasFound /\ ServedFitsThePrompt /\ FusionAgrees
=============================================================================
