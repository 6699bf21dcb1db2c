------------------------------ MODULE Documents ------------------------------
(***************************************************************************)
(* The library: documents of one name from their upload to the search.     *)
(*                                                                         *)
(* An upload stores an object and a row; another upload of the name        *)
(* archives the object of the row and replaces it; a rollback brings an    *)
(* archived one back.  Parsing turns the object into chunks (MySQL),       *)
(* vectorizing the chunks into vectors (Milvus), an extraction the chunks  *)
(* into triples (MySQL) and edges (Neo4j), and the first search after a    *)
(* change rebuilds the word index of the process, which is kept on disk.   *)
(*                                                                         *)
(* A request reads what the transaction of its authentication sees; only   *)
(* MySQL is transactional.  The number of a request names the object, the  *)
(* chunks or the edit it makes.                                            *)
(***************************************************************************)
EXTENDS Naturals, FiniteSetsExt, Sequences, OrmSession

CONSTANTS
    Librarians,     \* concurrent requests
    Pieces,         \* Pieces[o]: how many chunks the object of request o falls into
    Facts,          \* Facts[o]: the facts a model can find in it
    MaxLibOps,      \* bound: requests one after the other
    MaxLibOverlap,  \* bound: requests that may overlap
    LibMaxFaults    \* bound: calls that fail, and restarts

ASSUME LibraryAssumption ==
    /\ {MaxLibOps, MaxLibOverlap, LibMaxFaults} \subseteq Nat
    /\ MaxLibOverlap <= MaxLibOps
    /\ Pieces \in [1..MaxLibOps -> Nat] /\ DOMAIN Facts = 1..MaxLibOps

VARIABLES
    objects,        \* MinIO
    docRows,        \* docRows[d]: the row of the document that request d uploaded,
    archive,        \* its archived versions,
    docChunks,      \* its chunks: the object, the edit and the parse they come from,
    docVectors,     \* its vectors: the texts they were made from
    triples,        \* MySQL: facts of documents
    edges,          \* Neo4j: edges[f] is the document the edge was made for, or 0
    wordIndex,      \* the word index of the process: texts, and whether they are out of date
    savedIndex,     \* its copy on disk
    libReq,         \* the requests
    kgJobs,         \* kgJobs[d]: the extraction from d that is under way
    stored,         \* history: objects whose upload reported success
    spoilt,         \* history: documents whose deletion failed half-way
    libOps, libFaults,
    libAlone        \* no two requests at once

libVars == <<objects, docRows, archive, docChunks, docVectors, triples, edges, wordIndex,
             savedIndex, libReq, kgJobs, stored, spoilt, libOps, libFaults, libAlone>>

Docs == 1..MaxLibOps
FactSet == UNION {Facts[o] : o \in Docs}
NoDoc == [object |-> 0, status |-> "none"]
NoText == [of |-> 0, edit |-> 0, parse |-> 0]
NoRequest == [pc |-> "idle", op |-> "none", no |-> 0, doc |-> 0, row |-> NoDoc,
              text |-> NoText, versions |-> <<>>, seen |-> {}, object |-> 0]
NoJob == [pc |-> "none", found |-> {}]
LibOps == {"upload", "parse", "vectorize", "edit", "rollback", "delete", "search"}

\* What a text says, whichever parse it comes from.
Says(t) == [of |-> t.of, edit |-> t.edit]
Texts == [of : Docs, edit : 0..MaxLibOps]

LibraryTypeOK ==
    /\ objects \cup stored \cup spoilt \subseteq Docs
    /\ \A d \in Docs :
          /\ docRows[d] \in [object : 0..MaxLibOps,
                             status : {"none", "pending", "parsed", "vectorized"}]
          /\ \A i \in DOMAIN archive[d] : archive[d][i].object \in Docs
          /\ docChunks[d] \in [of : 0..MaxLibOps, edit : 0..MaxLibOps, parse : 0..MaxLibOps]
          /\ docVectors[d] \subseteq Texts
          /\ kgJobs[d].pc \in {"none", "asked", "found", "written"}
          /\ kgJobs[d].found \subseteq FactSet
    /\ triples \subseteq [doc : Docs, fact : FactSet] /\ edges \in [FactSet -> 0..MaxLibOps]
    /\ wordIndex.texts \cup savedIndex \subseteq Texts
    /\ {wordIndex.dirty, libAlone} \subseteq BOOLEAN
    /\ libOps <= MaxLibOps /\ libFaults <= LibMaxFaults
    /\ \A r \in Librarians :
          /\ libReq[r].op \in LibOps \cup {"none"} /\ libReq[r].no \in 0..libOps
          /\ libReq[r].pc \in {"idle", "begun", "stored", "edited", "cleared", "inserted",
                               "stripped", "unlinked"}

LibraryInit ==
    /\ objects = {} /\ stored = {} /\ spoilt = {}
    /\ docRows = [d \in Docs |-> NoDoc] /\ archive = [d \in Docs |-> <<>>]
    /\ docChunks = [d \in Docs |-> NoText] /\ docVectors = [d \in Docs |-> {}]
    /\ triples = {} /\ edges = [f \in FactSet |-> 0]
    /\ wordIndex = [texts |-> {}, dirty |-> FALSE] /\ savedIndex = {}
    /\ libReq = [r \in Librarians |-> NoRequest] /\ kgJobs = [d \in Docs |-> NoJob]
    /\ libOps = 0 /\ libFaults = 0 /\ libAlone \in BOOLEAN

Living == {d \in Docs : docRows[d] # NoDoc}
Corpus == {Says(docChunks[d]) : d \in {e \in Living : docChunks[e] # NoText}}
CountOf(texts) == MapThenSumSet(LAMBDA t : Pieces[t.of], texts)
\* Mutant: the hook that marks the word index is missing.
IndexForgotten == UNCHANGED wordIndex

IndexDirty == wordIndex' = [wordIndex EXCEPT !.dirty = TRUE]
LastVersion(versions) == Max({versions[i].version : i \in DOMAIN versions} \cup {0})
WithVersion(versions, object, seen) ==
    Append(versions, [version |-> LastVersion(seen) + 1, object |-> object])

LibraryQuiet == \A r \in Librarians : libReq[r] = NoRequest
Undisturbed == LibraryQuiet /\ \A d \in Docs : kgJobs[d] = NoJob

Goes(r, pc) == libReq' = [libReq EXCEPT ![r].pc = pc]
Leaves(r) == libReq' = [libReq EXCEPT ![r] = NoRequest]
LibFault == libFaults < LibMaxFaults /\ libFaults' = libFaults + 1

Indexes == <<wordIndex, savedIndex>>
Graph == <<triples, edges, kgJobs>>
Rows == <<docRows, archive, docChunks>>
LibCounts == <<libOps, libFaults, libAlone>>
LibPast == <<stored, spoilt>>

\* A request about d has loaded the row.
Loading(d) == [NoRequest EXCEPT !.doc = d, !.row = docRows[d]]

Enter(r, op, what) ==
    /\ libReq[r] = NoRequest /\ libOps < IF libAlone THEN MaxLibOps ELSE MaxLibOverlap
    /\ libAlone => Undisturbed
    /\ libOps' = libOps + 1
    /\ libReq' = [libReq EXCEPT ![r] =
                    [what EXCEPT !.op = op, !.no = libOps + 1, !.pc = "begun"]]
    /\ UNCHANGED <<objects, Rows, docVectors, Graph, Indexes, LibPast, libFaults, libAlone>>

LibAt(r, op, pc) == libReq[r].op = op /\ libReq[r].pc = pc

\* upload_documents: the object first, then the row.
BeginUpload(r) ==
    IF Living = {} THEN Enter(r, "upload", NoRequest)
    ELSE \E d \in Living :
            Enter(r, "upload", [Loading(d) EXCEPT !.versions = archive[d], !.seen = Living])

PutObject(r) ==
    /\ LibAt(r, "upload", "begun")
    /\ objects' = objects \cup {libReq[r].no}
    /\ Goes(r, "stored")
    /\ UNCHANGED <<Rows, docVectors, Graph, Indexes, LibPast, LibCounts>>

\* The name is new: two uploads that both found it new make two documents.
CreateDocument(r) ==
    LET no == libReq[r].no IN
    /\ LibAt(r, "upload", "stored") /\ libReq[r].doc = 0
    /\ docRows' = [docRows EXCEPT ![no] = [object |-> no, status |-> "pending"]]
    /\ stored' = stored \cup {no}
    /\ Leaves(r)
    /\ UNCHANGED <<objects, archive, docChunks, docVectors, Graph, Indexes, spoilt, LibCounts>>

ReplaceDocument(r) ==
    LET me == libReq[r]  d == me.doc IN
    /\ LibAt(r, "upload", "stored") /\ Cardinality(me.seen) = 1 /\ d \in Living
    /\ archive' = [archive EXCEPT ![d] = WithVersion(@, me.row.object, me.versions)]
    /\ docRows' = [docRows EXCEPT ![d] =
                     Flushed(@, me.row, [object |-> me.no, status |-> "pending"])]
    /\ stored' = stored \cup {me.no}
    /\ Leaves(r)
    /\ UNCHANGED <<objects, docChunks, docVectors, Graph, Indexes, spoilt, LibCounts>>

\* The name has two documents, or the one it had is gone: the object stays without a row.
RefuseUpload(r) ==
    /\ LibAt(r, "upload", "stored") /\ libReq[r].doc # 0
    /\ Cardinality(libReq[r].seen) > 1 \/ libReq[r].doc \notin Living
    /\ Leaves(r)
    /\ UNCHANGED <<objects, Rows, docVectors, Graph, Indexes, LibPast, LibCounts>>

\* parse_documents, of the object the row named when the request began.
BeginParse(r) ==
    \E d \in Living :
        /\ docRows[d].object \in objects
        /\ Enter(r, "parse", Loading(d))

Parse(r) ==
    LET me == libReq[r]  d == me.doc IN
    /\ LibAt(r, "parse", "begun")
    /\ IF d \notin Living THEN UNCHANGED Rows
       ELSE /\ docChunks' = [docChunks EXCEPT ![d] =
                   IF Pieces[me.row.object] = 0 THEN NoText
                   ELSE [of |-> me.row.object, edit |-> 0, parse |-> me.no]]
            /\ docRows' = [docRows EXCEPT ![d] =
                   Flushed(@, me.row, [me.row EXCEPT !.status = "parsed"])]
            /\ UNCHANGED archive
    /\ Leaves(r)
    /\ UNCHANGED <<objects, docVectors, Graph, Indexes, LibPast, LibCounts>>

\* vectorize_document: the old vectors go once the new ones are computed.
BeginVectorize(r) ==
    \E d \in Living :
        /\ docChunks[d] # NoText
        /\ Enter(r, "vectorize", [Loading(d) EXCEPT !.text = docChunks[d]])

ClearVectors(r) ==
    /\ LibAt(r, "vectorize", "begun")
    /\ docVectors' = [docVectors EXCEPT ![libReq[r].doc] = {}]
    /\ Goes(r, "cleared")
    /\ UNCHANGED <<objects, Rows, Graph, Indexes, LibPast, LibCounts>>

InsertVectors(r) ==
    /\ LibAt(r, "vectorize", "cleared")
    /\ docVectors' = [docVectors EXCEPT ![libReq[r].doc] = @ \cup {Says(libReq[r].text)}]
    /\ Goes(r, "inserted")
    /\ UNCHANGED <<objects, Rows, Graph, Indexes, LibPast, LibCounts>>

\* The status is written, when it changes, to a row that must still be there; then
\* the graph is to be extended and the word index built anew.
CommitVectorized(r) ==
    LET me == libReq[r]  d == me.doc IN
    /\ LibAt(r, "vectorize", "inserted")
    /\ IF d \notin Living /\ me.row.status # "vectorized"
       THEN UNCHANGED <<docRows, kgJobs, wordIndex>>
       ELSE /\ docRows' = IF d \notin Living THEN docRows
                          ELSE [docRows EXCEPT ![d] =
                                 Flushed(@, me.row, [me.row EXCEPT !.status = "vectorized"])]
            /\ kgJobs' = IF kgJobs[d] = NoJob THEN [kgJobs EXCEPT ![d].pc = "asked"]
                         ELSE kgJobs
            /\ IndexDirty
    /\ Leaves(r)
    /\ UNCHANGED <<objects, archive, docChunks, docVectors, triples, edges, savedIndex,
                   LibPast, LibCounts>>

\* update_chunk: the text is committed, then the document vectorized.
BeginEdit(r) ==
    \E d \in Living :
        /\ docChunks[d] # NoText
        /\ Enter(r, "edit", [NoRequest EXCEPT !.doc = d, !.text = docChunks[d]])

Edit(r) ==
    LET me == libReq[r]  d == me.doc  new == [me.text EXCEPT !.edit = me.no] IN
    /\ LibAt(r, "edit", "begun")
    /\ IF docChunks[d].parse = me.text.parse
       THEN /\ docChunks' = [docChunks EXCEPT ![d] = new]
            /\ libReq' = [libReq EXCEPT ![r].text = new, ![r].pc = "edited"]
       ELSE UNCHANGED docChunks /\ Leaves(r)
    /\ UNCHANGED <<objects, docRows, archive, docVectors, Graph, Indexes, LibPast, LibCounts>>

\* The session keeps the chunk it has edited and reads everything else again.
Revectorize(r) ==
    LET me == libReq[r]  d == me.doc IN
    /\ LibAt(r, "edit", "edited")
    /\ IF d \notin Living \/ docChunks[d] = NoText THEN Leaves(r)
       ELSE libReq' = [libReq EXCEPT ![r] =
               [me EXCEPT !.op = "vectorize", !.pc = "begun", !.row = docRows[d],
                          !.text = IF docChunks[d].parse = @.parse THEN @ ELSE docChunks[d]]]
    /\ UNCHANGED <<objects, Rows, docVectors, Graph, Indexes, LibPast, LibCounts>>

\* rollback_version; two versions of one number make it raise.
BeginRollback(r) ==
    \E d \in Living : \E i \in DOMAIN archive[d] :
        /\ \A j \in DOMAIN archive[d] : archive[d][j].version = archive[d][i].version => j = i
        /\ Enter(r, "rollback", [Loading(d) EXCEPT !.versions = archive[d],
                                                   !.object = archive[d][i].object])

Rollback(r) ==
    LET me == libReq[r]  d == me.doc IN
    /\ LibAt(r, "rollback", "begun")
    /\ \/ docVectors' = [docVectors EXCEPT ![d] = {}] /\ UNCHANGED libFaults
       \/ LibFault /\ UNCHANGED docVectors
    /\ IF d \notin Living THEN UNCHANGED Rows
       ELSE /\ archive' = [archive EXCEPT ![d] = WithVersion(@, me.row.object, me.versions)]
            /\ docRows' = [docRows EXCEPT ![d] =
                   Flushed(@, me.row, [object |-> me.object, status |-> "pending"])]
            /\ docChunks' = [docChunks EXCEPT ![d] = NoText]
    /\ Leaves(r)
    /\ UNCHANGED <<objects, Graph, Indexes, LibPast, libOps, libAlone>>

\* Milvus has dropped the vectors and the transaction fails.
RollbackFails(r) ==
    /\ LibAt(r, "rollback", "begun") /\ LibFault
    /\ docVectors' = [docVectors EXCEPT ![libReq[r].doc] = {}]
    /\ Leaves(r)
    /\ UNCHANGED <<objects, Rows, Graph, Indexes, LibPast, libOps, libAlone>>

\* delete_document: MinIO and Milvus, Neo4j, then MySQL; a store that is down is passed over.
BeginDelete(r) == \E d \in Living : Enter(r, "delete", Loading(d))

Strip(r) ==
    LET me == libReq[r] IN
    /\ LibAt(r, "delete", "begun")
    /\ \/ /\ objects' = objects \ {me.row.object}
          /\ docVectors' = [docVectors EXCEPT ![me.doc] = {}] /\ UNCHANGED libFaults
       \/ objects' = objects \ {me.row.object} /\ LibFault /\ UNCHANGED docVectors
       \/ docVectors' = [docVectors EXCEPT ![me.doc] = {}] /\ LibFault /\ UNCHANGED objects
    /\ Goes(r, "stripped")
    /\ UNCHANGED <<Rows, Graph, Indexes, LibPast, libOps, libAlone>>

Unlink(r) ==
    /\ LibAt(r, "delete", "stripped")
    /\ \/ /\ edges' = [f \in FactSet |-> IF edges[f] = libReq[r].doc THEN 0 ELSE edges[f]]
          /\ UNCHANGED libFaults
       \/ LibFault /\ UNCHANGED edges
    /\ Goes(r, "unlinked")
    /\ UNCHANGED <<objects, Rows, docVectors, triples, kgJobs, Indexes, LibPast, libOps, libAlone>>

\* The rows go together; the archived versions refer to the row and are not deleted, so
\* the row of a document that has any cannot go.
DeleteRows(r) ==
    LET d == libReq[r].doc IN
    /\ LibAt(r, "delete", "unlinked")
    /\ IF d \in Living /\ archive[d] # <<>>
       THEN /\ spoilt' = spoilt \cup {d}
            /\ UNCHANGED <<docRows, docChunks, triples, wordIndex, stored>>
       ELSE /\ docRows' = [docRows EXCEPT ![d] = NoDoc]
            /\ docChunks' = [docChunks EXCEPT ![d] = NoText]
            /\ triples' = {t \in triples : t.doc # d}
            /\ stored' = stored \ {docRows[d].object}
            /\ IndexDirty /\ UNCHANGED spoilt
    /\ Leaves(r)
    /\ UNCHANGED <<objects, archive, docVectors, edges, kgJobs, savedIndex, LibCounts>>

\* ensure_built, at the first need of a search.
BeginSearch(r) == Enter(r, "search", [NoRequest EXCEPT !.seen = Corpus])

EnsureBuilt(r) ==
    LET seen == libReq[r].seen
        cold == wordIndex.texts = {}
        loads == cold /\ savedIndex # {} /\ CountOf(savedIndex) = CountOf(seen) IN
    /\ LibAt(r, "search", "begun")
    /\ IF ~cold /\ ~wordIndex.dirty THEN UNCHANGED Indexes
       ELSE /\ wordIndex' = [texts |-> IF loads THEN savedIndex ELSE seen, dirty |-> FALSE]
            /\ savedIndex' = IF loads THEN savedIndex ELSE seen
    /\ Leaves(r)
    /\ UNCHANGED <<objects, Rows, docVectors, Graph, LibPast, LibCounts>>

\* extract_triples, asked for or after a vectorization: facts that are new to the
\* document are written to MySQL, and those alone to Neo4j.
AskExtraction(d) ==
    /\ d \in Living /\ kgJobs[d] = NoJob
    /\ libAlone => Undisturbed
    /\ kgJobs' = [kgJobs EXCEPT ![d].pc = "asked"]
    /\ UNCHANGED <<objects, Rows, docVectors, triples, edges, Indexes, libReq, LibPast, LibCounts>>

Extract(d) ==
    /\ kgJobs[d].pc = "asked"
    /\ \E found \in SUBSET {f \in FactSet : [doc |-> d, fact |-> f] \notin triples} :
          /\ IF d \in Living /\ docChunks[d] # NoText THEN found \subseteq Facts[docChunks[d].of]
             ELSE found = {}
          /\ kgJobs' = [kgJobs EXCEPT ![d] =
                          IF found = {} THEN NoJob ELSE [pc |-> "found", found |-> found]]
    /\ UNCHANGED <<objects, Rows, docVectors, triples, edges, Indexes, libReq, LibPast, LibCounts>>

WriteTriples(d) ==
    /\ kgJobs[d].pc = "found"
    /\ triples' = triples \cup {[doc |-> d, fact |-> f] : f \in kgJobs[d].found}
    /\ kgJobs' = [kgJobs EXCEPT ![d].pc = "written"]
    /\ UNCHANGED <<objects, Rows, docVectors, edges, Indexes, libReq, LibPast, LibCounts>>

\* MERGE keeps the document of an edge that is there.
MergeEdges(d) ==
    /\ kgJobs[d].pc = "written"
    /\ edges' = [f \in FactSet |-> IF f \in kgJobs[d].found /\ edges[f] = 0 THEN d ELSE edges[f]]
    /\ kgJobs' = [kgJobs EXCEPT ![d] = NoJob]
    /\ UNCHANGED <<objects, Rows, docVectors, triples, Indexes, libReq, LibPast, LibCounts>>

\* The extraction fails, before or after its commit.
ExtractionFails(d) ==
    /\ kgJobs[d].pc \in {"found", "written"} /\ LibFault
    /\ kgJobs' = [kgJobs EXCEPT ![d] = NoJob]
    /\ UNCHANGED <<objects, Rows, docVectors, triples, edges, Indexes, libReq, LibPast,
                   libOps, libAlone>>

Deleting == {libReq[r].doc : r \in {q \in Librarians :
                /\ libReq[q].op = "delete" /\ libReq[q].pc # "begun"}}

\* A call of a store or of a model fails and the request with it.
RequestFails(r) ==
    /\ libReq[r] # NoRequest /\ LibFault
    /\ spoilt' = IF libReq[r].doc \in Deleting THEN spoilt \cup {libReq[r].doc} ELSE spoilt
    /\ Leaves(r)
    /\ UNCHANGED <<objects, Rows, docVectors, Graph, Indexes, stored, libOps, libAlone>>

\* The process restarts: what is under way ends where it is, the disk keeps its index.
LibraryRestart ==
    /\ LibFault
    /\ libReq' = [r \in Librarians |-> NoRequest] /\ kgJobs' = [d \in Docs |-> NoJob]
    /\ wordIndex' = [texts |-> {}, dirty |-> FALSE]
    /\ spoilt' = spoilt \cup Deleting
    /\ UNCHANGED <<objects, Rows, docVectors, triples, edges, savedIndex, stored, libOps, libAlone>>

LibraryNext ==
    \/ \E r \in Librarians :
          \/ BeginUpload(r) \/ PutObject(r) \/ CreateDocument(r) \/ ReplaceDocument(r)
          \/ RefuseUpload(r)
          \/ BeginParse(r) \/ Parse(r)
          \/ BeginVectorize(r) \/ ClearVectors(r) \/ InsertVectors(r) \/ CommitVectorized(r)
          \/ BeginEdit(r) \/ Edit(r) \/ Revectorize(r)
          \/ BeginRollback(r) \/ Rollback(r) \/ RollbackFails(r)
          \/ BeginDelete(r) \/ Strip(r) \/ Unlink(r) \/ DeleteRows(r)
          \/ BeginSearch(r) \/ EnsureBuilt(r)
          \/ RequestFails(r)
    \/ \E d \in Docs :
          AskExtraction(d) \/ Extract(d) \/ WriteTriples(d) \/ MergeEdges(d) \/ ExtractionFails(d)
    \/ LibraryRestart

LibrarySpec == LibraryInit /\ [][LibraryNext]_libVars
-----------------------------------------------------------------------------
Archived(d) == {archive[d][i].object : i \in DOMAIN archive[d]}

\* What an upload reported as stored stays within reach, as a row's object or as a
\* version one can roll back to, until the document is deleted: replacing and rolling
\* back archive first.
NothingIsLost ==
    libAlone => \A o \in stored : \E d \in Living : o = docRows[d].object \/ o \in Archived(d)

\* A version number names one version of a document, so a rollback finds it.
VersionsAreDistinct ==
    libAlone => \A d \in Docs : \A i, j \in DOMAIN archive[d] :
                    archive[d][i].version = archive[d][j].version => i = j

\* Only a deletion takes an object away from the rows that name it.
ObjectsAreThere ==
    \A d \in Living \ (spoilt \cup Deleting) :
        {docRows[d].object} \cup Archived(d) \subseteq objects

\* The chunks of a document go with its row.
ChunksHaveADocument == \A d \in Docs : docChunks[d] # NoText => d \in Living

\* A document shown as vectorized is found by both searches with the text its chunks have.
VectorizedIsSearchable ==
    libAlone /\ libFaults = 0 /\ LibraryQuiet =>
        \A d \in Living \ spoilt : docRows[d].status = "vectorized" =>
            /\ docVectors[d] = {Says(docChunks[d])}
            /\ wordIndex.texts = {} \/ wordIndex.dirty \/ Says(docChunks[d]) \in wordIndex.texts

\* Nothing of a deleted document can be found, and MinIO keeps what uploads reported alone.
DeletedLeavesNothing ==
    libAlone /\ libFaults = 0 /\ LibraryQuiet =>
        /\ objects \subseteq stored
        /\ wordIndex.dirty \/ {t.of : t \in wordIndex.texts} \subseteq stored
        /\ \A d \in Docs \ Living :
              docVectors[d] = {} /\ \A t \in triples : t.doc # d

\* Every edge of the graph can be traced to the triple it was written for.
EdgesAreTraceable ==
    libAlone /\ libFaults = 0 =>
        \A f \in FactSet : edges[f] # 0 => [doc |-> edges[f], fact |-> f] \in triples

LibraryKept ==
    /\ NothingIsLost /\ VersionsAreDistinct /\ ObjectsAreThere /\ ChunksHaveADocument
    /\ VectorizedIsSearchable /\ DeletedLeavesNothing /\ EdgesAreTraceable

\* "联动删除" (document_service.py:404): a deletion that nothing disturbs deletes everything.
\* TLC refutes it: a document that has archived versions loses its object, its vectors and
\* its edges, and then the foreign key of the versions keeps its row.
DeletionIsComplete == libFaults = 0 => spoilt = {}

\* "已换版→需重新解析" (document_service.py:107), "文档尚未解析，请先调用解析接口" (line 340): what
\* is shown as vectorized was parsed from the object the row names.  TLC refutes it: a
\* replaced document keeps the chunks of the old object, and vectorizing accepts them.
VectorizedIsCurrent ==
    libAlone /\ LibraryQuiet =>
        \A d \in Living : docRows[d].status = "vectorized" => docChunks[d].of = docRows[d].object

\* "带 chunk 数校验防脏加载" (bm25_service.py:7): an index that is not dirty has the chunks
\* of the rows.  TLC refutes it: an edit keeps the number of the chunks, and a restart
\* forgets that the index was dirty; a search that began before a change clears the mark.
CleanIndexIsFresh ==
    Undisturbed /\ wordIndex.texts # {} /\ ~wordIndex.dirty =>
        \A d \in Living : docRows[d].status = "vectorized" => Says(docChunks[d]) \in wordIndex.texts

\* "与 MySQL DISTINCT(s,r,o) 应相等" (neo4j_client.py:86): the edges are the facts of the
\* triples.  TLC refutes it: an edge that two documents share goes with the one that made it.
EdgesMirrorTriples ==
    Undisturbed /\ libFaults = 0 => {f \in FactSet : edges[f] # 0} = {t.fact : t \in triples}
=============================================================================
