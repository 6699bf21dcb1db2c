-------------------------- MODULE DocumentsProofs ---------------------------
(***************************************************************************)
(* What holds of the document library, for any number of requests,         *)
(* documents, failures and restarts.                                       *)
(*                                                                         *)
(* Whatever overlaps: an object belongs to one document, and the objects   *)
(* of a document that is not being deleted are there.  While requests do   *)
(* not overlap, what a request has read is still so when it writes, so     *)
(* that nothing is lost and versions are distinct; and while no store has  *)
(* failed either, the vectors, the word index and the edges say what the   *)
(* tables say.                                                             *)
(***************************************************************************)
EXTENDS Documents, FiniteSetTheorems, SequenceTheorems, WellFoundedInduction, TLAPS

-----------------------------------------------------------------------------
(* The inductive invariant.                                                *)

LibRow == [object : Docs, status : {"pending", "parsed", "vectorized"}]
LibText == [of : Docs, edit : Nat, parse : Nat \ {0}]
Said == [of : Docs, edit : Nat]
LibVersion == [version : Nat, object : Docs]
LibPlaces == {"idle", "begun", "stored", "edited", "cleared", "inserted", "stripped", "unlinked"}
LibRequest ==
    [pc : LibPlaces, op : LibOps \cup {"none"}, no : Nat, doc : Nat, row : LibRow \cup {NoDoc},
     text : LibText \cup {NoText}, versions : Seq(LibVersion), seen : SUBSET (Docs \cup Said),
     object : Nat]
LibJob == [pc : {"none", "asked", "found", "written"}, found : SUBSET FactSet]

\* What a request holds fits what it does.
Fits(q) ==
    /\ q = NoRequest \/ (q.op \in LibOps /\ q.pc # "idle" /\ q.no \in 1..libOps)
    /\ q.op \in {"upload", "search"} => q.doc = 0 \/ (q.doc \in Docs /\ q.row \in LibRow)
    /\ q.op \in {"parse", "vectorize", "rollback", "delete"} => q.doc \in Docs /\ q.row \in LibRow
    /\ q.op \in {"vectorize", "edit"} => q.doc \in Docs /\ q.text \in LibText
    /\ q.op = "rollback" => q.object \in Docs
    /\ q.op = "search" => q.seen \subseteq Said

\* The tables, the stores and the requests have their types.
LibTypeInv ==
    /\ libOps \in Nat /\ libOps <= MaxLibOps /\ libFaults \in Nat /\ libAlone \in BOOLEAN
    /\ docRows \in [Docs -> LibRow \cup {NoDoc}] /\ archive \in [Docs -> Seq(LibVersion)]
    /\ docChunks \in [Docs -> LibText \cup {NoText}] /\ docVectors \in [Docs -> SUBSET Said]
    /\ objects \subseteq Docs /\ stored \subseteq Docs
    /\ edges \in [FactSet -> Nat] /\ kgJobs \in [Docs -> LibJob]
    /\ wordIndex \in [texts : SUBSET Said, dirty : BOOLEAN] /\ savedIndex \subseteq Said
    /\ libReq \in [Librarians -> LibRequest] /\ \A r \in Librarians : Fits(libReq[r])

\* o is an object of d: its row's, one of an archived version, or one that a request about
\* d has read.
Names(o, d) ==
    \/ docRows[d].object = o
    \/ \E i \in DOMAIN archive[d] : archive[d][i].object = o
    \/ \E r \in Librarians : libReq[r].doc = d /\ (libReq[r].row.object = o \/ libReq[r].object = o)

\* Objects and documents are numbered by the uploads that made them, an object is of one
\* document at most, and what an upload is about to make is not there yet.
NamesInv ==
    /\ \A o, d \in Docs : Names(o, d) => o <= libOps /\ d <= libOps
    /\ \A o, d, e \in Docs : Names(o, d) /\ Names(o, e) => d = e
    /\ \A r \in Librarians, d \in Docs : libReq[r].op = "upload" =>
          ~Names(libReq[r].no, d) /\ ~Names(d, libReq[r].no)
    /\ \A r, s \in Librarians : libReq[r] # NoRequest /\ libReq[s] # NoRequest /\ r # s =>
          libReq[r].no # libReq[s].no

\* An upload has put its object, and the objects of a document are there until a deletion.
ThereInv ==
    /\ \A r \in Librarians : LibAt(r, "upload", "stored") => libReq[r].no \in objects
    /\ \A d \in Living \ (spoilt \cup Deleting), o \in Docs : Names(o, d) => o \in objects

\* What a request has read is still so.
Current(q) ==
    LET d == q.doc IN
    /\ q.op = "upload" /\ d = 0 => Living = {}
    /\ q.op = "upload" /\ d # 0 => d \in Living /\ q.row = docRows[d] /\ q.versions = archive[d]
                                   /\ q.seen = Living
    /\ q.op \in {"parse", "vectorize", "rollback", "delete"} => d \in Living /\ q.row = docRows[d]
    /\ q.op = "rollback" => q.versions = archive[d] /\ q.object \in Archived(d)
    /\ q.op \in {"vectorize", "edit"} => d \in Living /\ q.text = docChunks[d]
    /\ q.op = "search" => q.seen = Corpus

\* One request at a time, or one extraction, and one document, as long as nothing overlaps.
LibOneInv ==
    /\ \A r, s \in Librarians : libReq[r] # NoRequest /\ libReq[s] # NoRequest => r = s
    /\ \A r \in Librarians, d \in Docs : libReq[r] # NoRequest => kgJobs[d] = NoJob
    /\ \A d, e \in Docs : kgJobs[d] # NoJob /\ kgJobs[e] # NoJob => d = e
    /\ \A d, e \in Living : d = e
    /\ \A d \in Docs : kgJobs[d] # NoJob => d \in Living
    /\ \A d \in Docs : kgJobs[d].pc = "written" =>
          \A f \in kgJobs[d].found : [doc |-> d, fact |-> f] \in triples
    /\ \A r \in Librarians : Current(libReq[r])

\* Versions are numbered as they come, and what is stored is within reach.
ReachInv ==
    /\ \A d \in Docs : \A i \in DOMAIN archive[d] : archive[d][i].version = i
    /\ \A o \in stored : \E d \in Living : o = docRows[d].object \/ o \in Archived(d)
    /\ \A d \in Living :
          /\ docRows[d].object \in stored /\ Archived(d) \subseteq stored
          /\ docChunks[d] # NoText => docChunks[d].of \in {docRows[d].object} \cup Archived(d)
          /\ docRows[d].status = "vectorized" => docChunks[d] # NoText

\* A request is changing what can be found of d.
Touched(d) ==
    \E r \in Librarians :
        /\ libReq[r].doc = d
        /\ \/ libReq[r].op = "vectorize" \/ LibAt(r, "edit", "edited")
           \/ libReq[r].op = "delete" /\ libReq[r].pc # "begun"

\* How far a request that is changing it has come.
Changed(q) ==
    /\ q.op = "vectorize" /\ q.pc = "inserted" => docVectors[q.doc] = {Says(docChunks[q.doc])}
    /\ q.op = "vectorize" /\ q.pc = "cleared" => docVectors[q.doc] = {}
    /\ q.op = "delete" /\ q.pc # "begun" => docVectors[q.doc] = {} /\ q.row.object \notin objects
    /\ q.op = "delete" /\ q.pc = "unlinked" => \A f \in FactSet : edges[f] # q.doc

\* Without failures the indexes say what the tables say, where no request is changing it.
FaultFreeInv ==
    /\ savedIndex = wordIndex.texts
    /\ \A d \in Living \ spoilt : docRows[d].status = "vectorized" /\ ~Touched(d) =>
          /\ docVectors[d] = {Says(docChunks[d])}
          /\ wordIndex.texts = {} \/ wordIndex.dirty \/ Says(docChunks[d]) \in wordIndex.texts
    /\ \A o \in objects :
          o \in stored \/ \E r \in Librarians : LibAt(r, "upload", "stored") /\ libReq[r].no = o
    /\ wordIndex.dirty \/ \A t \in wordIndex.texts : t.of \in stored
    /\ \A d \in Docs \ Living : docVectors[d] = {} /\ \A t \in triples : t.doc # d
    /\ \A f \in FactSet : edges[f] # 0 => [doc |-> edges[f], fact |-> f] \in triples
    /\ \A r \in Librarians : Changed(libReq[r])

\* What holds while requests do not overlap; the last part until something fails.
LibAloneInv == libAlone => LibOneInv /\ ReachInv /\ (libFaults = 0 => FaultFreeInv)
LibInv == LibTypeInv /\ NamesInv /\ ThereInv /\ ChunksHaveADocument /\ LibAloneInv

-----------------------------------------------------------------------------
(* The types.                                                              *)

\* The bounds are numbers, and documents are numbered from 1.
LEMMA LibraryBounds ==
    /\ MaxLibOps \in Nat /\ MaxLibOverlap \in Nat /\ MaxLibOverlap <= MaxLibOps
    /\ Docs = 1..MaxLibOps /\ Pieces \in [Docs -> Nat]
    /\ 0 \notin Docs /\ Docs \subseteq Nat
BY LibraryAssumption DEF Docs

\* What is not there yet is none of what there can be.
LEMMA NoneYet ==
    /\ NoDoc \notin LibRow /\ NoText \notin LibText
    /\ NoDoc.object = 0 /\ NoRequest \in LibRequest /\ NoJob \in LibJob
    /\ NoRequest.op = "none" /\ NoRequest.pc = "idle" /\ NoRequest.doc = 0
    /\ NoRequest.row = NoDoc /\ NoRequest.object = 0
<1>1. NoDoc \notin LibRow /\ NoText \notin LibText /\ NoDoc.object = 0
  BY LibraryBounds DEF NoDoc, NoText, LibRow, LibText
<1>2. <<>> \in Seq(LibVersion)
  OBVIOUS
<1> QED BY <1>1, <1>2 DEF NoRequest, NoJob, LibRequest, LibJob, LibPlaces

\* A request has begun: it holds what it has read.
Begun(r, q) ==
    /\ libReq[r] = NoRequest /\ libReq' = [libReq EXCEPT ![r] = q]
    /\ libOps < MaxLibOps /\ libOps' = libOps + 1
    /\ libAlone => Undisturbed
    /\ q \in LibRequest /\ q.op \in LibOps /\ q.pc = "begun" /\ q.no = libOps + 1
    /\ Current(q)
    /\ q.op # "upload" /\ q.op # "search" => q.doc \in Living
    /\ q.op = "search" => q.doc = 0
    /\ q.doc = 0 \/ q.doc \in Living
    /\ q.row = NoDoc \/ (q.doc \in Living /\ q.row = docRows[q.doc])
    /\ q.object = 0 \/ (q.doc \in Living /\ q.object \in Archived(q.doc))
    /\ q.op \in {"vectorize", "edit"} => q.text \in LibText
    /\ q.op = "rollback" => q.object \in Docs
    /\ UNCHANGED <<objects, docRows, archive, docChunks, docVectors, triples, edges, kgJobs,
                   wordIndex, savedIndex, stored, spoilt, libFaults, libAlone>>

Beginnings(r) ==
    \/ BeginUpload(r) \/ BeginParse(r) \/ BeginVectorize(r) \/ BeginEdit(r)
    \/ BeginRollback(r) \/ BeginDelete(r) \/ BeginSearch(r)

\* What a document says is of one of the objects.
LEMMA SaysWhat ==
    ASSUME LibTypeInv, NEW d \in Docs, docChunks[d] # NoText
    PROVE  docChunks[d] \in LibText /\ Says(docChunks[d]) \in Said
           /\ Says(docChunks[d]).of = docChunks[d].of
BY DEF LibTypeInv, LibText, Says, Said

\* A document that lives has a row, and no other does.
LEMMA LivingRow ==
    ASSUME LibTypeInv
    PROVE  /\ Living \subseteq Docs
           /\ \A d \in Living : docRows[d] \in LibRow /\ docRows[d].object \in Docs
           /\ \A d \in Docs \ Living : docRows[d] = NoDoc
BY DEF LibTypeInv, Living, LibRow

\* The corpus is what the chunks of the living documents say.
LEMMA CorpusSays ==
    ASSUME LibTypeInv
    PROVE  /\ Corpus \subseteq Said
           /\ \A t \in Corpus : \E d \in Living : docChunks[d] # NoText /\ t = Says(docChunks[d])
           /\ \A d \in Living : docChunks[d] # NoText => Says(docChunks[d]) \in Corpus
BY SaysWhat, LivingRow DEF Corpus

\* The request as Enter writes it down.
Stamped(what, op) == [what EXCEPT !.op = op, !.no = libOps + 1, !.pc = "begun"]

\* A request enters alone, unless requests may overlap, and changes nothing else.
LEMMA EnteredAs ==
    ASSUME NEW r \in Librarians, NEW op, NEW what, Enter(r, op, what)
    PROVE  /\ libReq[r] = NoRequest
           /\ libReq' = [libReq EXCEPT ![r] = Stamped(what, op)]
           /\ libOps < (IF libAlone THEN MaxLibOps ELSE MaxLibOverlap) /\ libOps' = libOps + 1
           /\ libAlone => Undisturbed
           /\ UNCHANGED <<objects, docRows, archive, docChunks, docVectors, triples, edges, kgJobs,
                          wordIndex, savedIndex, stored, spoilt, libFaults, libAlone>>
BY DEF Enter, Rows, Graph, Indexes, LibPast, Stamped

\* Stamping a request keeps what it has read.
LEMMA StampedFields ==
    ASSUME NEW what \in LibRequest, NEW op \in LibOps, libOps \in Nat
    PROVE  LET q == Stamped(what, op) IN
           /\ q \in LibRequest /\ q.op = op /\ q.pc = "begun" /\ q.no = libOps + 1
           /\ q.doc = what.doc /\ q.row = what.row /\ q.object = what.object
           /\ q.text = what.text /\ q.versions = what.versions /\ q.seen = what.seen
<1>1. "begun" \in LibPlaces /\ op \in LibOps \cup {"none"} /\ libOps + 1 \in Nat
  BY DEF LibPlaces
<1> QED BY <1>1 DEF LibRequest, Stamped

\* Every way to begin is one of those that Begun lists.
LEMMA Beginning ==
    ASSUME LibTypeInv, NEW r \in Librarians, Beginnings(r)
    PROVE  \E q : Begun(r, q)
<1>0. libOps \in Nat /\ NoRequest \in LibRequest
  BY NoneYet DEF LibTypeInv
<1>1. ASSUME NEW op \in LibOps, NEW what \in LibRequest, Enter(r, op, what),
             Current(Stamped(what, op)),
             op # "upload" /\ op # "search" => what.doc \in Living,
             op = "search" => what.doc = 0,
             what.doc = 0 \/ what.doc \in Living,
             what.row = NoDoc \/ (what.doc \in Living /\ what.row = docRows[what.doc]),
             what.object = 0 \/ (what.doc \in Living /\ what.object \in Archived(what.doc)),
             op \in {"vectorize", "edit"} => what.text \in LibText,
             op = "rollback" => what.object \in Docs
      PROVE  Begun(r, Stamped(what, op))
  <2> DEFINE q == Stamped(what, op)
  <2>1. /\ q \in LibRequest /\ q.op = op /\ q.pc = "begun" /\ q.no = libOps + 1
        /\ q.doc = what.doc /\ q.row = what.row /\ q.object = what.object /\ q.text = what.text
    BY <1>0, StampedFields
  <2>a. libOps < IF libAlone THEN MaxLibOps ELSE MaxLibOverlap
    BY <1>1, EnteredAs
  <2>2. libOps < MaxLibOps
    BY <1>0, <2>a, LibraryBounds
  <2>3. Current(q)
    BY <1>1
  <2> HIDE DEF q
  <2>4. libReq' = [libReq EXCEPT ![r] = q]
    BY <1>1, EnteredAs DEF q
  <2> QED BY <1>1, <2>1, <2>2, <2>3, <2>4, EnteredAs DEF Begun, q
<1>2. ASSUME NEW d \in Living
      PROVE  /\ Loading(d) \in LibRequest /\ d \in Docs /\ Loading(d).doc = d
             /\ Loading(d).row = docRows[d] /\ Loading(d).object = 0 /\ d \in Nat /\ d # 0
             /\ archive[d] \in Seq(LibVersion) /\ docRows[d] \in LibRow
  BY <1>0, LivingRow, LibraryBounds, <1>2 DEF LibTypeInv, Loading, NoRequest, LibRequest
<1>3. CASE BeginUpload(r)
  <2>1. CASE Living = {}
    <3>1. Enter(r, "upload", NoRequest)
      BY <1>3, <2>1 DEF BeginUpload
    <3>2. Current(Stamped(NoRequest, "upload"))
      BY <2>1, <1>0, NoneYet, StampedFields DEF Current, LibOps
    <3> QED BY <1>0, <1>1, <3>1, <3>2, NoneYet DEF LibOps
  <2>2. CASE Living # {}
    <3>1. PICK d \in Living :
             Enter(r, "upload", [Loading(d) EXCEPT !.versions = archive[d], !.seen = Living])
      BY <1>3, <2>2 DEF BeginUpload
    <3> DEFINE what == [Loading(d) EXCEPT !.versions = archive[d], !.seen = Living]
    <3>a. Living \in SUBSET (Docs \cup Said)
      BY LivingRow
    <3>2. /\ what \in LibRequest /\ what.doc = d /\ what.row = docRows[d] /\ what.object = 0
          /\ what.versions = archive[d] /\ what.seen = Living
      <4>1. Loading(d) \in LibRequest /\ archive[d] \in Seq(LibVersion)
        BY <1>2
      <4>2. what.doc = Loading(d).doc /\ what.row = Loading(d).row
            /\ what.object = Loading(d).object
        BY <4>1 DEF LibRequest
      <4>3. what \in LibRequest /\ what.versions = archive[d] /\ what.seen = Living
        BY <3>a, <4>1 DEF LibRequest
      <4> QED BY <1>2, <4>2, <4>3
    <3> HIDE DEF what
    <3>3. Current(Stamped(what, "upload"))
      BY <1>2, <3>2, <1>0, StampedFields DEF Current, LibOps
    <3> QED BY <1>1, <1>2, <3>1, <3>2, <3>3 DEF what, LibOps
  <2> QED BY <2>1, <2>2
<1>4. CASE BeginParse(r)
  <2>1. PICK d \in Living : Enter(r, "parse", Loading(d))
    BY <1>4 DEF BeginParse
  <2>2. Current(Stamped(Loading(d), "parse"))
    BY <1>2, <1>0, StampedFields DEF Current, LibOps
  <2> QED BY <1>1, <1>2, <2>1, <2>2 DEF LibOps
<1>5. CASE BeginVectorize(r)
  <2>1. PICK d \in Living : /\ docChunks[d] # NoText
                            /\ Enter(r, "vectorize", [Loading(d) EXCEPT !.text = docChunks[d]])
    BY <1>5 DEF BeginVectorize
  <2> DEFINE what == [Loading(d) EXCEPT !.text = docChunks[d]]
  <2>2. /\ what \in LibRequest /\ what.doc = d /\ what.row = docRows[d] /\ what.object = 0
        /\ what.text = docChunks[d] /\ docChunks[d] \in LibText
    BY <1>2, <2>1, SaysWhat DEF LibRequest
  <2> HIDE DEF what
  <2>3. Current(Stamped(what, "vectorize"))
    BY <1>2, <2>2, <1>0, StampedFields DEF Current, LibOps
  <2> QED BY <1>1, <1>2, <2>1, <2>2, <2>3 DEF what, LibOps
<1>6. CASE BeginEdit(r)
  <2>1. PICK d \in Living :
            /\ docChunks[d] # NoText
            /\ Enter(r, "edit", [NoRequest EXCEPT !.doc = d, !.text = docChunks[d]])
    BY <1>6 DEF BeginEdit
  <2> DEFINE what == [NoRequest EXCEPT !.doc = d, !.text = docChunks[d]]
  <2>2. /\ what \in LibRequest /\ what.doc = d /\ what.row = NoDoc /\ what.object = 0
        /\ what.text = docChunks[d] /\ docChunks[d] \in LibText
    BY <1>0, <1>2, <2>1, SaysWhat DEF LibRequest, NoRequest
  <2> HIDE DEF what
  <2>3. Current(Stamped(what, "edit"))
    BY <1>2, <2>2, <1>0, StampedFields DEF Current, LibOps
  <2> QED BY <1>1, <1>2, <2>1, <2>2, <2>3 DEF what, LibOps
<1>7. CASE BeginRollback(r)
  <2>a. PICK d \in Living : \E i \in DOMAIN archive[d] :
            Enter(r, "rollback", [Loading(d) EXCEPT !.versions = archive[d],
                                                    !.object = archive[d][i].object])
    BY <1>7 DEF BeginRollback
  <2>1. PICK i \in DOMAIN archive[d] :
            Enter(r, "rollback", [Loading(d) EXCEPT !.versions = archive[d],
                                                    !.object = archive[d][i].object])
    BY <2>a
  <2> DEFINE what == [Loading(d) EXCEPT !.versions = archive[d], !.object = archive[d][i].object]
  <2>0. archive[d][i].object \in Docs /\ archive[d][i].object \in Archived(d)
    <3>1. archive[d][i] \in LibVersion
      BY <1>2
    <3> QED BY <3>1 DEF LibVersion, Archived
  <2>2. /\ what \in LibRequest /\ what.doc = d /\ what.row = docRows[d]
        /\ what.versions = archive[d] /\ what.object = archive[d][i].object
    <3>1. archive[d][i].object \in Nat
      BY <2>0, LibraryBounds
    <3>2. Loading(d) \in LibRequest /\ archive[d] \in Seq(LibVersion)
      BY <1>2
    <3>3. what.doc = Loading(d).doc /\ what.row = Loading(d).row
      BY <3>2 DEF LibRequest
    <3>4. what \in LibRequest /\ what.versions = archive[d] /\ what.object = archive[d][i].object
      BY <3>1, <3>2 DEF LibRequest
    <3> QED BY <1>2, <3>3, <3>4
  <2> HIDE DEF what
  <2>3. Current(Stamped(what, "rollback"))
    BY <1>2, <2>0, <2>2, <1>0, StampedFields DEF Current, LibOps
  <2> QED BY <1>1, <1>2, <2>0, <2>1, <2>2, <2>3 DEF what, LibOps
<1>8. CASE BeginDelete(r)
  <2>1. PICK d \in Living : Enter(r, "delete", Loading(d))
    BY <1>8 DEF BeginDelete
  <2>2. Current(Stamped(Loading(d), "delete"))
    BY <1>2, <1>0, StampedFields DEF Current, LibOps
  <2> QED BY <1>1, <1>2, <2>1, <2>2 DEF LibOps
<1>9. CASE BeginSearch(r)
  <2> DEFINE what == [NoRequest EXCEPT !.seen = Corpus]
  <2>1. Enter(r, "search", what)
    BY <1>9 DEF BeginSearch
  <2>2. /\ what \in LibRequest /\ what.doc = 0 /\ what.row = NoDoc /\ what.object = 0
        /\ what.seen = Corpus
    BY <1>0, CorpusSays DEF LibRequest, NoRequest
  <2> HIDE DEF what
  <2>3. Current(Stamped(what, "search"))
    BY <2>2, <1>0, StampedFields DEF Current, LibOps
  <2> QED BY <1>1, <2>1, <2>2, <2>3 DEF what, LibOps
<1> QED BY <1>3, <1>4, <1>5, <1>6, <1>7, <1>8, <1>9 DEF Beginnings

\* Less-than on the naturals is well-founded, as a set of pairs.
LEMMA BelowWellFounded == IsWellFoundedOn({ss \in Nat \X Nat : ss[1] < ss[2]}, Nat)
BY NatLessThanWellFounded DEF OpToRel

\* A set of naturals that has an element has a least one.
LEMMA LeastElement ==
    ASSUME NEW T, T \subseteq Nat, T # {}
    PROVE  \E x \in T : \A y \in T : x <= y
<1> DEFINE R == {ss \in Nat \X Nat : ss[1] < ss[2]}
<1>1. \E x \in T : \A y \in T : ~(<<y, x>> \in R)
  <2> HIDE DEF R
  <2>1. IsWellFoundedOn(R, Nat)
    BY BelowWellFounded DEF R
  <2> QED BY <2>1, WFMin
<1>2. PICK x \in T : \A y \in T : ~(<<y, x>> \in R)
  BY <1>1
<1>3. ASSUME NEW y \in T PROVE x <= y
  <2>1. x \in Nat /\ y \in Nat
    OBVIOUS
  <2>2. y < x => <<y, x>> \in R
    BY <2>1
  <2> QED BY <1>2, <2>1, <2>2
<1> QED BY <1>3

\* The fields of archived versions.
LEMMA VersionFields ==
    ASSUME NEW s \in Seq(LibVersion)
    PROVE  /\ Len(s) \in Nat /\ DOMAIN s = 1..Len(s)
           /\ \A i \in 1..Len(s) : /\ s[i] \in LibVersion
                                  /\ s[i].version \in Nat /\ s[i].object \in Docs
<1>1. Len(s) \in Nat /\ DOMAIN s = 1..Len(s) /\ \A i \in 1..Len(s) : s[i] \in LibVersion
  OBVIOUS
<1>2. \A v \in LibVersion : v.version \in Nat /\ v.object \in Docs
  BY DEF LibVersion
<1> QED BY <1>1, <1>2

\* The newest of the first n versions, or 0: the least n without one would have a
\* predecessor with one.
LEMMA NewestOf ==
    ASSUME NEW s \in Seq(LibVersion), NEW n \in 0..Len(s)
    PROVE  \E m \in {s[i].version : i \in 1..n} \cup {0} : \A i \in 1..n : s[i].version <= m
<1> DEFINE Newest(k, m) == /\ m \in {s[i].version : i \in 1..k} \cup {0}
                           /\ \A i \in 1..k : s[i].version <= m
           T == {k \in 0..Len(s) : ~ \E m : Newest(k, m)}
<1>0. /\ Len(s) \in Nat /\ T \subseteq Nat
      /\ \A i \in 1..Len(s) : s[i].version \in Nat
  BY VersionFields
<1> SUFFICES ASSUME T # {} PROVE FALSE
  OBVIOUS
<1>1. PICK k \in T : \A j \in T : k <= j
  BY <1>0, LeastElement
<1>2. k # 0
  <2>1. Newest(0, 0)
    OBVIOUS
  <2> QED BY <1>1, <2>1
<1>3. k - 1 \in 0..Len(s) /\ k - 1 \notin T /\ k \in 1..Len(s)
  <2>1. k \in 0..Len(s) /\ k \in Nat
    BY <1>0
  <2>2. k - 1 \in Nat /\ ~(k <= k - 1)
    BY <1>2, <2>1
  <2>3. k - 1 \notin T
    BY <1>1, <2>2
  <2> QED BY <1>0, <1>2, <2>1, <2>3
<1>4. PICK m : Newest(k - 1, m)
  BY <1>3
<1>5. m \in Nat /\ s[k].version \in Nat
  BY <1>0, <1>3, <1>4
<1>6. \A i \in 1..k : i = k \/ i \in 1..(k - 1)
  BY <1>3
<1>7. CASE s[k].version <= m
  <2>1. Newest(k, m)
    BY <1>3, <1>4, <1>6, <1>7
  <2> QED BY <1>1, <2>1
<1>8. CASE m < s[k].version
  <2>1. \A i \in 1..(k - 1) : s[i].version <= s[k].version
    BY <1>0, <1>3, <1>4, <1>5, <1>8
  <2>2. Newest(k, s[k].version)
    BY <1>3, <1>5, <1>6, <2>1
  <2> QED BY <1>1, <2>2
<1> QED BY <1>5, <1>7, <1>8

\* The last version: its number is a number, and that of the end if versions are numbered as
\* they come.
LEMMA LastVersionOf ==
    ASSUME NEW s \in Seq(LibVersion)
    PROVE  /\ LastVersion(s) \in Nat
           /\ (\A i \in DOMAIN s : s[i].version = i) => LastVersion(s) = Len(s)
<1> DEFINE V == {s[i].version : i \in DOMAIN s} \cup {0}
<1>0. /\ Len(s) \in Nat /\ DOMAIN s = 1..Len(s)
      /\ \A i \in 1..Len(s) : s[i].version \in Nat
  BY VersionFields
<1>1. V \subseteq Nat
  BY <1>0
<1>2. PICK m \in V : \A v \in V : m >= v
  <2>1. PICK m \in V : \A i \in 1..Len(s) : s[i].version <= m
    <3>1. V = {s[i].version : i \in 1..Len(s)} \cup {0} /\ Len(s) \in 0..Len(s)
      BY <1>0
    <3> QED BY <3>1, NewestOf
  <2>2. m \in Nat
    BY <1>1
  <2>3. ASSUME NEW v \in V PROVE m >= v
    BY <1>0, <2>1, <2>2
  <2> QED BY <2>3
<1>3. LastVersion(s) \in V /\ \A v \in V : LastVersion(s) >= v
  <2>1. LastVersion(s) = CHOOSE x \in V : \A y \in V : x >= y
    BY DEF LastVersion, Max
  <2> HIDE DEF V
  <2> QED BY <1>2, <2>1
<1>4. ASSUME \A i \in DOMAIN s : s[i].version = i
      PROVE  LastVersion(s) = Len(s)
  <2>1. V = 0..Len(s)
    BY <1>0, <1>4
  <2> HIDE DEF V
  <2> QED BY <1>0, <1>3, <2>1
<1> QED BY <1>1, <1>3, <1>4

\* A version added to the archive comes last and keeps the others.
LEMMA VersionAdded ==
    ASSUME NEW versions \in Seq(LibVersion), NEW seen \in Seq(LibVersion), NEW o \in Docs
    PROVE  LET w == WithVersion(versions, o, seen)  n == Len(versions) IN
           /\ w \in Seq(LibVersion) /\ n \in Nat
           /\ DOMAIN versions = 1..n /\ DOMAIN w = 1..(n + 1)
           /\ \A i \in 1..n : w[i] = versions[i]
           /\ w[n + 1].object = o /\ w[n + 1].version = LastVersion(seen) + 1
<1> DEFINE e == [version |-> LastVersion(seen) + 1, object |-> o]
<1>1. e \in LibVersion
  <2>1. LastVersion(seen) + 1 \in Nat
    BY LastVersionOf
  <2> QED BY <2>1 DEF LibVersion
<1>2. e.object = o /\ e.version = LastVersion(seen) + 1
  OBVIOUS
<1>3. WithVersion(versions, o, seen) = Append(versions, e)
  BY DEF WithVersion
<1> HIDE DEF e
<1> QED BY <1>1, <1>2, <1>3, AppendProperties

\* q takes the place of the request r.
Becomes(r, q) == libReq' = [libReq EXCEPT ![r] = q]

\* The requests differ in how far they have come.
SameAim(p, q) ==
    /\ q.op = p.op /\ q.no = p.no /\ q.doc = p.doc /\ q.row = p.row /\ q.text = p.text
    /\ q.versions = p.versions /\ q.seen = p.seen /\ q.object = p.object

\* What a request holds fits as long as its aim is the same.
LEMMA FitsSame ==
    ASSUME NEW p \in LibRequest, NEW q \in LibRequest, Fits(p), SameAim(p, q), p # NoRequest,
           q.pc # "idle"
    PROVE  Fits(q)
BY DEF Fits, SameAim

\* A request that goes on keeps its aim.
LEMMA Went ==
    ASSUME LibTypeInv, NEW r \in Librarians, NEW pc \in LibPlaces \ {"idle"},
           libReq[r] # NoRequest, Goes(r, pc)
    PROVE  \E q \in LibRequest :
              Becomes(r, q) /\ q.pc = pc /\ SameAim(libReq[r], q) /\ Fits(q) /\ q # NoRequest
<1> DEFINE p == libReq[r]
           q == [p EXCEPT !.pc = pc]
<1>1. p \in LibRequest /\ Fits(p)
  BY DEF LibTypeInv
<1> HIDE DEF p
<1>2. q \in LibRequest /\ q.pc = pc /\ SameAim(p, q)
  BY <1>1 DEF LibRequest, SameAim
<1>3. Becomes(r, q)
  BY DEF Goes, Becomes, p
<1> HIDE DEF q
<1>4. Fits(q)
  BY <1>1, <1>2, FitsSame DEF p
<1>5. q # NoRequest
  BY <1>2, NoneYet
<1> QED BY <1>2, <1>3, <1>4, <1>5 DEF p

\* The row after a flush: what the session changed, over what is there now.
LEMMA FlushedRow ==
    ASSUME NEW now \in LibRow, NEW read \in LibRow, NEW new \in LibRow
    PROVE  LET row == Flushed(now, read, new) IN
           /\ row \in LibRow /\ row # NoDoc
           /\ row.object = IF new.object = read.object THEN now.object ELSE new.object
           /\ row.status = IF new.status = read.status THEN now.status ELSE new.status
BY NoneYet DEF Flushed, LibRow

\* A new status keeps the object.
LEMMA ShownAs ==
    ASSUME NEW row \in LibRow, NEW s \in {"pending", "parsed", "vectorized"}
    PROVE  LET new == [row EXCEPT !.status = s] IN
           new \in LibRow /\ new.object = row.object /\ new.status = s
BY DEF LibRow

\* What a request that is under way looks like.
LEMMA UnderWay ==
    ASSUME LibTypeInv, NEW r \in Librarians
    PROVE  /\ libReq[r] \in LibRequest /\ Fits(libReq[r])
           /\ \A op \in LibOps, pc \in LibPlaces : LibAt(r, op, pc) =>
                 /\ libReq[r] # NoRequest /\ libReq[r].op = op /\ libReq[r].pc = pc
                 /\ libReq[r].no \in Docs
<1>1. libReq[r] \in LibRequest /\ Fits(libReq[r]) /\ libOps \in Nat /\ libOps <= MaxLibOps
  BY DEF LibTypeInv
<1>2. ASSUME NEW op \in LibOps, NEW pc \in LibPlaces, LibAt(r, op, pc)
      PROVE  libReq[r] # NoRequest /\ libReq[r].op = op /\ libReq[r].pc = pc
  BY <1>2, NoneYet DEF LibAt, LibOps
<1>3. ASSUME libReq[r] # NoRequest
      PROVE  libReq[r].no \in Docs
  BY <1>1, <1>3, LibraryBounds DEF Fits
<1> QED BY <1>1, <1>2, <1>3

\* One request changes, for one that fits.
LEMMA RequestsTyped ==
    ASSUME LibTypeInv, NEW r \in Librarians, NEW q \in LibRequest, Becomes(r, q),
           libOps' \in Nat, libOps <= libOps', Fits(q)'
    PROVE  libReq' \in [Librarians -> LibRequest] /\ \A s \in Librarians : Fits(libReq[s])'
<1>1. libReq \in [Librarians -> LibRequest] /\ libOps \in Nat
  BY DEF LibTypeInv
<1>2. libReq' \in [Librarians -> LibRequest] /\ libReq'[r] = q
      /\ \A s \in Librarians \ {r} : libReq'[s] = libReq[s]
  BY <1>1 DEF Becomes
<1>3. ASSUME NEW s \in Librarians \ {r}
      PROVE  Fits(libReq[s])'
  <2>1. Fits(libReq[s]) /\ libReq'[s] = libReq[s] /\ libReq[s] \in LibRequest
    BY <1>1, <1>2 DEF LibTypeInv
  <2>2. libReq[s].no \in 1..libOps => libReq[s].no \in 1..libOps'
    BY <1>1
  <2> QED BY <2>1, <2>2 DEF Fits
<1> QED BY <1>2, <1>3

\* A request that is none fits.
LEMMA NobodyFits ==
    ASSUME LibTypeInv
    PROVE  Fits(NoRequest)' /\ Fits(NoRequest) /\ NoRequest \in LibRequest
BY NoneYet DEF Fits, LibOps

\* What the types of the stores ask for.
StoresTyped ==
    /\ docRows \in [Docs -> LibRow \cup {NoDoc}] /\ archive \in [Docs -> Seq(LibVersion)]
    /\ docChunks \in [Docs -> LibText \cup {NoText}] /\ docVectors \in [Docs -> SUBSET Said]
    /\ objects \subseteq Docs /\ stored \subseteq Docs
    /\ edges \in [FactSet -> Nat] /\ kgJobs \in [Docs -> LibJob]
    /\ wordIndex \in [texts : SUBSET Said, dirty : BOOLEAN] /\ savedIndex \subseteq Said

\* The types hold on when a request leaves.
LEMMA LeavesTyped ==
    ASSUME LibTypeInv, NEW r \in Librarians, Leaves(r), StoresTyped',
           UNCHANGED <<libOps, libAlone>>, libFaults' \in Nat
    PROVE  LibTypeInv'
<1>1. Becomes(r, NoRequest)
  BY DEF Becomes, Leaves
<1>2. libOps' \in Nat /\ libOps <= libOps' /\ libAlone' \in BOOLEAN /\ libOps' <= MaxLibOps
  BY DEF LibTypeInv
<1> QED BY <1>1, <1>2, NobodyFits, RequestsTyped DEF LibTypeInv, StoresTyped

\* The types hold on when a request goes on.
LEMMA GoesTyped ==
    ASSUME LibTypeInv, NEW r \in Librarians, NEW pc \in LibPlaces \ {"idle"},
           libReq[r] # NoRequest, Goes(r, pc), StoresTyped',
           UNCHANGED <<libOps, libAlone>>, libFaults' \in Nat
    PROVE  LibTypeInv'
<1>1. PICK q \in LibRequest : Becomes(r, q) /\ Fits(q)
  BY Went
<1>2. libOps' \in Nat /\ libOps <= libOps' /\ libAlone' \in BOOLEAN /\ libOps' <= MaxLibOps
      /\ libOps' = libOps
  BY DEF LibTypeInv
<1>3. Fits(q)'
  BY <1>1, <1>2 DEF Fits
<1> QED BY <1>1, <1>2, <1>3, RequestsTyped DEF LibTypeInv, StoresTyped

\* The types hold on when a request begins.
LEMMA BegunTyped ==
    ASSUME LibTypeInv, NEW r \in Librarians, NEW q, Begun(r, q)
    PROVE  LibTypeInv' /\ Fits(q)' /\ q \in LibRequest /\ Becomes(r, q)
<1>1. q \in LibRequest /\ Becomes(r, q)
  BY DEF Begun, Becomes
<1>2. libOps' \in Nat /\ libOps <= libOps' /\ libAlone' \in BOOLEAN /\ libOps' <= MaxLibOps
      /\ libFaults' \in Nat /\ libOps' = libOps + 1
  BY LibraryBounds DEF LibTypeInv, Begun
<1>3. Fits(q)'
  <2>1. q.no \in 1..libOps' /\ q.op \in LibOps /\ q.pc = "begun"
    BY <1>2 DEF Begun, LibTypeInv
  <2>2. \A d \in Living : d \in Docs /\ docRows[d] \in LibRow
    BY LivingRow
  <2>3. q.doc # 0 /\ q.op # "edit" =>
           q.doc \in Living /\ (q.op # "search" => q.row = docRows[q.doc])
    BY <2>1 DEF Begun, Current, LibOps
  <2>4. q.op \in {"parse", "vectorize", "rollback", "delete", "edit"} => q.doc \in Living
    BY DEF Begun
  <2>5. q.op \in {"parse", "vectorize", "rollback", "delete"} => q.row = docRows[q.doc]
    BY DEF Begun, Current
  <2>6. q.op \in {"vectorize", "edit"} => q.text \in LibText
    BY DEF Begun
  <2>7. q.op = "rollback" => q.object \in Docs
    BY DEF Begun
  <2>8. q.op = "search" => q.doc = 0
    BY DEF Begun
  <2>9. q.op = "search" => q.seen \subseteq Said
    BY CorpusSays DEF Begun, Current
  <2> QED BY <2>1, <2>2, <2>3, <2>4, <2>5, <2>6, <2>7, <2>8, <2>9 DEF Fits
<1>4. StoresTyped'
  BY DEF LibTypeInv, StoresTyped, Begun
<1> QED BY <1>1, <1>2, <1>3, <1>4, RequestsTyped DEF LibTypeInv, StoresTyped

\* An empty library has the types.
LEMMA LibTypesInit == LibraryInit => LibTypeInv
<1> SUFFICES ASSUME LibraryInit PROVE LibTypeInv
  OBVIOUS
<1>1. StoresTyped
  <2>1. <<>> \in Seq(LibVersion)
    OBVIOUS
  <2> QED BY <2>1, NoneYet DEF LibraryInit, StoresTyped, LibJob
<1>2. \A r \in Librarians : libReq[r] = NoRequest
  BY DEF LibraryInit
<1>3. Fits(NoRequest)
  BY NoneYet DEF Fits, LibOps
<1> QED BY <1>1, <1>2, <1>3, NoneYet, LibraryBounds DEF LibTypeInv, StoresTyped, LibraryInit

\* The steps of a request after its beginning.
Work(r) ==
    \/ PutObject(r) \/ CreateDocument(r) \/ ReplaceDocument(r) \/ RefuseUpload(r)
    \/ Parse(r) \/ ClearVectors(r) \/ InsertVectors(r) \/ CommitVectorized(r)
    \/ Edit(r) \/ Revectorize(r) \/ Rollback(r) \/ RollbackFails(r)
    \/ Strip(r) \/ Unlink(r) \/ DeleteRows(r) \/ EnsureBuilt(r) \/ RequestFails(r)

Extraction(d) ==
    AskExtraction(d) \/ Extract(d) \/ WriteTriples(d) \/ MergeEdges(d) \/ ExtractionFails(d)

\* A request that edits goes on, as an edit or as a vectorization.
LEMMA EditingTyped ==
    ASSUME LibTypeInv, NEW r \in Librarians, libReq[r] # NoRequest, libReq[r].no \in 1..libOps,
           NEW p \in LibRequest, Becomes(r, p), p.no = libReq[r].no, p.pc # "idle",
           p.doc \in Docs, p.text \in LibText,
           p.op = "edit" \/ (p.op = "vectorize" /\ p.row \in LibRow),
           StoresTyped', UNCHANGED <<libOps, libAlone>>, libFaults' \in Nat
    PROVE  LibTypeInv'
<1>1. libOps' = libOps /\ libOps \in Nat /\ libOps' <= MaxLibOps /\ libAlone' \in BOOLEAN
      /\ libOps <= libOps' /\ libOps' \in Nat
  BY DEF LibTypeInv
<1>2. Fits(p)'
  BY <1>1 DEF Fits, LibOps
<1>3. libReq' \in [Librarians -> LibRequest] /\ \A s \in Librarians : Fits(libReq[s])'
  BY <1>1, <1>2, RequestsTyped
<1> QED BY <1>1, <1>3 DEF LibTypeInv, StoresTyped

\* The word index stays, comes from the disk, or is made of the texts a search has read.
LEMMA IndexBuilt ==
    ASSUME NEW r \in Librarians, EnsureBuilt(r)
    PROVE  \/ /\ wordIndex.texts # {} /\ ~wordIndex.dirty
              /\ UNCHANGED <<wordIndex, savedIndex>>
           \/ /\ wordIndex.texts = {} /\ savedIndex # {} /\ savedIndex' = savedIndex
              /\ wordIndex' = [texts |-> savedIndex, dirty |-> FALSE]
           \/ /\ savedIndex' = libReq[r].seen
              /\ wordIndex' = [texts |-> libReq[r].seen, dirty |-> FALSE]
<1> DEFINE cold == wordIndex.texts = {}
           loads == cold /\ savedIndex # {} /\ CountOf(savedIndex) = CountOf(libReq[r].seen)
<1>1. IF ~cold /\ ~wordIndex.dirty THEN UNCHANGED Indexes
      ELSE /\ wordIndex' = [texts |-> IF loads THEN savedIndex ELSE libReq[r].seen,
                            dirty |-> FALSE]
           /\ savedIndex' = IF loads THEN savedIndex ELSE libReq[r].seen
  BY DEF EnsureBuilt
<1>2. loads => cold /\ savedIndex # {}
  OBVIOUS
<1> HIDE DEF loads
<1> QED BY <1>1, <1>2 DEF Indexes

\* Every step of a request keeps the types.
LEMMA WorkTyped ==
    ASSUME LibTypeInv, NEW r \in Librarians, Work(r)
    PROVE  LibTypeInv'
<1> DEFINE me == libReq[r]
           d == me.doc
<1>0. /\ StoresTyped /\ libFaults \in Nat /\ libOps \in Nat /\ me \in LibRequest /\ Fits(me)
      /\ docRows \in [Docs -> LibRow \cup {NoDoc}] /\ archive \in [Docs -> Seq(LibVersion)]
      /\ docChunks \in [Docs -> LibText \cup {NoText}] /\ docVectors \in [Docs -> SUBSET Said]
      /\ objects \subseteq Docs /\ stored \subseteq Docs
      /\ edges \in [FactSet -> Nat] /\ kgJobs \in [Docs -> LibJob]
      /\ wordIndex \in [texts : SUBSET Said, dirty : BOOLEAN] /\ savedIndex \subseteq Said
  BY UnderWay DEF LibTypeInv, StoresTyped
<1>1. LibFault => libFaults' \in Nat
  BY <1>0 DEF LibFault
<1>2. \A op \in LibOps, pc \in LibPlaces : LibAt(r, op, pc) =>
         me # NoRequest /\ me.op = op /\ me.pc = pc /\ me.no \in Docs
  BY UnderWay
<1>3. \A e \in Living : e \in Docs /\ docRows[e] \in LibRow /\ docRows[e].object \in Docs
  BY LivingRow
<1>4. /\ me.versions \in Seq(LibVersion) /\ me.no \in Nat /\ me.seen \subseteq Docs \cup Said
      /\ me.text \in LibText \cup {NoText} /\ me.row \in LibRow \cup {NoDoc}
  BY <1>0 DEF LibRequest
<1>5. IndexDirty => wordIndex' \in [texts : SUBSET Said, dirty : BOOLEAN]
  BY <1>0 DEF IndexDirty
<1>5a. me # NoRequest => me.no \in 1..libOps
  BY <1>0 DEF Fits
<1>6. PutObject(r) => LibTypeInv'
  <2> SUFFICES ASSUME PutObject(r) PROVE LibTypeInv'
    OBVIOUS
  <2>1. me # NoRequest /\ me.no \in Docs
    BY <1>2 DEF PutObject, LibOps, LibPlaces
  <2>2. StoresTyped' /\ Goes(r, "stored") /\ UNCHANGED <<libOps, libAlone>> /\ libFaults' \in Nat
    BY <1>0, <2>1 DEF PutObject, StoresTyped, Rows, Graph, Indexes, LibPast, LibCounts
  <2> QED BY <2>1, <2>2, GoesTyped DEF LibPlaces
<1>7. CreateDocument(r) => LibTypeInv'
  <2> SUFFICES ASSUME CreateDocument(r) PROVE LibTypeInv'
    OBVIOUS
  <2>1. me.no \in Docs
    BY <1>2 DEF CreateDocument, LibOps, LibPlaces
  <2>2. [object |-> me.no, status |-> "pending"] \in LibRow
    BY <2>1 DEF LibRow
  <2>3. StoresTyped' /\ Leaves(r) /\ UNCHANGED <<libOps, libAlone>> /\ libFaults' \in Nat
    BY <1>0, <2>1, <2>2
    DEF CreateDocument, StoresTyped, Graph, Indexes, LibCounts
  <2> QED BY <2>3, LeavesTyped
<1>8. ReplaceDocument(r) => LibTypeInv'
  <2> SUFFICES ASSUME ReplaceDocument(r) PROVE LibTypeInv'
    OBVIOUS
  <2>1. me.no \in Docs /\ me.op = "upload" /\ d \in Living
    BY <1>2 DEF ReplaceDocument, LibOps, LibPlaces
  <2>2. [object |-> me.no, status |-> "pending"] \in LibRow
    BY <2>1 DEF LibRow
  <2>3. d \in Docs /\ docRows[d] \in LibRow /\ me.row \in LibRow /\ me.row.object \in Docs
    <3>1. d \in Docs /\ d # 0
      BY <1>3, <2>1, LibraryBounds
    <3> QED BY <1>0, <1>3, <2>1, <3>1 DEF Fits, LibRow
  <2>4. Flushed(docRows[d], me.row, [object |-> me.no, status |-> "pending"]) \in LibRow
    BY <2>2, <2>3, FlushedRow
  <2>5. WithVersion(archive[d], me.row.object, me.versions) \in Seq(LibVersion)
    BY <1>0, <1>4, <2>3, VersionAdded
  <2>6. StoresTyped' /\ Leaves(r) /\ UNCHANGED <<libOps, libAlone>> /\ libFaults' \in Nat
    BY <1>0, <2>1, <2>3, <2>4, <2>5
    DEF ReplaceDocument, StoresTyped, Graph, Indexes, LibCounts
  <2> QED BY <2>6, LeavesTyped
<1>9. RefuseUpload(r) => LibTypeInv'
  <2> SUFFICES ASSUME RefuseUpload(r) PROVE LibTypeInv'
    OBVIOUS
  <2>1. StoresTyped' /\ Leaves(r) /\ UNCHANGED <<libOps, libAlone>> /\ libFaults' \in Nat
    BY <1>0 DEF RefuseUpload, StoresTyped, Rows, Graph, Indexes, LibPast, LibCounts
  <2> QED BY <2>1, LeavesTyped
<1>10. Parse(r) => LibTypeInv'
  <2> SUFFICES ASSUME Parse(r) PROVE LibTypeInv'
    OBVIOUS
  <2>1. me.no \in Docs /\ me.op = "parse"
    BY <1>2 DEF Parse, LibOps, LibPlaces
  <2>2. d \in Docs /\ me.row \in LibRow /\ me.row.object \in Docs
    BY <1>0, <2>1 DEF Fits, LibRow
  <2>3. [of |-> me.row.object, edit |-> 0, parse |-> me.no] \in LibText
    BY <2>1, <2>2, LibraryBounds DEF LibText
  <2>4. d \in Living =>
           Flushed(docRows[d], me.row, [me.row EXCEPT !.status = "parsed"]) \in LibRow
    BY <1>3, <2>2, ShownAs, FlushedRow
  <2>5. StoresTyped' /\ Leaves(r) /\ UNCHANGED <<libOps, libAlone>> /\ libFaults' \in Nat
    <3>1. CASE d \in Living
      <4>1. docRows' \in [Docs -> LibRow \cup {NoDoc}]
        BY <1>0, <2>2, <2>4, <3>1 DEF Parse
      <4>2. docChunks' \in [Docs -> LibText \cup {NoText}]
        BY <1>0, <2>2, <2>3, <3>1 DEF Parse
      <4> QED BY <1>0, <3>1, <4>1, <4>2 DEF Parse, StoresTyped, Graph, Indexes, LibPast, LibCounts
    <3>2. CASE d \notin Living
      BY <1>0, <3>2 DEF Parse, StoresTyped, Rows, Graph, Indexes, LibPast, LibCounts
    <3> QED BY <3>1, <3>2
  <2> QED BY <2>5, LeavesTyped
<1>11. ClearVectors(r) => LibTypeInv'
  <2> SUFFICES ASSUME ClearVectors(r) PROVE LibTypeInv'
    OBVIOUS
  <2>1. me # NoRequest
    BY <1>2 DEF ClearVectors, LibOps, LibPlaces
  <2>2. StoresTyped' /\ Goes(r, "cleared") /\ UNCHANGED <<libOps, libAlone>> /\ libFaults' \in Nat
    BY <1>0 DEF ClearVectors, StoresTyped, Rows, Graph, Indexes, LibPast, LibCounts
  <2> QED BY <2>1, <2>2, GoesTyped DEF LibPlaces
<1>12. InsertVectors(r) => LibTypeInv'
  <2> SUFFICES ASSUME InsertVectors(r) PROVE LibTypeInv'
    OBVIOUS
  <2>1. me # NoRequest /\ me.op = "vectorize"
    BY <1>2 DEF InsertVectors, LibOps, LibPlaces
  <2>2. Says(me.text) \in Said
    BY <1>0, <2>1 DEF Fits, LibText, Says, Said
  <2>3. StoresTyped' /\ Goes(r, "inserted") /\ UNCHANGED <<libOps, libAlone>> /\ libFaults' \in Nat
    BY <1>0, <2>2 DEF InsertVectors, StoresTyped, Rows, Graph, Indexes, LibPast, LibCounts
  <2> QED BY <2>1, <2>3, GoesTyped DEF LibPlaces
<1>13. CommitVectorized(r) => LibTypeInv'
  <2> SUFFICES ASSUME CommitVectorized(r) PROVE LibTypeInv'
    OBVIOUS
  <2>1. me.op = "vectorize"
    BY <1>2 DEF CommitVectorized, LibOps, LibPlaces
  <2>2. d \in Docs /\ me.row \in LibRow
    BY <1>0, <2>1 DEF Fits
  <2>3. d \in Living =>
           Flushed(docRows[d], me.row, [me.row EXCEPT !.status = "vectorized"]) \in LibRow
    BY <1>3, <2>2, ShownAs, FlushedRow
  <2>4. docRows' \in [Docs -> LibRow \cup {NoDoc}]
    BY <1>0, <2>2, <2>3 DEF CommitVectorized
  <2>5. kgJobs' \in [Docs -> LibJob]
    <3>0. kgJobs[d] \in LibJob
      BY <1>0, <2>2
    <3>1. [kgJobs[d] EXCEPT !.pc = "asked"] \in LibJob
      BY <3>0, SMTT(30) DEF LibJob
    <3>2. kgJobs' = kgJobs \/ kgJobs' = [kgJobs EXCEPT ![d] = [kgJobs[d] EXCEPT !.pc = "asked"]]
      BY DEF CommitVectorized
    <3> QED BY <1>0, <3>1, <3>2
  <2>6. wordIndex' \in [texts : SUBSET Said, dirty : BOOLEAN]
    BY <1>0, <1>5 DEF CommitVectorized
  <2>7. StoresTyped' /\ Leaves(r) /\ UNCHANGED <<libOps, libAlone>> /\ libFaults' \in Nat
    BY <1>0, <2>4, <2>5, <2>6 DEF CommitVectorized, StoresTyped, LibPast, LibCounts
  <2> QED BY <2>7, LeavesTyped
<1>14. Edit(r) => LibTypeInv'
  <2> SUFFICES ASSUME Edit(r) PROVE LibTypeInv'
    OBVIOUS
  <2> DEFINE new == [me.text EXCEPT !.edit = me.no]
             q == [me EXCEPT !.text = new, !.pc = "edited"]
  <2>1. me # NoRequest /\ me.op = "edit" /\ me.no \in Docs
    BY <1>2 DEF Edit, LibOps, LibPlaces
  <2>2. d \in Docs /\ me.text \in LibText
    BY <1>0, <2>1 DEF Fits
  <2>3. new \in LibText
    BY <1>4, <2>2 DEF LibText
  <2> HIDE DEF new
  <2>4. StoresTyped' /\ UNCHANGED <<libOps, libAlone>> /\ libFaults' \in Nat
    <3>1. docChunks' = [docChunks EXCEPT ![d] = new] \/ docChunks' = docChunks
      BY DEF Edit, new
    <3>2. docChunks' \in [Docs -> LibText \cup {NoText}]
      BY <1>0, <2>2, <2>3, <3>1
    <3> QED BY <1>0, <3>2 DEF Edit, StoresTyped, Graph, Indexes, LibPast, LibCounts
  <2>5. CASE docChunks[d].parse = me.text.parse
    <3>1. PICK p \in LibRequest : /\ Becomes(r, p) /\ p.op = "edit" /\ p.pc = "edited"
                                   /\ p.no = me.no /\ p.doc = d /\ p.text \in LibText
      <4>1. Becomes(r, q)
        BY <1>0, <2>5 DEF Edit, Becomes, new
      <4>2. q \in LibRequest /\ q.op = "edit" /\ q.pc = "edited" /\ q.no = me.no /\ q.doc = d
            /\ q.text = new
        BY <1>0, <2>1, <2>3 DEF LibRequest, LibPlaces
      <4> HIDE DEF q
      <4> QED BY <2>3, <4>1, <4>2
    <3> HIDE DEF q
    <3> QED BY <1>5a, <2>1, <2>2, <2>4, <3>1, EditingTyped
  <2>6. CASE docChunks[d].parse # me.text.parse
    <3>1. Leaves(r)
      BY <2>6 DEF Edit
    <3> QED BY <2>4, <3>1, LeavesTyped
  <2> QED BY <2>5, <2>6
<1>15. Revectorize(r) => LibTypeInv'
  <2> SUFFICES ASSUME Revectorize(r) PROVE LibTypeInv'
    OBVIOUS
  <2>1. me # NoRequest /\ me.op = "edit" /\ me.no \in Docs
    BY <1>2 DEF Revectorize, LibOps, LibPlaces
  <2>2. d \in Docs /\ me.text \in LibText
    BY <1>0, <2>1 DEF Fits
  <2>3. StoresTyped' /\ UNCHANGED <<libOps, libAlone>> /\ libFaults' \in Nat
    BY <1>0 DEF Revectorize, StoresTyped, Rows, Graph, Indexes, LibPast, LibCounts
  <2>4. CASE d \notin Living \/ docChunks[d] = NoText
    <3>1. Leaves(r)
      BY <2>4 DEF Revectorize
    <3> QED BY <2>3, <3>1, LeavesTyped
  <2>5. CASE d \in Living /\ docChunks[d] # NoText
    <3> DEFINE text == IF docChunks[d].parse = me.text.parse THEN me.text ELSE docChunks[d]
               q == [me EXCEPT !.op = "vectorize", !.pc = "begun", !.row = docRows[d],
                               !.text = IF docChunks[d].parse = @.parse THEN @ ELSE docChunks[d]]
    <3>2. docRows[d] \in LibRow /\ docChunks[d] \in LibText
      BY <1>3, <2>2, <2>5, SaysWhat
    <3>3. text \in LibText
      BY <2>2, <3>2
    <3>4. PICK p \in LibRequest : /\ Becomes(r, p) /\ p.op = "vectorize" /\ p.pc = "begun"
                                   /\ p.no = me.no /\ p.doc = d /\ p.row \in LibRow
                                   /\ p.text \in LibText
      <4>0. Becomes(r, q)
        BY <2>5 DEF Revectorize, Becomes
      <4>1. q = [me EXCEPT !.op = "vectorize", !.pc = "begun", !.row = docRows[d], !.text = text]
        BY <1>0 DEF LibRequest
      <4> HIDE DEF text, q
      <4>2. "vectorize" \in LibOps /\ "begun" \in LibPlaces
        BY DEF LibOps, LibPlaces
      <4>3. /\ q \in LibRequest /\ q.op = "vectorize" /\ q.pc = "begun" /\ q.no = me.no
            /\ q.doc = d /\ q.row = docRows[d] /\ q.text = text
        BY <1>0, <3>2, <3>3, <4>1, <4>2 DEF LibRequest
      <4> QED BY <3>2, <3>3, <4>0, <4>3
    <3> HIDE DEF q, text
    <3> QED BY <1>5a, <2>1, <2>2, <2>3, <3>4, EditingTyped
  <2> QED BY <2>4, <2>5
<1>16. Rollback(r) => LibTypeInv'
  <2> SUFFICES ASSUME Rollback(r) PROVE LibTypeInv'
    OBVIOUS
  <2>1. me.op = "rollback"
    BY <1>2 DEF Rollback, LibOps, LibPlaces
  <2>2. d \in Docs /\ me.row \in LibRow /\ me.object \in Docs /\ me.row.object \in Docs
    BY <1>0, <2>1 DEF Fits, LibRow
  <2>3. [object |-> me.object, status |-> "pending"] \in LibRow
    BY <2>2 DEF LibRow
  <2>4. d \in Living =>
           Flushed(docRows[d], me.row, [object |-> me.object, status |-> "pending"]) \in LibRow
    BY <1>3, <2>2, <2>3, FlushedRow
  <2>5. WithVersion(archive[d], me.row.object, me.versions) \in Seq(LibVersion)
    BY <1>0, <1>4, <2>2, VersionAdded
  <2>6. libFaults' \in Nat /\ docVectors' \in [Docs -> SUBSET Said]
    BY <1>0, <1>1 DEF Rollback
  <2>7. /\ docRows' \in [Docs -> LibRow \cup {NoDoc}] /\ archive' \in [Docs -> Seq(LibVersion)]
        /\ docChunks' \in [Docs -> LibText \cup {NoText}]
    <3> DEFINE w == WithVersion(archive[d], me.row.object, me.versions)
               f == Flushed(docRows[d], me.row, [object |-> me.object, status |-> "pending"])
    <3>1. \/ UNCHANGED Rows
          \/ /\ d \in Living
             /\ docRows' = [docRows EXCEPT ![d] = f] /\ archive' = [archive EXCEPT ![d] = w]
             /\ docChunks' = [docChunks EXCEPT ![d] = NoText]
      BY DEF Rollback
    <3>2. w \in Seq(LibVersion) /\ (d \in Living => f \in LibRow)
      BY <2>4, <2>5
    <3> HIDE DEF w, f
    <3>3. /\ docRows \in [Docs -> LibRow \cup {NoDoc}] /\ archive \in [Docs -> Seq(LibVersion)]
          /\ docChunks \in [Docs -> LibText \cup {NoText}] /\ d \in Docs
      BY <1>0, <2>2
    <3>4. CASE UNCHANGED Rows
      BY <3>3, <3>4 DEF Rows
    <3>5. CASE ~UNCHANGED Rows
      BY <3>1, <3>2, <3>3, <3>5
    <3> QED BY <3>4, <3>5
  <2>8. StoresTyped' /\ Leaves(r) /\ UNCHANGED <<libOps, libAlone>>
    BY <1>0, <2>6, <2>7 DEF Rollback, StoresTyped, Graph, Indexes, LibPast
  <2> QED BY <2>6, <2>8, LeavesTyped
<1>17. RollbackFails(r) => LibTypeInv'
  <2> SUFFICES ASSUME RollbackFails(r) PROVE LibTypeInv'
    OBVIOUS
  <2>1. StoresTyped' /\ Leaves(r) /\ UNCHANGED <<libOps, libAlone>> /\ libFaults' \in Nat
    BY <1>0, <1>1 DEF RollbackFails, StoresTyped, Rows, Graph, Indexes, LibPast
  <2> QED BY <2>1, LeavesTyped
<1>18. Strip(r) => LibTypeInv'
  <2> SUFFICES ASSUME Strip(r) PROVE LibTypeInv'
    OBVIOUS
  <2>1. me # NoRequest
    BY <1>2 DEF Strip, LibOps, LibPlaces
  <2>2. libFaults' \in Nat /\ docVectors' \in [Docs -> SUBSET Said] /\ objects' \subseteq Docs
    BY <1>0, <1>1 DEF Strip
  <2>3. StoresTyped' /\ Goes(r, "stripped") /\ UNCHANGED <<libOps, libAlone>>
    BY <1>0, <2>2 DEF Strip, StoresTyped, Rows, Graph, Indexes, LibPast
  <2> QED BY <2>1, <2>2, <2>3, GoesTyped DEF LibPlaces
<1>19. Unlink(r) => LibTypeInv'
  <2> SUFFICES ASSUME Unlink(r) PROVE LibTypeInv'
    OBVIOUS
  <2>1. me # NoRequest
    BY <1>2 DEF Unlink, LibOps, LibPlaces
  <2>2. libFaults' \in Nat /\ edges' \in [FactSet -> Nat]
    BY <1>0, <1>1 DEF Unlink
  <2>3. StoresTyped' /\ Goes(r, "unlinked") /\ UNCHANGED <<libOps, libAlone>>
    BY <1>0, <2>2 DEF Unlink, StoresTyped, Rows, Indexes, LibPast
  <2> QED BY <2>1, <2>2, <2>3, GoesTyped DEF LibPlaces
<1>20. DeleteRows(r) => LibTypeInv'
  <2> SUFFICES ASSUME DeleteRows(r) PROVE LibTypeInv'
    OBVIOUS
  <2>1. wordIndex' \in [texts : SUBSET Said, dirty : BOOLEAN]
    BY <1>0, <1>5 DEF DeleteRows
  <2>2. /\ docRows' \in [Docs -> LibRow \cup {NoDoc}] /\ stored' \subseteq Docs
        /\ docChunks' \in [Docs -> LibText \cup {NoText}]
    BY <1>0 DEF DeleteRows
  <2>3. StoresTyped' /\ Leaves(r) /\ UNCHANGED <<libOps, libAlone>> /\ libFaults' \in Nat
    BY <1>0, <2>1, <2>2 DEF DeleteRows, StoresTyped, LibCounts
  <2> QED BY <2>3, LeavesTyped
<1>21. EnsureBuilt(r) => LibTypeInv'
  <2> SUFFICES ASSUME EnsureBuilt(r) PROVE LibTypeInv'
    OBVIOUS
  <2>1. me.seen \subseteq Said
    <3>1. me.op = "search"
      BY <1>2 DEF EnsureBuilt, LibOps, LibPlaces
    <3> QED BY <1>0, <3>1 DEF Fits
  <2>2. wordIndex' \in [texts : SUBSET Said, dirty : BOOLEAN] /\ savedIndex' \subseteq Said
    <3>1. \A texts \in SUBSET Said :
             [texts |-> texts, dirty |-> FALSE] \in [texts : SUBSET Said, dirty : BOOLEAN]
      OBVIOUS
    <3>2. \/ UNCHANGED <<wordIndex, savedIndex>>
          \/ savedIndex' = savedIndex /\ wordIndex' = [texts |-> savedIndex, dirty |-> FALSE]
          \/ savedIndex' = me.seen /\ wordIndex' = [texts |-> me.seen, dirty |-> FALSE]
      BY IndexBuilt
    <3> QED BY <1>0, <2>1, <3>1, <3>2
  <2>3. StoresTyped' /\ Leaves(r) /\ UNCHANGED <<libOps, libAlone>> /\ libFaults' \in Nat
    BY <1>0, <2>2 DEF EnsureBuilt, StoresTyped, Rows, Graph, LibPast, LibCounts
  <2> QED BY <2>3, LeavesTyped
<1>22. RequestFails(r) => LibTypeInv'
  <2> SUFFICES ASSUME RequestFails(r) PROVE LibTypeInv'
    OBVIOUS
  <2>1. StoresTyped' /\ Leaves(r) /\ UNCHANGED <<libOps, libAlone>> /\ libFaults' \in Nat
    BY <1>0, <1>1 DEF RequestFails, StoresTyped, Rows, Graph, Indexes
  <2> QED BY <2>1, LeavesTyped
<1> QED
  BY <1>6, <1>7, <1>8, <1>9, <1>10, <1>11, <1>12, <1>13, <1>14, <1>15, <1>16, <1>17, <1>18,
     <1>19, <1>20, <1>21, <1>22
  DEF Work

\* Every step of an extraction keeps them.
LEMMA ExtractionTyped ==
    ASSUME LibTypeInv, NEW d \in Docs, Extraction(d)
    PROVE  LibTypeInv' /\ UNCHANGED <<libReq, libOps, libAlone>>
<1>1. kgJobs \in [Docs -> LibJob] /\ edges \in [FactSet -> Nat] /\ libFaults \in Nat /\ d \in Nat
  BY LibraryBounds DEF LibTypeInv
<1>2. kgJobs' \in [Docs -> LibJob]
  <2>1. \E j \in LibJob : kgJobs' = [kgJobs EXCEPT ![d] = j]
    <3>1. \A pc \in {"asked", "written"} : [kgJobs[d] EXCEPT !.pc = pc] \in LibJob
      BY <1>1 DEF LibJob
    <3>2. /\ NoJob \in LibJob
          /\ \A found \in SUBSET FactSet : [pc |-> "found", found |-> found] \in LibJob
      BY NoneYet DEF LibJob
    <3>3. CASE AskExtraction(d)
      BY <3>1, <3>3 DEF AskExtraction
    <3>4. CASE Extract(d)
      BY <3>2, <3>4 DEF Extract
    <3>5. CASE WriteTriples(d)
      BY <3>1, <3>5 DEF WriteTriples
    <3>6. CASE MergeEdges(d) \/ ExtractionFails(d)
      BY <3>2, <3>6 DEF MergeEdges, ExtractionFails
    <3> QED BY <3>3, <3>4, <3>5, <3>6 DEF Extraction
  <2> QED BY <1>1, <2>1
<1>3. edges' \in [FactSet -> Nat] /\ libFaults' \in Nat
  BY <1>1
  DEF Extraction, AskExtraction, Extract, WriteTriples, MergeEdges, ExtractionFails, LibCounts,
      LibFault
<1>4. UNCHANGED <<objects, docRows, archive, docChunks, docVectors, wordIndex, savedIndex, libReq,
                  stored, libOps, libAlone>>
  BY DEF Extraction, AskExtraction, Extract, WriteTriples, MergeEdges, ExtractionFails, LibCounts,
         Rows, Indexes, LibPast
<1> QED BY <1>2, <1>3, <1>4 DEF LibTypeInv, Fits

\* A restart keeps them.
LEMMA RestartTyped ==
    ASSUME LibTypeInv, LibraryRestart
    PROVE  LibTypeInv'
<1>1. \A r \in Librarians : libReq'[r] = NoRequest
  BY DEF LibraryRestart
<1>2. libReq' \in [Librarians -> LibRequest] /\ kgJobs' \in [Docs -> LibJob]
  BY NoneYet DEF LibraryRestart
<1>3. libFaults' \in Nat
  BY DEF LibraryRestart, LibFault, LibTypeInv
<1>4. wordIndex' \in [texts : SUBSET Said, dirty : BOOLEAN]
  BY DEF LibraryRestart
<1> QED BY <1>1, <1>2, <1>3, <1>4, NobodyFits DEF LibTypeInv, LibraryRestart, Rows

\* A step is the beginning of a request, its work, the work of an extraction or a restart.
LEMMA LibSteps ==
    ASSUME LibTypeInv, LibraryNext
    PROVE  \/ \E r \in Librarians, q \in LibRequest : Begun(r, q)
           \/ \E r \in Librarians : Work(r)
           \/ \E d \in Docs : Extraction(d)
           \/ LibraryRestart
<1>1. \A r \in Librarians : Beginnings(r) => \E q \in LibRequest : Begun(r, q)
  BY Beginning DEF Begun
<1> QED BY <1>1 DEF LibraryNext, Beginnings, Work, Extraction

\* The types are inductive.
LEMMA LibTypeStep ==
    ASSUME LibTypeInv, [LibraryNext]_libVars
    PROVE  LibTypeInv'
<1>1. CASE UNCHANGED libVars
  BY <1>1 DEF libVars, LibTypeInv, Fits
<1>2. CASE LibraryNext
  BY <1>2, LibSteps, BegunTyped, WorkTyped, ExtractionTyped, RestartTyped
<1> QED BY <1>1, <1>2

-----------------------------------------------------------------------------
(* What a request does to the rows and the versions.                       *)

\* A request goes on with its number, its document and what it has read of it.
LEMMA WorkGoesOn ==
    ASSUME LibTypeInv, NEW r \in Librarians, Work(r)
    PROVE  /\ libReq[r] # NoRequest /\ libReq[r].no \in Docs /\ libReq[r].op \in LibOps
           /\ UNCHANGED <<libOps, libAlone>>
           /\ \A s \in Librarians \ {r} : libReq'[s] = libReq[s]
           /\ \/ libReq'[r] = NoRequest
              \/ /\ libReq'[r].no = libReq[r].no /\ libReq'[r].doc = libReq[r].doc
                 /\ libReq'[r].object = libReq[r].object
                 /\ \/ libReq'[r].op = libReq[r].op /\ libReq'[r].row = libReq[r].row
                    \/ /\ libReq[r].op = "edit" /\ libReq'[r].op = "vectorize"
                       /\ libReq[r].doc \in Living /\ libReq'[r].row = docRows[libReq[r].doc]
<1> DEFINE me == libReq[r]
<1>0. libReq \in [Librarians -> LibRequest] /\ me \in LibRequest /\ Fits(me)
  BY DEF LibTypeInv
<1>1. \A op \in LibOps, pc \in LibPlaces : LibAt(r, op, pc) => me # NoRequest /\ me.op = op
  BY UnderWay
<1>2. me # NoRequest
  BY <1>1
  DEF Work, PutObject, CreateDocument, ReplaceDocument, RefuseUpload, Parse, ClearVectors,
      InsertVectors, CommitVectorized, Edit, Revectorize, Rollback, RollbackFails, Strip, Unlink,
      DeleteRows, EnsureBuilt, RequestFails, LibOps, LibPlaces
<1>3. me.no \in Docs /\ me.op \in LibOps
  BY <1>0, <1>2, LibraryBounds DEF Fits, LibTypeInv
<1>4. UNCHANGED <<libOps, libAlone>>
  BY DEF Work, PutObject, CreateDocument, ReplaceDocument, RefuseUpload, Parse, ClearVectors,
      InsertVectors, CommitVectorized, Edit, Revectorize, Rollback, RollbackFails, Strip, Unlink,
      DeleteRows, EnsureBuilt, RequestFails, LibCounts
<1>5. \/ Leaves(r) \/ Goes(r, "stored") \/ Goes(r, "cleared") \/ Goes(r, "inserted")
      \/ Goes(r, "stripped") \/ Goes(r, "unlinked")
      \/ Edit(r) /\ docChunks[me.doc].parse = me.text.parse
      \/ Revectorize(r) /\ me.doc \in Living /\ docChunks[me.doc] # NoText
  BY DEF Work, PutObject, CreateDocument, ReplaceDocument, RefuseUpload, Parse, ClearVectors,
      InsertVectors, CommitVectorized, Edit, Revectorize, Rollback, RollbackFails, Strip, Unlink,
      DeleteRows, EnsureBuilt, RequestFails
<1>6. CASE Leaves(r)
  BY <1>0, <1>2, <1>3, <1>4, <1>6 DEF Leaves
<1>7. CASE \E pc \in LibPlaces \ {"idle"} : Goes(r, pc)
  <2>1. PICK q \in LibRequest : Becomes(r, q) /\ SameAim(me, q)
    BY <1>2, <1>7, Went
  <2> QED BY <1>0, <1>2, <1>3, <1>4, <2>1 DEF Becomes, SameAim
<1>8. CASE Edit(r) /\ docChunks[me.doc].parse = me.text.parse
  <2>1. libReq' = [libReq EXCEPT ![r] =
                      [me EXCEPT !.text = [me.text EXCEPT !.edit = me.no], !.pc = "edited"]]
    BY <1>0, <1>8 DEF Edit
  <2> QED BY <1>0, <1>2, <1>3, <1>4, <2>1 DEF LibRequest
<1>9. CASE Revectorize(r) /\ me.doc \in Living /\ docChunks[me.doc] # NoText
  <2>1. libReq' = [libReq EXCEPT ![r] =
               [me EXCEPT !.op = "vectorize", !.pc = "begun", !.row = docRows[me.doc],
                          !.text = IF docChunks[me.doc].parse = @.parse THEN @
                                   ELSE docChunks[me.doc]]]
    BY <1>9 DEF Revectorize
  <2>2. me.op = "edit"
    BY <1>1, <1>9 DEF Revectorize, LibOps, LibPlaces
  <2> DEFINE q == [me EXCEPT !.op = "vectorize", !.pc = "begun", !.row = docRows[me.doc],
                          !.text = IF docChunks[me.doc].parse = @.parse THEN @
                                   ELSE docChunks[me.doc]]
  <2>3. q.op = "vectorize" /\ q.row = docRows[me.doc] /\ q.no = me.no /\ q.doc = me.doc
        /\ q.object = me.object
    BY <1>0 DEF LibRequest
  <2>4. libReq'[r] = q /\ \A s \in Librarians \ {r} : libReq'[s] = libReq[s]
    BY <1>0, <2>1
  <2> HIDE DEF q
  <2> QED BY <1>2, <1>3, <1>4, <1>9, <2>2, <2>3, <2>4
<1> QED BY <1>5, <1>6, <1>7, <1>8, <1>9 DEF LibPlaces

\* The row a document has after a step of a request.
LEMMA RowAfter ==
    ASSUME LibTypeInv, NEW r \in Librarians, Work(r), NEW e \in Docs
    PROVE  \/ docRows'[e] = docRows[e]
           \/ /\ CreateDocument(r) /\ e = libReq[r].no
              /\ docRows'[e] = [object |-> e, status |-> "pending"]
           \/ DeleteRows(r) /\ e = libReq[r].doc /\ docRows'[e] = NoDoc
           \/ /\ e \in Living /\ e = libReq[r].doc /\ docRows'[e] \in LibRow
              /\ \/ docRows'[e].object = docRows[e].object
                 \/ ReplaceDocument(r) /\ docRows'[e].object = libReq[r].no
                 \/ Rollback(r) /\ docRows'[e].object = libReq[r].object
<1> DEFINE me == libReq[r]
           d == me.doc
<1>0. /\ docRows \in [Docs -> LibRow \cup {NoDoc}] /\ Fits(me)
      /\ \A op \in LibOps, pc \in LibPlaces : LibAt(r, op, pc) =>
            me # NoRequest /\ me.op = op /\ me.no \in Docs
  BY UnderWay DEF LibTypeInv
<1>1. \A f \in Living : f \in Docs /\ docRows[f] \in LibRow
  BY LivingRow
<1>2. CASE CreateDocument(r)
  <2>1. docRows' = [docRows EXCEPT ![me.no] = [object |-> me.no, status |-> "pending"]]
    BY <1>2 DEF CreateDocument
  <2> QED BY <1>0, <1>2, <2>1
<1>3. CASE ReplaceDocument(r)
  <2>1. me.op = "upload" /\ me.no \in Docs /\ d \in Living
    BY <1>0, <1>3 DEF ReplaceDocument, LibOps, LibPlaces
  <2>2. d # 0
    BY <1>1, <2>1, LibraryBounds
  <2>3. d \in Docs /\ me.row \in LibRow /\ docRows[d] \in LibRow
    BY <1>0, <1>1, <2>1, <2>2 DEF Fits
  <2> DEFINE new == [object |-> me.no, status |-> "pending"]
             row == Flushed(docRows[d], me.row, new)
  <2>4. new \in LibRow /\ new.object = me.no
    BY <2>1 DEF LibRow
  <2>5. docRows' = [docRows EXCEPT ![d] = row]
    BY <1>3 DEF ReplaceDocument
  <2> HIDE DEF new
  <2>6. row \in LibRow /\ row.object \in {docRows[d].object, me.no}
    BY <2>3, <2>4, FlushedRow
  <2> HIDE DEF row
  <2> QED BY <1>0, <1>3, <2>1, <2>3, <2>5, <2>6
<1>4. CASE Parse(r) /\ d \in Living
  <2>1. me.row \in LibRow /\ d \in Docs /\ docRows[d] \in LibRow
    BY <1>0, <1>1, <1>4 DEF Fits, Parse, LibOps, LibPlaces
  <2> DEFINE new == [me.row EXCEPT !.status = "parsed"]
             row == Flushed(docRows[d], me.row, new)
  <2>2. new \in LibRow /\ new.object = me.row.object
    BY <2>1, ShownAs
  <2>3. docRows' = [docRows EXCEPT ![d] = row]
    BY <1>4 DEF Parse
  <2> HIDE DEF new
  <2>4. row \in LibRow /\ row.object = docRows[d].object
    BY <2>1, <2>2, FlushedRow
  <2> HIDE DEF row
  <2> QED BY <1>0, <1>4, <2>1, <2>3, <2>4
<1>5. CASE CommitVectorized(r) /\ d \in Living
  <2>1. me.row \in LibRow /\ d \in Docs /\ docRows[d] \in LibRow
    BY <1>0, <1>1, <1>5 DEF Fits, CommitVectorized, LibOps, LibPlaces
  <2> DEFINE new == [me.row EXCEPT !.status = "vectorized"]
             row == Flushed(docRows[d], me.row, new)
  <2>2. new \in LibRow /\ new.object = me.row.object
    BY <2>1, ShownAs
  <2>3. docRows' = [docRows EXCEPT ![d] = row]
    BY <1>5 DEF CommitVectorized
  <2> HIDE DEF new
  <2>4. row \in LibRow /\ row.object = docRows[d].object
    BY <2>1, <2>2, FlushedRow
  <2> HIDE DEF row
  <2> QED BY <1>0, <1>5, <2>1, <2>3, <2>4
<1>6. CASE Rollback(r) /\ d \in Living
  <2>1. me.row \in LibRow /\ d \in Docs /\ docRows[d] \in LibRow /\ me.object \in Docs
    BY <1>0, <1>1, <1>6 DEF Fits, Rollback, LibOps, LibPlaces
  <2> DEFINE new == [object |-> me.object, status |-> "pending"]
             row == Flushed(docRows[d], me.row, new)
  <2>2. new \in LibRow /\ new.object = me.object
    BY <2>1 DEF LibRow
  <2>3. docRows' = [docRows EXCEPT ![d] = row]
    BY <1>6 DEF Rollback
  <2> HIDE DEF new
  <2>4. row \in LibRow /\ row.object \in {docRows[d].object, me.object}
    BY <2>1, <2>2, FlushedRow
  <2> HIDE DEF row
  <2> QED BY <1>0, <1>6, <2>1, <2>3, <2>4
<1>7. CASE DeleteRows(r)
  <2>1. docRows' = docRows \/ docRows' = [docRows EXCEPT ![d] = NoDoc]
    BY <1>7 DEF DeleteRows
  <2> QED BY <1>0, <1>7, <2>1
<1>8. \/ docRows' = docRows \/ CreateDocument(r) \/ ReplaceDocument(r) \/ DeleteRows(r)
      \/ d \in Living /\ (Parse(r) \/ CommitVectorized(r) \/ Rollback(r))
  BY DEF Work, PutObject, RefuseUpload, Parse, ClearVectors,
      InsertVectors, CommitVectorized, Edit, Revectorize, Rollback, RollbackFails, Strip, Unlink,
      EnsureBuilt, RequestFails, Rows
<1> QED BY <1>2, <1>3, <1>4, <1>5, <1>6, <1>7, <1>8

\* A replacement and a rollback archive the object the request has read.
LEMMA ArchiveAfter ==
    ASSUME LibTypeInv, NEW r \in Librarians, Work(r), NEW e \in Docs
    PROVE  \/ archive'[e] = archive[e]
           \/ /\ ReplaceDocument(r) \/ Rollback(r)
              /\ e = libReq[r].doc /\ e \in Living /\ libReq[r].row \in LibRow
              /\ archive'[e] = WithVersion(archive[e], libReq[r].row.object, libReq[r].versions)
<1> DEFINE me == libReq[r]
           d == me.doc
<1>0. /\ archive \in [Docs -> Seq(LibVersion)] /\ Fits(me)
      /\ \A op \in LibOps, pc \in LibPlaces : LibAt(r, op, pc) =>
            me # NoRequest /\ me.op = op /\ me.no \in Docs
  BY UnderWay DEF LibTypeInv
<1>1. \A f \in Living : f \in Docs /\ docRows[f] \in LibRow
  BY LivingRow
<1>2. CASE ReplaceDocument(r)
  <2>1. me.op = "upload" /\ d \in Living
    BY <1>0, <1>2 DEF ReplaceDocument, LibOps, LibPlaces
  <2>2. d # 0 /\ d \in Docs
    BY <1>1, <2>1, LibraryBounds
  <2>3. me.row \in LibRow
    BY <1>0, <2>1, <2>2 DEF Fits
  <2>4. archive' = [archive EXCEPT ![d] = WithVersion(archive[d], me.row.object, me.versions)]
    BY <1>2 DEF ReplaceDocument
  <2> QED BY <1>0, <1>2, <2>1, <2>2, <2>3, <2>4
<1>3. CASE Rollback(r) /\ d \in Living
  <2>1. me.row \in LibRow /\ d \in Docs
    BY <1>0, <1>1, <1>3 DEF Fits, Rollback, LibOps, LibPlaces
  <2>2. archive' = [archive EXCEPT ![d] = WithVersion(archive[d], me.row.object, me.versions)]
    BY <1>3 DEF Rollback
  <2> QED BY <1>0, <1>3, <2>1, <2>2
<1>4. archive' = archive \/ ReplaceDocument(r) \/ (Rollback(r) /\ d \in Living)
  BY DEF Work, PutObject, CreateDocument, RefuseUpload, Parse, ClearVectors,
      InsertVectors, CommitVectorized, Edit, Revectorize, Rollback, RollbackFails, Strip, Unlink,
      DeleteRows, EnsureBuilt, RequestFails, Rows
<1> QED BY <1>2, <1>3, <1>4

\* The chunks a document has after a step of a request.
LEMMA ChunksAfter ==
    ASSUME LibTypeInv, NEW r \in Librarians, Work(r), NEW e \in Docs
    PROVE  \/ docChunks'[e] = docChunks[e]
           \/ /\ e = libReq[r].doc
              /\ \/ Parse(r) /\ e \in Living
                 \/ Edit(r) /\ docChunks[e] # NoText
                 \/ (Rollback(r) \/ DeleteRows(r)) /\ docChunks'[e] = NoText
<1> DEFINE me == libReq[r]
           d == me.doc
<1>0. /\ docChunks \in [Docs -> LibText \cup {NoText}] /\ Fits(me)
      /\ \A op \in LibOps, pc \in LibPlaces : LibAt(r, op, pc) => me.op = op
  BY UnderWay DEF LibTypeInv
<1>1. CASE Parse(r) /\ d \in Living
  BY <1>0, <1>1 DEF Parse
<1>2. CASE Edit(r) /\ docChunks[d].parse = me.text.parse
  <2>1. me.op = "edit"
    BY <1>0, <1>2 DEF Edit, LibOps, LibPlaces
  <2>2. d \in Docs /\ me.text \in LibText
    BY <1>0, <2>1 DEF Fits
  <2>3. docChunks[d] # NoText
    BY <1>2, <2>2 DEF LibText, NoText
  <2>4. docChunks' = [docChunks EXCEPT ![d] = [me.text EXCEPT !.edit = me.no]]
    BY <1>2 DEF Edit
  <2>5. e # d => docChunks'[e] = docChunks[e]
    BY <1>0, <2>4
  <2> QED BY <1>2, <2>3, <2>5
<1>3. CASE Rollback(r)
  <2>1. docChunks' = docChunks \/ docChunks' = [docChunks EXCEPT ![d] = NoText]
    BY <1>3 DEF Rollback, Rows
  <2> QED BY <1>0, <1>3, <2>1
<1>4. CASE DeleteRows(r)
  <2>1. docChunks' = docChunks \/ docChunks' = [docChunks EXCEPT ![d] = NoText]
    BY <1>4 DEF DeleteRows
  <2> QED BY <1>0, <1>4, <2>1
<1>5. \/ docChunks' = docChunks
      \/ Parse(r) /\ d \in Living
      \/ Edit(r) /\ docChunks[d].parse = me.text.parse
      \/ Rollback(r) \/ DeleteRows(r)
  <2>1. Parse(r) => docChunks' = docChunks \/ d \in Living
    BY DEF Parse, Rows
  <2>2. Edit(r) => docChunks' = docChunks \/ docChunks[d].parse = me.text.parse
    BY DEF Edit
  <2>3. \/ docChunks' = docChunks \/ Parse(r) \/ Edit(r) \/ Rollback(r) \/ DeleteRows(r)
    BY DEF Work, PutObject, CreateDocument, ReplaceDocument, RefuseUpload, ClearVectors,
        InsertVectors, CommitVectorized, Revectorize, RollbackFails, Strip, Unlink,
        EnsureBuilt, RequestFails, Rows
  <2> QED BY <2>1, <2>2, <2>3
<1> QED BY <1>1, <1>2, <1>3, <1>4, <1>5

\* A chunk has a document: the foreign key, whatever the interleaving.
LEMMA ChunksStep ==
    ASSUME LibTypeInv, ChunksHaveADocument, LibraryNext
    PROVE  ChunksHaveADocument'
<1>1. ASSUME NEW r \in Librarians, NEW q, Begun(r, q)
      PROVE  ChunksHaveADocument'
  BY <1>1 DEF Begun, ChunksHaveADocument, Living
<1>2. ASSUME NEW r \in Librarians, Work(r)
      PROVE  ChunksHaveADocument'
  <2> SUFFICES ASSUME NEW e \in Docs, docChunks'[e] # NoText PROVE docRows'[e] # NoDoc
    BY DEF ChunksHaveADocument, Living
  <2>1. docChunks[e] # NoText => docRows[e] # NoDoc
    BY DEF ChunksHaveADocument, Living
  <2>2. DeleteRows(r) =>
           docRows' = docRows \/ docChunks' = [docChunks EXCEPT ![libReq[r].doc] = NoText]
    BY DEF DeleteRows
  <2>3. DeleteRows(r) /\ e = libReq[r].doc => docRows'[e] = docRows[e]
    BY <2>2 DEF LibTypeInv
  <2>4. docRows[e] # NoDoc
    <3>1. e \in Living => docRows[e] # NoDoc
      BY DEF Living
    <3> QED BY <1>2, <2>1, <3>1, ChunksAfter
  <2>5. \A o : [object |-> o, status |-> "pending"] # NoDoc
    BY DEF NoDoc
  <2> QED BY <1>2, <2>3, <2>4, <2>5, RowAfter, NoneYet
<1>3. ASSUME NEW d \in Docs, Extraction(d)
      PROVE  ChunksHaveADocument'
  BY <1>3
  DEF Extraction, AskExtraction, Extract, WriteTriples, MergeEdges, ExtractionFails, Rows,
      ChunksHaveADocument, Living
<1>4. CASE LibraryRestart
  BY <1>4 DEF LibraryRestart, Rows, ChunksHaveADocument, Living
<1> QED BY <1>1, <1>2, <1>3, <1>4, LibSteps

-----------------------------------------------------------------------------
(* Whose an object is.                                                     *)

\* The names that rows, versions and requests give.
LEMMA NamedBy ==
    ASSUME LibTypeInv
    PROVE  /\ \A d \in Living : Names(docRows[d].object, d)
           /\ \A d \in Docs : \A i \in DOMAIN archive[d] : Names(archive[d][i].object, d)
           /\ \A d \in Docs : \A o \in Archived(d) : o \in Docs /\ Names(o, d)
           /\ \A r \in Librarians : Names(libReq[r].row.object, libReq[r].doc)
                                    /\ Names(libReq[r].object, libReq[r].doc)
<1>1. \A d \in Docs : archive[d] \in Seq(LibVersion)
  BY DEF LibTypeInv
<1>2. \A d \in Docs : \A o \in Archived(d) : o \in Docs /\ Names(o, d)
  <2> SUFFICES ASSUME NEW d \in Docs, NEW i \in DOMAIN archive[d]
               PROVE  archive[d][i].object \in Docs /\ Names(archive[d][i].object, d)
    BY DEF Archived
  <2>1. archive[d][i].object \in Docs
    BY <1>1, VersionFields
  <2> QED BY <2>1 DEF Names
<1> QED BY <1>2 DEF Names

\* A request that begins names nothing that was not named.
LEMMA NamesBegun ==
    ASSUME LibTypeInv, NEW r \in Librarians, NEW q, Begun(r, q), NEW o \in Docs, NEW d \in Docs,
           Names(o, d)'
    PROVE  Names(o, d)
<1>1. libReq \in [Librarians -> LibRequest] /\ UNCHANGED <<docRows, archive>>
  BY DEF LibTypeInv, Begun
<1>2. libReq'[r] = q /\ \A s \in Librarians \ {r} : libReq'[s] = libReq[s]
  BY <1>1 DEF Begun
<1>3. ASSUME q.doc = d, q.row.object = o \/ q.object = o
      PROVE  Names(o, d)
  <2>1. 0 \notin Docs /\ o # 0 /\ d # 0 /\ NoDoc.object = 0
    BY LibraryBounds, NoneYet
  <2>2. q.row.object = o => docRows[d].object = o
    BY <1>3, <2>1 DEF Begun
  <2>3. q.object = o => o \in Archived(d)
    BY <1>3, <2>1 DEF Begun
  <2> QED BY <1>3, <2>2, <2>3 DEF Names, Archived
<1> QED BY <1>1, <1>2, <1>3 DEF Names

\* A step names an object anew only when an upload writes its row.
LEMMA NamesWork ==
    ASSUME LibTypeInv, NEW r \in Librarians, Work(r), NEW o \in Docs, NEW d \in Docs,
           Names(o, d)'
    PROVE  \/ Names(o, d)
           \/ /\ o = libReq[r].no /\ libReq[r].op = "upload" /\ libReq'[r] = NoRequest
              /\ LibAt(r, "upload", "stored")
              /\ \/ CreateDocument(r) /\ d = libReq[r].no
                 \/ ReplaceDocument(r) /\ d = libReq[r].doc /\ d \in Living
<1> DEFINE me == libReq[r]
<1>0. 0 \notin Docs /\ o # 0 /\ NoDoc.object = 0
  BY LibraryBounds, NoneYet
<1>1. (CreateDocument(r) \/ ReplaceDocument(r)) =>
         LibAt(r, "upload", "stored") /\ me.op = "upload" /\ libReq'[r] = NoRequest
  BY DEF CreateDocument, ReplaceDocument, LibAt, Leaves, LibTypeInv
<1>2. CASE docRows'[d].object = o
  <2>1. CASE docRows'[d] = docRows[d]
    BY <1>2, <2>1 DEF Names
  <2>2. CASE CreateDocument(r) /\ d = me.no /\ docRows'[d] = [object |-> d, status |-> "pending"]
    BY <1>1, <1>2, <2>2
  <2>3. CASE docRows'[d] = NoDoc
    BY <1>0, <1>2, <2>3
  <2>4. CASE /\ d \in Living /\ d = me.doc
             /\ \/ docRows'[d].object = docRows[d].object
                \/ ReplaceDocument(r) /\ docRows'[d].object = me.no
                \/ Rollback(r) /\ docRows'[d].object = me.object
    BY <1>1, <1>2, <2>4 DEF Names
  <2> QED BY <2>1, <2>2, <2>3, <2>4, RowAfter
<1>3. CASE \E i \in DOMAIN archive'[d] : archive'[d][i].object = o
  <2>1. CASE archive'[d] = archive[d]
    BY <1>3, <2>1 DEF Names
  <2>2. CASE /\ d = me.doc /\ me.row \in LibRow
             /\ archive'[d] = WithVersion(archive[d], me.row.object, me.versions)
    <3>1. archive[d] \in Seq(LibVersion) /\ me.versions \in Seq(LibVersion)
          /\ me.row.object \in Docs
      BY <2>2 DEF LibTypeInv, LibRequest, LibRow
    <3>2. \A i \in DOMAIN archive'[d] :
             \/ archive'[d][i].object = me.row.object
             \/ i \in DOMAIN archive[d] /\ archive'[d][i] = archive[d][i]
      <4> DEFINE a == archive[d]  v == me.versions  old == me.row.object
                 w == WithVersion(a, old, v)  n == Len(a)
      <4>1. a \in Seq(LibVersion) /\ v \in Seq(LibVersion) /\ old \in Docs
        BY <3>1
      <4>2. archive'[d] = w
        BY <2>2
      <4> HIDE DEF a, v, old
      <4>3. /\ n \in Nat /\ DOMAIN a = 1..n /\ DOMAIN w = 1..(n + 1)
            /\ (\A i \in 1..n : w[i] = a[i]) /\ w[n + 1].object = old
        BY <4>1, VersionAdded
      <4> HIDE DEF w, n
      <4>4. \A i \in DOMAIN archive'[d] :
               archive'[d][i].object = old \/ (i \in DOMAIN a /\ archive'[d][i] = a[i])
        BY <4>2, <4>3
      <4> QED BY <4>4 DEF a, old
    <3> QED BY <1>3, <2>2, <3>2 DEF Names
  <2> QED BY <2>1, <2>2, ArchiveAfter
<1>4. CASE \E s \in Librarians :
               libReq'[s].doc = d /\ (libReq'[s].row.object = o \/ libReq'[s].object = o)
  <2>1. PICK s \in Librarians :
            libReq'[s].doc = d /\ (libReq'[s].row.object = o \/ libReq'[s].object = o)
    BY <1>4
  <2>2. libReq'[s] # NoRequest
    BY <1>0, <2>1, NoneYet
  <2>3. CASE s # r
    BY <2>1, <2>3, WorkGoesOn DEF Names
  <2>4. CASE s = r
    <3>1. /\ me.doc = d /\ libReq'[r].object = me.object
          /\ libReq'[r].row = me.row \/ libReq'[r].row = docRows[d]
      BY <2>1, <2>2, <2>4, WorkGoesOn
    <3> QED BY <2>1, <2>4, <3>1 DEF Names
  <2> QED BY <2>3, <2>4
<1> QED BY <1>2, <1>3, <1>4 DEF Names

\* The names are inductive, given the types.
LEMMA NamesStep ==
    ASSUME LibTypeInv, NamesInv, LibraryNext
    PROVE  NamesInv'
<1>0. /\ libOps \in Nat /\ 0 \notin Docs /\ Docs \subseteq Nat
      /\ libReq \in [Librarians -> LibRequest]
      /\ \A r \in Librarians : libReq[r] # NoRequest => libReq[r].no \in 1..libOps
  BY LibraryBounds DEF LibTypeInv, Fits
<1>1. /\ \A o, d \in Docs : Names(o, d) => o <= libOps /\ d <= libOps
      /\ \A o, d, e \in Docs : Names(o, d) /\ Names(o, e) => d = e
      /\ \A r \in Librarians, d \in Docs : libReq[r].op = "upload" =>
            ~Names(libReq[r].no, d) /\ ~Names(d, libReq[r].no)
      /\ \A r, s \in Librarians : libReq[r] # NoRequest /\ libReq[s] # NoRequest /\ r # s =>
            libReq[r].no # libReq[s].no
  BY DEF NamesInv
<1>2. \A r \in Librarians : libReq[r].op = "upload" => libReq[r] # NoRequest
  BY NoneYet
<1>3. ASSUME NEW r \in Librarians, NEW q, Begun(r, q)
      PROVE  NamesInv'
  <2>1. \A o, d \in Docs : Names(o, d)' => Names(o, d)
    BY <1>3, NamesBegun
  <2>2. libOps' = libOps + 1 /\ q.no = libOps + 1 /\ libReq[r] = NoRequest
        /\ libReq'[r] = q /\ \A s \in Librarians \ {r} : libReq'[s] = libReq[s]
    BY <1>0, <1>3 DEF Begun
  <2>3. \A o, d \in Docs : Names(o, d)' => o <= libOps' /\ d <= libOps'
    BY <1>0, <1>1, <2>1, <2>2
  <2>4. \A o, d, e \in Docs : Names(o, d)' /\ Names(o, e)' => d = e
    BY <1>1, <2>1
  <2>5. ASSUME NEW s \in Librarians, NEW d \in Docs, libReq'[s].op = "upload"
        PROVE  ~Names(libReq[s].no, d)' /\ ~Names(d, libReq[s].no)'
    <3>1. libReq'[s].no \in Docs
      <4>1. libOps + 1 \in Docs /\ libOps <= MaxLibOps
        BY <1>0, <1>3, LibraryBounds DEF LibTypeInv, Begun
      <4>2. s # r => libReq[s].no \in 1..libOps
        BY <1>0, <1>2, <2>2, <2>5
      <4> QED BY <1>0, <2>2, <4>1, <4>2, LibraryBounds
    <3>2. CASE s = r
      BY <1>0, <1>1, <2>1, <2>2, <3>1, <3>2
    <3>3. CASE s # r
      BY <1>1, <2>1, <2>2, <2>5, <3>1, <3>3
    <3> QED BY <3>2, <3>3
  <2>6. \A s, t \in Librarians : libReq'[s] # NoRequest /\ libReq'[t] # NoRequest /\ s # t =>
            libReq'[s].no # libReq'[t].no
    BY <1>0, <1>1, <2>2
  <2> QED BY <2>3, <2>4, <2>5, <2>6 DEF NamesInv
<1>4. ASSUME NEW r \in Librarians, Work(r)
      PROVE  NamesInv'
  <2> DEFINE no == libReq[r].no
             doc == libReq[r].doc
  <2>1. /\ libReq[r] # NoRequest /\ no \in Docs /\ libOps' = libOps
        /\ \A s \in Librarians \ {r} : libReq'[s] = libReq[s]
        /\ \/ libReq'[r] = NoRequest
           \/ /\ libReq'[r].no = no
              /\ libReq'[r].op = libReq[r].op \/ libReq'[r].op = "vectorize"
    BY <1>4, WorkGoesOn
  <2>2. \A s \in Librarians : libReq'[s] # NoRequest =>
            libReq[s] # NoRequest /\ libReq'[s].no = libReq[s].no
    BY <2>1
  <2>3. \A s \in Librarians : libReq'[s].op = "upload" =>
            libReq'[s] # NoRequest /\ libReq[s].op = "upload" /\ libReq'[s].no = libReq[s].no
    BY <2>1, NoneYet
  <2>4. \A s, t \in Librarians : libReq'[s] # NoRequest /\ libReq'[t] # NoRequest /\ s # t =>
            libReq'[s].no # libReq'[t].no
    BY <1>1, <2>2
  <2>5. CASE \A o, d \in Docs : Names(o, d)' => Names(o, d)
    <3>1. \A o, d \in Docs : Names(o, d)' => o <= libOps' /\ d <= libOps'
      BY <1>1, <2>1, <2>5
    <3>2. \A o, d, e \in Docs : Names(o, d)' /\ Names(o, e)' => d = e
      BY <1>1, <2>5
    <3>3. ASSUME NEW s \in Librarians, NEW d \in Docs, libReq'[s].op = "upload"
          PROVE  ~Names(libReq[s].no, d)' /\ ~Names(d, libReq[s].no)'
      <4>1. libReq[s].op = "upload" /\ libReq'[s].no = libReq[s].no /\ libReq[s].no \in Docs
        BY <1>0, <1>2, <2>3, <3>3, LibraryBounds DEF LibTypeInv
      <4> QED BY <1>1, <2>5, <4>1
    <3> QED BY <2>4, <3>1, <3>2, <3>3 DEF NamesInv
  <2>6. CASE \E d \in Docs : /\ libReq[r].op = "upload" /\ libReq'[r] = NoRequest
                             /\ d = no \/ (d = doc /\ d \in Living)
                             /\ \A o, e \in Docs :
                                   Names(o, e)' => Names(o, e) \/ (o = no /\ e = d)
    <3>1. PICK d0 \in Docs : /\ libReq[r].op = "upload" /\ libReq'[r] = NoRequest
                             /\ d0 = no \/ (d0 = doc /\ d0 \in Living)
                             /\ \A o, e \in Docs :
                                   Names(o, e)' => Names(o, e) \/ (o = no /\ e = d0)
      BY <2>6
    <3>2. no <= libOps
      BY <1>0, <2>1
    <3>3. \E o \in Docs : d0 = no \/ Names(o, d0)
      BY <3>1, NamedBy, LivingRow
    <3>4. d0 <= libOps
      BY <1>1, <3>2, <3>3
    <3>5. \A o, d \in Docs : Names(o, d)' => o <= libOps' /\ d <= libOps'
      BY <1>1, <2>1, <3>1, <3>2, <3>4
    <3>6. \A o, d, e \in Docs : Names(o, d)' /\ Names(o, e)' => d = e
      BY <1>1, <2>1, <3>1
    <3>7. ASSUME NEW s \in Librarians, NEW d \in Docs, libReq'[s].op = "upload"
          PROVE  ~Names(libReq[s].no, d)' /\ ~Names(d, libReq[s].no)'
      <4>1. /\ libReq[s].op = "upload" /\ libReq'[s].no = libReq[s].no /\ libReq[s].no \in Docs
            /\ libReq[s] # NoRequest /\ s # r
        BY <1>0, <1>2, <2>3, <3>1, <3>7, NoneYet, LibraryBounds DEF LibTypeInv
      <4>2. libReq[s].no # no
        BY <1>1, <2>1, <4>1
      <4>3. libReq[s].no # d0
        BY <1>1, <3>3, <4>1, <4>2
      <4> QED BY <1>1, <3>1, <4>1, <4>2, <4>3
    <3> QED BY <2>4, <3>5, <3>6, <3>7 DEF NamesInv
  <2>7. CASE CreateDocument(r)
    <3>1. ~ReplaceDocument(r)
      BY <2>7, LivingRow, LibraryBounds DEF CreateDocument, ReplaceDocument
    <3>2. \A o, e \in Docs : Names(o, e)' => Names(o, e) \/ (o = no /\ e = no)
      BY <1>4, <3>1, NamesWork
    <3>3. libReq[r].op = "upload" /\ libReq'[r] = NoRequest
      BY <1>0, <2>7 DEF CreateDocument, Leaves, LibAt
    <3> QED BY <2>1, <2>6, <3>2, <3>3
  <2>8. CASE ReplaceDocument(r) /\ ~CreateDocument(r)
    <3>1. doc \in Docs
      BY <2>8, LivingRow DEF ReplaceDocument
    <3>2. \A o, e \in Docs : Names(o, e)' => Names(o, e) \/ (o = no /\ e = doc)
      BY <1>4, <2>8, NamesWork
    <3>3. libReq[r].op = "upload" /\ libReq'[r] = NoRequest /\ doc \in Living
      BY <1>0, <2>8 DEF ReplaceDocument, Leaves, LibAt
    <3> QED BY <2>6, <3>1, <3>2, <3>3
  <2>9. CASE ~CreateDocument(r) /\ ~ReplaceDocument(r)
    BY <1>4, <2>5, <2>9, NamesWork
  <2> QED BY <2>7, <2>8, <2>9
<1>5. ASSUME NEW e \in Docs, Extraction(e)
      PROVE  NamesInv'
  <2>1. UNCHANGED <<docRows, archive, libReq, libOps>>
    BY <1>5
    DEF Extraction, AskExtraction, Extract, WriteTriples, MergeEdges, ExtractionFails, Rows,
        LibCounts
  <2> QED BY <2>1 DEF NamesInv, Names
<1>6. CASE LibraryRestart
  <2>1. UNCHANGED <<docRows, archive, libOps>> /\ \A r \in Librarians : libReq'[r] = NoRequest
    BY <1>6 DEF LibraryRestart, Rows
  <2>2. \A o, d \in Docs : Names(o, d)' => Names(o, d)
    BY <1>0, <2>1, NoneYet DEF Names
  <2> QED BY <1>1, <2>1, <2>2, NoneYet DEF NamesInv
<1> QED BY <1>3, <1>4, <1>5, <1>6, LibSteps

\* A document lives on, or an upload has just made it.
LEMMA LivingWork ==
    ASSUME LibTypeInv, NEW r \in Librarians, Work(r), NEW d \in Living'
    PROVE  d \in Docs /\ (d \in Living \/ (CreateDocument(r) /\ d = libReq[r].no))
<1>1. d \in Docs /\ docRows'[d] # NoDoc
  BY DEF Living
<1> QED BY <1>1, RowAfter DEF Living

\* A deletion goes on until the row is gone or the document spoilt.
LEMMA DeletingWork ==
    ASSUME LibTypeInv, NEW r \in Librarians, Work(r), NEW d \in Docs,
           d \in spoilt \cup Deleting
    PROVE  d \in (spoilt \cup Deleting)' \/ d \notin Living'
<1> DEFINE me == libReq[r]
<1>1. spoilt \subseteq spoilt'
  BY DEF Work, PutObject, CreateDocument, ReplaceDocument, RefuseUpload, Parse, ClearVectors,
      InsertVectors, CommitVectorized, Edit, Revectorize, Rollback, RollbackFails, Strip, Unlink,
      DeleteRows, EnsureBuilt, RequestFails, LibPast
<1>2. SUFFICES ASSUME d \in Deleting, d \notin spoilt', d \in Living'
               PROVE  d \in Deleting'
  BY <1>1
<1>3. PICK q \in Librarians : libReq[q].doc = d /\ libReq[q].op = "delete" /\ libReq[q].pc # "begun"
  BY <1>2 DEF Deleting
<1>4. CASE q # r
  BY <1>3, <1>4, WorkGoesOn DEF Deleting
<1>5. CASE q = r
  <2>1. ~RequestFails(r)
    BY <1>2, <1>3, <1>5 DEF RequestFails
  <2>2. ~DeleteRows(r)
    <3>1. DeleteRows(r) => d \in spoilt' \/ docRows' = [docRows EXCEPT ![d] = NoDoc]
      BY <1>3, <1>5 DEF DeleteRows
    <3>2. docRows'[d] # NoDoc
      BY <1>2 DEF Living
    <3> QED BY <1>2, <3>1, <3>2 DEF LibTypeInv
  <2>3. Unlink(r)
    BY <1>3, <1>5, <2>1, <2>2
    DEF Work, PutObject, CreateDocument, ReplaceDocument, RefuseUpload, Parse, ClearVectors,
      InsertVectors, CommitVectorized, Edit, Revectorize, Rollback, RollbackFails, Strip,
      EnsureBuilt, LibAt
  <2>4. libReq' = [libReq EXCEPT ![r].pc = "unlinked"]
    BY <2>3 DEF Unlink, Goes
  <2>5. libReq'[r].doc = d /\ libReq'[r].op = "delete" /\ libReq'[r].pc # "begun"
    BY <1>3, <1>5, <2>4 DEF LibTypeInv, LibRequest
  <2> QED BY <2>5 DEF Deleting
<1> QED BY <1>4, <1>5

\* So is the presence of the objects.
LEMMA ThereStep ==
    ASSUME LibTypeInv, NamesInv, ThereInv, LibraryNext
    PROVE  ThereInv'
<1>0. /\ libReq \in [Librarians -> LibRequest]
      /\ \A d \in Living : d \in Docs
  BY LivingRow DEF LibTypeInv
<1>1. /\ \A r \in Librarians : LibAt(r, "upload", "stored") => libReq[r].no \in objects
      /\ \A d \in Living, o \in Docs : d \notin spoilt \cup Deleting /\ Names(o, d) => o \in objects
  BY DEF ThereInv
<1>2. ASSUME NEW r \in Librarians, NEW q, Begun(r, q)
      PROVE  ThereInv'
  <2>1. UNCHANGED <<objects, spoilt, docRows>> /\ libReq[r] = NoRequest /\ q.pc = "begun"
        /\ libReq'[r] = q /\ \A s \in Librarians \ {r} : libReq'[s] = libReq[s]
    BY <1>0, <1>2 DEF Begun
  <2>2. Living' = Living
    BY <2>1 DEF Living
  <2>3. Deleting \subseteq Deleting'
    BY <2>1, NoneYet DEF Deleting
  <2>4. \A o, d \in Docs : Names(o, d)' => Names(o, d)
    BY <1>2, NamesBegun
  <2>5. \A s \in Librarians : LibAt(s, "upload", "stored")' => libReq'[s].no \in objects'
    BY <1>1, <2>1 DEF LibAt
  <2> QED BY <1>0, <1>1, <2>1, <2>2, <2>3, <2>4, <2>5 DEF ThereInv
<1>3. ASSUME NEW r \in Librarians, Work(r)
      PROVE  ThereInv'
  <2> DEFINE no == libReq[r].no
             doc == libReq[r].doc
  <2>1. /\ \A s \in Librarians \ {r} : libReq'[s] = libReq[s]
        /\ libReq[r] # NoRequest /\ no \in Docs
    BY <1>3, WorkGoesOn
  <2>2. \/ objects' = objects \/ PutObject(r)
        \/ Strip(r) /\ objects' = objects \ {libReq[r].row.object}
    BY <1>3
    DEF Work, PutObject, CreateDocument, ReplaceDocument, RefuseUpload, Parse, ClearVectors,
      InsertVectors, CommitVectorized, Edit, Revectorize, Rollback, RollbackFails, Strip, Unlink,
      DeleteRows, EnsureBuilt, RequestFails
  <2>3. Strip(r) => /\ libReq[r].op = "delete" /\ doc \in Docs /\ libReq[r].row.object \in Docs
                    /\ libReq'[r].op = "delete" /\ libReq'[r].doc = doc
                    /\ libReq'[r].pc = "stripped"
    <3> SUFFICES ASSUME Strip(r)
                 PROVE  /\ libReq[r].op = "delete" /\ doc \in Docs /\ libReq[r].row.object \in Docs
                        /\ libReq'[r].op = "delete" /\ libReq'[r].doc = doc
                        /\ libReq'[r].pc = "stripped"
      OBVIOUS
    <3>1. libReq[r].op = "delete" /\ libReq' = [libReq EXCEPT ![r].pc = "stripped"]
      BY DEF Strip, LibAt, Goes
    <3>2. Fits(libReq[r])
      BY DEF LibTypeInv
    <3> QED BY <1>0, <3>1, <3>2 DEF Fits, LibRow, LibRequest
  <2>4. ASSUME NEW s \in Librarians, LibAt(s, "upload", "stored")'
        PROVE  libReq'[s].no \in objects'
    <3>1. CASE s = r
      <4>1. libReq'[r].op = "upload" /\ libReq'[r].pc = "stored"
        BY <2>4, <3>1 DEF LibAt
      <4>2. libReq[r].op = "upload" /\ libReq'[r].no = no
        BY <1>3, <4>1, WorkGoesOn, NoneYet
      <4>3. PutObject(r)
        BY <1>0, <1>3, <2>1, <4>1, <4>2, NoneYet
        DEF Work, PutObject, CreateDocument, ReplaceDocument, RefuseUpload, Parse, ClearVectors,
            InsertVectors, CommitVectorized, Edit, Revectorize, Rollback, RollbackFails, Strip,
            Unlink, DeleteRows, EnsureBuilt, RequestFails, LibAt, Leaves
      <4> QED BY <3>1, <4>2, <4>3 DEF PutObject
    <3>2. CASE s # r
      <4>1. libReq'[s] = libReq[s] /\ LibAt(s, "upload", "stored") /\ libReq[s].no \in objects
        BY <1>1, <2>1, <2>4, <3>2 DEF LibAt
      <4>2. Strip(r) => libReq[s].no # libReq[r].row.object
        <5> SUFFICES ASSUME Strip(r), libReq[s].no = libReq[r].row.object PROVE FALSE
          OBVIOUS
        <5>1. Names(libReq[r].row.object, doc) /\ doc \in Docs
          BY <2>3, NamedBy
        <5> QED BY <4>1, <5>1 DEF NamesInv, LibAt
      <4> QED BY <2>2, <4>1, <4>2 DEF PutObject
    <3> QED BY <3>1, <3>2
  <2>5. ASSUME NEW d \in Living', d \notin (spoilt \cup Deleting)', NEW o \in Docs, Names(o, d)'
        PROVE  o \in objects'
    <3>1. d \in Docs /\ (d \in Living \/ (CreateDocument(r) /\ d = no))
      BY <1>3, LivingWork
    <3>2. CASE Names(o, d) /\ d \in Living
      <4>1. d \notin spoilt \cup Deleting /\ o \in objects
        BY <1>1, <1>3, <2>5, <3>1, <3>2, DeletingWork
      <4>2. Strip(r) => d # doc
        BY <2>3, <2>5 DEF Deleting
      <4>3. Strip(r) => o # libReq[r].row.object
        BY <2>3, <3>1, <3>2, <4>2, NamedBy DEF NamesInv
      <4> QED BY <2>2, <4>1, <4>3 DEF PutObject
    <3>3. CASE o = no /\ LibAt(r, "upload", "stored") /\ (CreateDocument(r) \/ ReplaceDocument(r))
      BY <1>1, <3>3 DEF CreateDocument, ReplaceDocument
    <3>4. CASE Names(o, d) /\ CreateDocument(r) /\ d = no
      BY <3>4 DEF CreateDocument, LibAt, NamesInv
    <3> QED BY <1>3, <2>5, <3>1, <3>2, <3>3, <3>4, NamesWork
  <2> QED BY <2>4, <2>5 DEF ThereInv
<1>4. ASSUME NEW e \in Docs, Extraction(e)
      PROVE  ThereInv'
  <2>1. UNCHANGED <<docRows, archive, libReq, objects, spoilt>>
    BY <1>4
    DEF Extraction, AskExtraction, Extract, WriteTriples, MergeEdges, ExtractionFails, Rows,
        LibPast
  <2> QED BY <2>1 DEF ThereInv, Names, Living, Deleting, LibAt
<1>5. CASE LibraryRestart
  <2>1. /\ UNCHANGED <<docRows, archive, objects>> /\ spoilt' = spoilt \cup Deleting
        /\ \A r \in Librarians : libReq'[r] = NoRequest
    BY <1>5 DEF LibraryRestart, Rows
  <2>2. \A o, d \in Docs : Names(o, d)' => Names(o, d)
    BY <1>0, <2>1, LibraryBounds, NoneYet DEF Names
  <2>3. Living' = Living
    BY <2>1 DEF Living
  <2>4. \A r \in Librarians : ~LibAt(r, "upload", "stored")'
    BY <2>1, NoneYet DEF LibAt
  <2>5. ASSUME NEW d \in Living', d \notin spoilt', NEW o \in Docs, Names(o, d)'
        PROVE  o \in objects'
    <3>1. d \in Docs /\ d \in Living /\ d \notin spoilt /\ d \notin Deleting
      BY <1>0, <2>1, <2>3, <2>5
    <3>2. o \in objects
      BY <1>1, <2>2, <2>5, <3>1
    <3> QED BY <2>1, <3>2
  <2> QED BY <2>4, <2>5 DEF ThereInv
<1> QED BY <1>2, <1>3, <1>4, <1>5, LibSteps
-----------------------------------------------------------------------------
(* One request at a time: what the request at work does.                   *)

\* Nobody else is at work.
LEMMA LoneRequest ==
    ASSUME LibTypeInv, LibOneInv, NEW r \in Librarians, libReq[r] # NoRequest
    PROVE  /\ \A s \in Librarians \ {r} : libReq[s] = NoRequest
           /\ \A e \in Docs : kgJobs[e] = NoJob
           /\ Current(libReq[r]) /\ Fits(libReq[r]) /\ libReq[r] \in LibRequest
           /\ \A d, e \in Living : d = e
BY DEF LibOneInv, LibTypeInv

\* A request about a document, when it is alone: the document is there, as it was read.
LEMMA LoneRead ==
    ASSUME LibTypeInv, LibOneInv, NEW r \in Librarians, libReq[r] # NoRequest,
           libReq[r].op \in {"parse", "vectorize", "edit", "rollback", "delete"}
    PROVE  LET me == libReq[r]  d == me.doc IN
           /\ d \in Docs /\ d \in Living /\ \A e \in Living : e = d
           /\ me.op # "edit" => me.row = docRows[d]
           /\ docRows[d] \in LibRow /\ docRows[d].object \in Docs
           /\ me.op \in {"vectorize", "edit"} => me.text = docChunks[d] /\ me.text \in LibText
           /\ me.op = "rollback" => me.versions = archive[d] /\ me.object \in Archived(d)
                                    /\ me.object \in Docs
BY LoneRequest, LivingRow DEF Current, Fits

\* The first upload of a name makes the only document there is.
LEMMA LoneCreates ==
    ASSUME LibTypeInv, NamesInv, ChunksHaveADocument, LibOneInv, NEW r \in Librarians,
           CreateDocument(r)
    PROVE  LET no == libReq[r].no IN
           /\ no \in Docs /\ Living = {} /\ Living' = {no}
           /\ docRows'[no].object = no /\ docRows'[no].status = "pending"
           /\ stored' = stored \cup {no} /\ UNCHANGED <<archive, docChunks>>
           /\ DOMAIN archive[no] = {} /\ docChunks[no] = NoText
<1> DEFINE no == libReq[r].no
<1>1. libReq[r] # NoRequest /\ libReq[r].op = "upload" /\ no \in Docs /\ libReq[r].doc = 0
  BY UnderWay DEF CreateDocument, LibOps, LibPlaces
<1>2. Living = {}
  BY <1>1, LoneRequest DEF Current
<1>3. docRows \in [Docs -> LibRow \cup {NoDoc}]
      /\ docRows' = [docRows EXCEPT ![no] = [object |-> no, status |-> "pending"]]
  BY DEF LibTypeInv, CreateDocument
<1>4. docRows'[no] = [object |-> no, status |-> "pending"] /\ docRows'[no] # NoDoc
      /\ \A e \in Docs \ {no} : docRows'[e] = docRows[e]
  BY <1>1, <1>3 DEF NoDoc
<1>5. Living' = {no}
  BY <1>1, <1>2, <1>4 DEF Living
<1>6. DOMAIN archive[no] = {}
  <2> SUFFICES ASSUME NEW i \in DOMAIN archive[no] PROVE FALSE
    OBVIOUS
  <2>1. archive[no][i].object \in Docs /\ Names(archive[no][i].object, no)
    <3>1. archive[no] \in Seq(LibVersion)
      BY <1>1 DEF LibTypeInv
    <3> QED BY <1>1, <3>1, VersionFields, NamedBy
  <2> QED BY <1>1, <2>1 DEF NamesInv
<1>7. docChunks[no] = NoText
  BY <1>1, <1>2 DEF ChunksHaveADocument
<1> QED BY <1>1, <1>2, <1>4, <1>5, <1>6, <1>7 DEF CreateDocument

\* The next one takes its place and archives the object it replaces.
LEMMA LoneReplaces ==
    ASSUME LibTypeInv, LibOneInv, NEW r \in Librarians, ReplaceDocument(r)
    PROVE  LET no == libReq[r].no  d == libReq[r].doc IN
           /\ no \in Docs /\ d \in Docs /\ d \in Living /\ Living' = Living
           /\ \A e \in Living : e = d
           /\ docRows[d].object \in Docs
           /\ docRows'[d].object = no /\ docRows'[d].status = "pending"
           /\ archive' = [archive EXCEPT ![d] =
                            WithVersion(archive[d], docRows[d].object, archive[d])]
           /\ stored' = stored \cup {no} /\ UNCHANGED docChunks
<1> DEFINE me == libReq[r]
           no == me.no
           d == me.doc
<1>1. libReq[r] # NoRequest /\ libReq[r].op = "upload" /\ no \in Docs /\ d \in Living
  BY UnderWay DEF ReplaceDocument, LibOps, LibPlaces
<1>2. d \in Docs /\ d # 0 /\ docRows[d] \in LibRow /\ docRows[d].object \in Docs
  BY <1>1, LivingRow, LibraryBounds
<1>3. me.row = docRows[d] /\ me.versions = archive[d] /\ \A e \in Living : e = d
  BY <1>1, <1>2, LoneRequest DEF Current
<1> DEFINE new == [object |-> no, status |-> "pending"]
           row == Flushed(docRows[d], me.row, new)
<1>4. new \in LibRow /\ new.object = no /\ new.status = "pending"
  BY <1>1 DEF LibRow
<1>5. docRows' = [docRows EXCEPT ![d] = row] /\ docRows \in [Docs -> LibRow \cup {NoDoc}]
  BY DEF ReplaceDocument, LibTypeInv
<1> HIDE DEF new
<1>6. row \in LibRow /\ row # NoDoc /\ row.object = no /\ row.status = "pending"
  BY <1>2, <1>3, <1>4, FlushedRow
<1> HIDE DEF row
<1>7. docRows'[d] = row /\ \A e \in Docs \ {d} : docRows'[e] = docRows[e]
  BY <1>2, <1>5
<1>8. Living' = Living
  BY <1>1, <1>2, <1>6, <1>7 DEF Living
<1>9. archive' = [archive EXCEPT ![d] = WithVersion(archive[d], docRows[d].object, archive[d])]
  BY <1>3 DEF ReplaceDocument
<1> QED BY <1>1, <1>2, <1>3, <1>6, <1>7, <1>8, <1>9 DEF ReplaceDocument

\* Parsing.
LEMMA LoneParses ==
    ASSUME LibTypeInv, LibOneInv, NEW r \in Librarians, Parse(r)
    PROVE  LET d == libReq[r].doc IN
           /\ d \in Docs /\ d \in Living /\ Living' = Living /\ \A e \in Living : e = d
           /\ docRows'[d].object = docRows[d].object /\ docRows'[d].status = "parsed"
           /\ docChunks'[d] = NoText \/ docChunks'[d].of = docRows[d].object
           /\ UNCHANGED <<archive, stored>>
<1> DEFINE me == libReq[r]
           d == me.doc
<1>1. libReq[r] # NoRequest /\ me.op = "parse"
  BY UnderWay DEF Parse, LibOps, LibPlaces
<1>2. /\ d \in Docs /\ d \in Living /\ me.row = docRows[d] /\ docRows[d] \in LibRow
      /\ \A e \in Living : e = d
  BY <1>1, LoneRead
<1> DEFINE new == [me.row EXCEPT !.status = "parsed"]
           row == Flushed(docRows[d], me.row, new)
<1>3. new \in LibRow /\ new.object = me.row.object /\ new.status = "parsed"
  BY <1>2, ShownAs
<1>4. docRows' = [docRows EXCEPT ![d] = row] /\ docRows \in [Docs -> LibRow \cup {NoDoc}]
  BY <1>2 DEF Parse, LibTypeInv
<1> HIDE DEF new
<1>5. row # NoDoc /\ row.object = docRows[d].object /\ row.status = "parsed"
  BY <1>2, <1>3, FlushedRow
<1> HIDE DEF row
<1>6. docRows'[d] = row /\ \A e \in Docs \ {d} : docRows'[e] = docRows[e]
  BY <1>2, <1>4
<1>7. Living' = Living
  BY <1>2, <1>5, <1>6 DEF Living
<1>8. docChunks'[d] = NoText \/ docChunks'[d].of = docRows[d].object
  <2>1. docChunks' = [docChunks EXCEPT ![d] =
                   IF Pieces[me.row.object] = 0 THEN NoText
                   ELSE [of |-> me.row.object, edit |-> 0, parse |-> me.no]]
    BY <1>2 DEF Parse
  <2> QED BY <1>2, <2>1 DEF LibTypeInv
<1> QED BY <1>2, <1>5, <1>6, <1>7, <1>8 DEF Parse, LibPast

\* The commit of a vectorization.
LEMMA LoneVectorizes ==
    ASSUME LibTypeInv, LibOneInv, NEW r \in Librarians, CommitVectorized(r)
    PROVE  LET d == libReq[r].doc IN
           /\ d \in Docs /\ d \in Living /\ Living' = Living /\ \A e \in Living : e = d
           /\ docRows'[d].object = docRows[d].object /\ docRows'[d].status = "vectorized"
           /\ docChunks[d] # NoText /\ IndexDirty
           /\ \A e \in Docs \ {d} : kgJobs'[e] = NoJob
           /\ kgJobs'[d].pc = "asked"
           /\ UNCHANGED <<archive, stored, docChunks>>
<1> DEFINE me == libReq[r]
           d == me.doc
<1>1. libReq[r] # NoRequest /\ me.op = "vectorize"
  BY UnderWay DEF CommitVectorized, LibOps, LibPlaces
<1>2. /\ d \in Docs /\ d \in Living /\ me.row = docRows[d] /\ docRows[d] \in LibRow
      /\ me.text = docChunks[d] /\ me.text \in LibText
      /\ \A e \in Living : e = d
  BY <1>1, LoneRead
<1> DEFINE new == [me.row EXCEPT !.status = "vectorized"]
           row == Flushed(docRows[d], me.row, new)
<1>3. new \in LibRow /\ new.object = me.row.object /\ new.status = "vectorized"
  BY <1>2, ShownAs
<1>4. docRows' = [docRows EXCEPT ![d] = row] /\ docRows \in [Docs -> LibRow \cup {NoDoc}]
  BY <1>2 DEF CommitVectorized, LibTypeInv
<1> HIDE DEF new
<1>5. row # NoDoc /\ row.object = docRows[d].object /\ row.status = "vectorized"
  BY <1>2, <1>3, FlushedRow
<1> HIDE DEF row
<1>6. docRows'[d] = row /\ \A e \in Docs \ {d} : docRows'[e] = docRows[e]
  BY <1>2, <1>4
<1>7. Living' = Living
  BY <1>2, <1>5, <1>6 DEF Living
<1>8. (\A e \in Docs \ {d} : kgJobs'[e] = NoJob) /\ kgJobs'[d].pc = "asked"
  <2>1. kgJobs \in [Docs -> LibJob] /\ \A e \in Docs : kgJobs[e] = NoJob
    BY <1>1, LoneRequest DEF LibTypeInv
  <2>2. kgJobs' = [kgJobs EXCEPT ![d].pc = "asked"]
    BY <1>2, <2>1 DEF CommitVectorized
  <2>3. NoJob.pc # "asked" /\ [NoJob EXCEPT !.pc = "asked"].pc = "asked"
    BY DEF NoJob
  <2> QED BY <1>2, <2>1, <2>2, <2>3
<1>9. docChunks[d] # NoText
  BY <1>2, NoneYet
<1> QED BY <1>2, <1>5, <1>6, <1>7, <1>8, <1>9 DEF CommitVectorized, LibPast

\* An edit of the chunks.
LEMMA LoneEdits ==
    ASSUME LibTypeInv, LibOneInv, NEW r \in Librarians, Edit(r)
    PROVE  LET me == libReq[r]  d == me.doc IN
           /\ d \in Docs /\ d \in Living /\ Living' = Living /\ \A e \in Living : e = d
           /\ docChunks[d] # NoText /\ docChunks'[d] # NoText
           /\ docChunks'[d].of = docChunks[d].of
           /\ libReq'[r].op = "edit" /\ libReq'[r].pc = "edited" /\ libReq'[r].doc = d
           /\ libReq'[r].text = docChunks'[d]
           /\ UNCHANGED <<docRows, archive, stored>>
<1> DEFINE me == libReq[r]
           d == me.doc
           new == [me.text EXCEPT !.edit = me.no]
<1>1. libReq[r] # NoRequest /\ me.op = "edit" /\ me.no \in Docs
  BY UnderWay DEF Edit, LibOps, LibPlaces
<1>2. /\ d \in Docs /\ d \in Living /\ me.text = docChunks[d] /\ me.text \in LibText
      /\ \A e \in Living : e = d
  BY <1>1, LoneRead
<1>3. new.of = docChunks[d].of /\ new.parse = docChunks[d].parse /\ new \in LibText
  BY <1>1, <1>2, LibraryBounds DEF LibText
<1>4. /\ docChunks' = [docChunks EXCEPT ![d] = new]
      /\ libReq' = [libReq EXCEPT ![r].text = new, ![r].pc = "edited"]
  BY <1>2 DEF Edit
<1> HIDE DEF new
<1>5. docChunks'[d] = new
  BY <1>2, <1>4 DEF LibTypeInv
<1>6. libReq'[r].op = "edit" /\ libReq'[r].pc = "edited" /\ libReq'[r].doc = d
      /\ libReq'[r].text = new
  BY <1>1, <1>4 DEF LibTypeInv, LibRequest
<1>7. UNCHANGED <<docRows, archive, stored>>
  BY DEF Edit, LibPast
<1> QED BY <1>2, <1>3, <1>5, <1>6, <1>7, NoneYet DEF Living

\* What an edit goes on with.
LEMMA LoneRevectorizes ==
    ASSUME LibTypeInv, LibOneInv, ChunksHaveADocument, NEW r \in Librarians, Revectorize(r)
    PROVE  LET me == libReq[r]  d == me.doc IN
           /\ d \in Docs /\ d \in Living /\ \A e \in Living : e = d
           /\ libReq'[r].op = "vectorize" /\ libReq'[r].pc = "begun" /\ libReq'[r].doc = d
           /\ libReq'[r].row = docRows[d] /\ libReq'[r].text = docChunks[d]
<1> DEFINE me == libReq[r]
           d == me.doc
<1>1. libReq[r] # NoRequest /\ me.op = "edit"
  BY UnderWay DEF Revectorize, LibOps, LibPlaces
<1>2. /\ d \in Docs /\ d \in Living /\ me.text = docChunks[d] /\ me.text \in LibText
      /\ \A e \in Living : e = d
  BY <1>1, LoneRead
<1>3. docChunks[d] # NoText /\ me \in LibRequest /\ libReq \in [Librarians -> LibRequest]
  BY <1>2, NoneYet DEF LibTypeInv
<1> DEFINE q == [me EXCEPT !.op = "vectorize", !.pc = "begun", !.row = docRows[d],
                          !.text = IF docChunks[d].parse = @.parse THEN @ ELSE docChunks[d]]
<1>4. libReq' = [libReq EXCEPT ![r] = q]
  BY <1>2, <1>3 DEF Revectorize
<1>5. q.op = "vectorize" /\ q.pc = "begun" /\ q.doc = d /\ q.row = docRows[d]
      /\ q.text = docChunks[d]
  BY <1>2, <1>3 DEF LibRequest
<1> HIDE DEF q
<1> QED BY <1>2, <1>3, <1>4, <1>5

\* A rollback swaps the object for an archived one.
LEMMA LoneRollsBack ==
    ASSUME LibTypeInv, LibOneInv, NEW r \in Librarians, Rollback(r)
    PROVE  LET me == libReq[r]  d == me.doc IN
           /\ d \in Docs /\ d \in Living /\ Living' = Living /\ \A e \in Living : e = d
           /\ docRows[d].object \in Docs
           /\ me.object \in Archived(d)
           /\ docRows'[d].object = me.object /\ docRows'[d].status = "pending"
           /\ archive' = [archive EXCEPT ![d] =
                            WithVersion(archive[d], docRows[d].object, archive[d])]
           /\ docChunks'[d] = NoText /\ UNCHANGED stored
<1> DEFINE me == libReq[r]
           d == me.doc
<1>1. libReq[r] # NoRequest /\ me.op = "rollback"
  BY UnderWay DEF Rollback, LibOps, LibPlaces
<1>2. /\ d \in Docs /\ d \in Living /\ me.row = docRows[d] /\ docRows[d] \in LibRow
      /\ docRows[d].object \in Docs
      /\ me.versions = archive[d] /\ me.object \in Archived(d) /\ me.object \in Docs
      /\ \A e \in Living : e = d
  BY <1>1, LoneRead
<1> DEFINE new == [object |-> me.object, status |-> "pending"]
           row == Flushed(docRows[d], me.row, new)
<1>3. new \in LibRow /\ new.object = me.object /\ new.status = "pending"
  BY <1>2 DEF LibRow
<1>4. docRows' = [docRows EXCEPT ![d] = row] /\ docRows \in [Docs -> LibRow \cup {NoDoc}]
  BY <1>2 DEF Rollback, LibTypeInv
<1> HIDE DEF new
<1>5. row # NoDoc /\ row.object = me.object /\ row.status = "pending"
  BY <1>2, <1>3, FlushedRow
<1> HIDE DEF row
<1>6. docRows'[d] = row /\ \A e \in Docs \ {d} : docRows'[e] = docRows[e]
  BY <1>2, <1>4
<1>7. Living' = Living
  BY <1>2, <1>5, <1>6 DEF Living
<1>8. archive' = [archive EXCEPT ![d] = WithVersion(archive[d], docRows[d].object, archive[d])]
  BY <1>2 DEF Rollback
<1>9. docChunks'[d] = NoText
  <2>1. docChunks' = [docChunks EXCEPT ![d] = NoText]
    BY <1>2 DEF Rollback
  <2> QED BY <1>2, <2>1 DEF LibTypeInv
<1> QED BY <1>2, <1>5, <1>6, <1>7, <1>8, <1>9 DEF Rollback, LibPast

\* A deletion.
LEMMA LoneDeletes ==
    ASSUME LibTypeInv, LibOneInv, NEW r \in Librarians, DeleteRows(r)
    PROVE  LET me == libReq[r]  d == me.doc IN
           /\ d \in Docs /\ d \in Living /\ \A e \in Living : e = d
           /\ me.row = docRows[d] /\ me.op = "delete" /\ me.pc = "unlinked"
           /\ UNCHANGED archive
           /\ \/ UNCHANGED <<docRows, docChunks, triples, wordIndex, stored>> /\ d \in spoilt'
              \/ /\ archive[d] = <<>> /\ Living' = {} /\ IndexDirty
                 /\ stored' = stored \ {docRows[d].object}
                 /\ triples' = {t \in triples : t.doc # d}
<1> DEFINE me == libReq[r]
           d == me.doc
<1>1. libReq[r] # NoRequest /\ me.op = "delete" /\ me.pc = "unlinked"
  BY UnderWay DEF DeleteRows, LibOps, LibPlaces
<1>2. d \in Docs /\ d \in Living /\ me.row = docRows[d] /\ \A e \in Living : e = d
  BY <1>1, LoneRead
<1>3. docRows' = [docRows EXCEPT ![d] = NoDoc] => Living' = {}
  <2> SUFFICES ASSUME docRows' = [docRows EXCEPT ![d] = NoDoc], NEW e \in Living' PROVE FALSE
    OBVIOUS
  <2>1. e \in Docs /\ docRows'[e] # NoDoc
    BY DEF Living
  <2>2. e # d /\ docRows[e] # NoDoc
    BY <1>2, <2>1 DEF LibTypeInv
  <2> QED BY <1>2, <2>1, <2>2 DEF Living
<1>4. CASE archive[d] # <<>>
  BY <1>1, <1>2, <1>4 DEF DeleteRows
<1>5. CASE archive[d] = <<>>
  BY <1>1, <1>2, <1>3, <1>5 DEF DeleteRows
<1> QED BY <1>4, <1>5

\* The other steps leave the rows and what is stored alone; an upload that is alone is not
\* refused.
LEMMA LoneOthers ==
    ASSUME LibTypeInv, LibOneInv, NEW r \in Librarians, Work(r)
    PROVE  \/ CreateDocument(r) \/ ReplaceDocument(r) \/ Parse(r) \/ CommitVectorized(r)
           \/ Edit(r) \/ Rollback(r) \/ DeleteRows(r)
           \/ /\ UNCHANGED <<docRows, archive, docChunks, stored>> /\ ~RefuseUpload(r)
              /\ \/ PutObject(r) \/ ClearVectors(r) \/ InsertVectors(r) \/ Revectorize(r)
                 \/ RollbackFails(r) \/ Strip(r) \/ Unlink(r) \/ EnsureBuilt(r) \/ RequestFails(r)
<1>1. ~RefuseUpload(r)
  <2> SUFFICES ASSUME RefuseUpload(r) PROVE FALSE
    OBVIOUS
  <2> DEFINE me == libReq[r]
  <2>1. me # NoRequest /\ me.op = "upload" /\ me.doc # 0
    BY UnderWay DEF RefuseUpload, LibOps, LibPlaces
  <2>2. me.doc \in Living /\ me.seen = Living /\ \A e \in Living : e = me.doc
    BY <2>1, LoneRequest DEF Current
  <2>3. me.seen = {me.doc}
    BY <2>2
  <2>4. Cardinality(me.seen) = 1
    BY <2>3, FS_Singleton
  <2> QED BY <2>2, <2>4 DEF RefuseUpload
<1>2. \/ PutObject(r) \/ ClearVectors(r) \/ InsertVectors(r) \/ Revectorize(r)
      \/ RollbackFails(r) \/ Strip(r) \/ Unlink(r) \/ EnsureBuilt(r) \/ RequestFails(r)
      => UNCHANGED <<docRows, archive, docChunks, stored>>
  BY DEF PutObject, ClearVectors, InsertVectors, Revectorize, RollbackFails, Strip, Unlink,
         EnsureBuilt, RequestFails, Rows, LibPast
<1> QED BY <1>1, <1>2 DEF Work
\* A request that leaves.
LEMMA LoneLeaves ==
    ASSUME LibTypeInv, LibOneInv, NEW r \in Librarians, libReq[r] # NoRequest, Leaves(r)
    PROVE  \A s \in Librarians : libReq'[s] = NoRequest
BY LoneRequest DEF Leaves, LibTypeInv

\* A request that goes on with what it has read, while the rows stay, is as current as it was.
LEMMA LoneGoes ==
    ASSUME LibTypeInv, LibOneInv, NEW r \in Librarians, libReq[r] # NoRequest,
           NEW pc \in LibPlaces \ {"idle"}, Goes(r, pc),
           UNCHANGED <<docRows, archive, docChunks>>
    PROVE  /\ Current(libReq[r])' /\ libReq'[r].op = libReq[r].op /\ libReq'[r].pc = pc
           /\ libReq'[r].doc = libReq[r].doc /\ libReq'[r].row = libReq[r].row
           /\ libReq'[r].no = libReq[r].no /\ libReq'[r].text = libReq[r].text
           /\ \A s \in Librarians \ {r} : libReq'[s] = NoRequest
<1>1. PICK q \in LibRequest : Becomes(r, q) /\ q.pc = pc /\ SameAim(libReq[r], q)
  BY Went
<1>2. libReq'[r] = q /\ \A s \in Librarians \ {r} : libReq'[s] = NoRequest
  BY <1>1, LoneRequest DEF Becomes, LibTypeInv
<1>3. Living' = Living /\ Corpus' = Corpus /\ \A d : Archived(d)' = Archived(d)
  BY DEF Living, Corpus, Archived
<1>4. Current(libReq[r])
  BY LoneRequest
<1>5. /\ q.op = libReq[r].op /\ q.doc = libReq[r].doc /\ q.row = libReq[r].row
      /\ q.text = libReq[r].text /\ q.versions = libReq[r].versions /\ q.seen = libReq[r].seen
      /\ q.object = libReq[r].object /\ q.no = libReq[r].no
  BY <1>1 DEF SameAim
<1>6. Current(q)'
  BY <1>3, <1>4, <1>5 DEF Current
<1> QED BY <1>1, <1>2, <1>5, <1>6 DEF Current

\* A request that is none has read nothing.
LEMMA NobodyIsCurrent == Current(NoRequest) /\ Current(NoRequest)'
BY NoneYet DEF Current

\* Nobody is left at work: the rest of what one request at a time means.
LEMMA NobodyLeft ==
    ASSUME LibTypeInv, NEW r \in Librarians, \A s \in Librarians : libReq'[s] = NoRequest,
           \A d, e \in Docs : kgJobs'[d] # NoJob /\ kgJobs'[e] # NoJob => d = e,
           \A d, e \in Living' : d = e,
           \A d \in Docs : kgJobs'[d] # NoJob => d \in Living' /\ kgJobs'[d].pc # "written"
    PROVE  LibOneInv'
<1>1. \A s \in Librarians : Current(libReq[s])'
  <2> SUFFICES ASSUME NEW s \in Librarians PROVE Current(libReq[s])'
    OBVIOUS
  <2>1. libReq'[s] = NoRequest
    OBVIOUS
  <2> QED BY <2>1, NobodyIsCurrent DEF Current
<1>2. NoJob.pc # "written"
  BY DEF NoJob
<1> QED BY <1>1, <1>2 DEF LibOneInv

\* A request begins when nobody is at work, with what is there.
LEMMA OneBegun ==
    ASSUME LibTypeInv, LibOneInv, libAlone, NEW r \in Librarians, NEW q, Begun(r, q)
    PROVE  LibOneInv' /\ libReq'[r] = q /\ \A s \in Librarians \ {r} : libReq'[s] = NoRequest
<1>1. /\ \A s \in Librarians : libReq[s] = NoRequest
      /\ \A d \in Docs : kgJobs[d] = NoJob
  BY DEF Begun, Undisturbed, LibraryQuiet
<1>2. libReq'[r] = q /\ \A s \in Librarians \ {r} : libReq'[s] = NoRequest
  BY <1>1 DEF Begun, LibTypeInv
<1>3. UNCHANGED <<docRows, archive, docChunks, kgJobs>>
  BY DEF Begun
<1>4. Living' = Living /\ Corpus' = Corpus /\ \A d : Archived(d)' = Archived(d)
  BY <1>3 DEF Living, Corpus, Archived
<1>5. Current(q)'
  BY <1>3, <1>4 DEF Begun, Current
<1>6. \A s \in Librarians : Current(libReq[s])'
  BY <1>2, <1>5, NobodyIsCurrent DEF Current
<1>7. NoJob.pc # "written"
  BY DEF NoJob
<1>8. \A d, e \in Living' : d = e
  BY <1>4 DEF LibOneInv
<1> QED BY <1>1, <1>2, <1>3, <1>6, <1>7, <1>8 DEF LibOneInv

\* A request that works alone stays current.
LEMMA OneWork ==
    ASSUME LibTypeInv, NamesInv, ChunksHaveADocument, LibOneInv, NEW r \in Librarians, Work(r)
    PROVE  LibOneInv'
<1> DEFINE me == libReq[r]
           d == me.doc
<1>0. me # NoRequest
  BY WorkGoesOn
<1>1. /\ \A e \in Docs : kgJobs[e] = NoJob
      /\ \A e, f \in Living : e = f
  BY <1>0, LoneRequest
<1>2. CommitVectorized(r) \/ kgJobs' = kgJobs
  BY DEF Work, PutObject, CreateDocument, ReplaceDocument, RefuseUpload, Parse, ClearVectors,
      InsertVectors, Edit, Revectorize, Rollback, RollbackFails, Strip, Unlink,
      DeleteRows, EnsureBuilt, RequestFails, Graph
<1>3. \A e, f \in Living' : e = f
  <2>1. Living' \subseteq Living \/ CreateDocument(r)
    BY LivingWork
  <2>2. CreateDocument(r) => Living' = {me.no}
    BY LoneCreates
  <2> QED BY <1>1, <2>1, <2>2
<1>4. ASSUME \A s \in Librarians : libReq'[s] = NoRequest
      PROVE  LibOneInv'
  <2>1. CASE CommitVectorized(r)
    <3>1. /\ d \in Docs /\ d \in Living' /\ kgJobs'[d].pc = "asked"
          /\ \A e \in Docs \ {d} : kgJobs'[e] = NoJob
      BY <2>1, LoneVectorizes
    <3>2. \A e \in Docs : kgJobs'[e] # NoJob => e = d
      BY <3>1
    <3> QED BY <1>3, <1>4, <3>1, <3>2, NobodyLeft
  <2>2. CASE kgJobs' = kgJobs
    <3>1. \A e \in Docs : kgJobs'[e] = NoJob
      BY <1>1, <2>2
    <3> QED BY <1>3, <1>4, <3>1, NobodyLeft
  <2> QED BY <1>2, <2>1, <2>2
<1>5. ASSUME \A s \in Librarians \ {r} : libReq'[s] = NoRequest, kgJobs' = kgJobs,
             Current(libReq[r])'
      PROVE  LibOneInv'
  <2>1. \A s \in Librarians : Current(libReq[s])'
    <3> SUFFICES ASSUME NEW s \in Librarians \ {r} PROVE Current(libReq[s])'
      BY <1>5
    <3>1. libReq'[s] = NoRequest
      BY <1>5
    <3> QED BY <3>1, NobodyIsCurrent DEF Current
  <2>2. \A e \in Docs : kgJobs'[e] = NoJob
    BY <1>1, <1>5
  <2>3. NoJob.pc # "written"
    BY DEF NoJob
  <2> QED BY <1>3, <1>5, <2>1, <2>2, <2>3 DEF LibOneInv
<1>6. CASE Leaves(r)
  BY <1>0, <1>4, <1>6, LoneLeaves
<1>7. CASE PutObject(r) \/ ClearVectors(r) \/ InsertVectors(r) \/ Strip(r) \/ Unlink(r)
  <2>1. \E pc \in LibPlaces \ {"idle"} : Goes(r, pc)
    BY <1>7 DEF PutObject, ClearVectors, InsertVectors, Strip, Unlink, LibPlaces
  <2>2. UNCHANGED <<docRows, archive, docChunks, kgJobs>>
    BY <1>7 DEF PutObject, ClearVectors, InsertVectors, Strip, Unlink, Rows, Graph
  <2>3. Current(libReq[r])' /\ \A s \in Librarians \ {r} : libReq'[s] = NoRequest
    BY <1>0, <2>1, <2>2, LoneGoes
  <2> QED BY <1>5, <2>2, <2>3
<1>8. CASE Edit(r)
  <2>1. /\ d \in Living /\ Living' = Living /\ libReq'[r].op = "edit"
        /\ libReq'[r].doc = d /\ libReq'[r].text = docChunks'[d]
    BY <1>8, LoneEdits
  <2>2. Current(libReq[r])'
    BY <2>1 DEF Current
  <2>3. kgJobs' = kgJobs /\ \A s \in Librarians \ {r} : libReq'[s] = NoRequest
    <3>1. kgJobs' = kgJobs
      BY <1>8 DEF Edit, Graph
    <3> QED BY <1>0, <3>1, WorkGoesOn, LoneRequest
  <2> QED BY <1>5, <2>2, <2>3
<1>9. CASE Revectorize(r)
  <2>1. /\ d \in Living /\ libReq'[r].op = "vectorize" /\ libReq'[r].doc = d
        /\ libReq'[r].row = docRows[d] /\ libReq'[r].text = docChunks[d]
    BY <1>9, LoneRevectorizes
  <2>2. UNCHANGED <<docRows, archive, docChunks, kgJobs>>
    BY <1>9 DEF Revectorize, Rows, Graph
  <2>3. Living' = Living
    BY <2>2 DEF Living
  <2>4. Current(libReq[r])'
    BY <2>1, <2>2, <2>3 DEF Current
  <2>5. \A s \in Librarians \ {r} : libReq'[s] = NoRequest
    BY <1>0, WorkGoesOn, LoneRequest
  <2> QED BY <1>5, <2>2, <2>4, <2>5
<1> QED
  BY <1>6, <1>7, <1>8, <1>9
  DEF Work, CreateDocument, ReplaceDocument, RefuseUpload, Parse, CommitVectorized, Rollback,
      RollbackFails, DeleteRows, EnsureBuilt, RequestFails

\* So does the extraction of a document.
LEMMA OneExtraction ==
    ASSUME LibTypeInv, LibOneInv, libAlone, NEW d \in Docs, Extraction(d)
    PROVE  LibOneInv' /\ d \in Living
<1>0. /\ UNCHANGED <<docRows, archive, docChunks, libReq>> /\ Living' = Living /\ Corpus' = Corpus
      /\ \A e : Archived(e)' = Archived(e)
  BY DEF Extraction, AskExtraction, Extract, WriteTriples, MergeEdges, ExtractionFails, Rows,
         Living, Corpus, Archived
<1>1. kgJobs \in [Docs -> LibJob] /\ NoJob.pc = "none" /\ NoJob.found = {}
  BY DEF LibTypeInv, NoJob
<1>2. AskExtraction(d) \/ kgJobs[d] # NoJob
  BY <1>1 DEF Extraction, Extract, WriteTriples, MergeEdges, ExtractionFails
<1>3. /\ \A r \in Librarians : libReq[r] = NoRequest
      /\ \A e \in Docs : kgJobs[e] # NoJob => e = d
      /\ d \in Living
  BY <1>2 DEF AskExtraction, Undisturbed, LibraryQuiet, LibOneInv
<1>4. /\ \E j : kgJobs' = [kgJobs EXCEPT ![d] = j]
      /\ triples \subseteq triples'
  BY DEF Extraction, AskExtraction, Extract, WriteTriples, MergeEdges, ExtractionFails
<1>5. \A e \in Docs : kgJobs'[e] # NoJob => e = d
  BY <1>1, <1>3, <1>4
<1>6. kgJobs'[d].pc = "written" => \A f \in kgJobs'[d].found : [doc |-> d, fact |-> f] \in triples'
  <2>1. CASE AskExtraction(d)
    BY <1>1, <2>1 DEF AskExtraction, LibJob
  <2>2. CASE Extract(d)
    BY <1>1, <2>2 DEF Extract
  <2>3. CASE WriteTriples(d)
    <3>1. kgJobs'[d].found = kgJobs[d].found
      BY <1>1, <2>3 DEF WriteTriples, LibJob
    <3> QED BY <2>3, <3>1 DEF WriteTriples
  <2>4. CASE MergeEdges(d) \/ ExtractionFails(d)
    BY <1>1, <2>4 DEF MergeEdges, ExtractionFails
  <2> QED BY <2>1, <2>2, <2>3, <2>4 DEF Extraction
<1>7. \A s \in Librarians : Current(libReq[s])'
  <2> SUFFICES ASSUME NEW s \in Librarians PROVE Current(libReq[s])'
    OBVIOUS
  <2>1. libReq'[s] = NoRequest
    BY <1>0, <1>3
  <2> QED BY <2>1, NobodyIsCurrent DEF Current
<1>8. \A e \in Docs : kgJobs'[e].pc = "written" => e = d
  BY <1>1, <1>5
<1>9. \A e, f \in Living' : e = f
  BY <1>0 DEF LibOneInv
<1> QED BY <1>0, <1>3, <1>5, <1>6, <1>7, <1>8, <1>9 DEF LibOneInv

\* A restart leaves nobody at work.
LEMMA OneRestart ==
    ASSUME LibTypeInv, LibOneInv, LibraryRestart
    PROVE  LibOneInv'
<1>1. /\ \A r \in Librarians : libReq'[r] = NoRequest
      /\ \A d \in Docs : kgJobs'[d] = NoJob
      /\ Living' = Living
  BY DEF LibraryRestart, Rows, Living
<1>2. \A s \in Librarians : Current(libReq[s])'
  <2> SUFFICES ASSUME NEW s \in Librarians PROVE Current(libReq[s])'
    OBVIOUS
  <2>1. libReq'[s] = NoRequest
    BY <1>1
  <2> QED BY <2>1, NobodyIsCurrent DEF Current
<1>3. NoJob.pc # "written"
  BY DEF NoJob
<1>4. \A e, f \in Living' : e = f
  BY <1>1 DEF LibOneInv
<1> QED BY <1>1, <1>2, <1>3, <1>4 DEF LibOneInv
\* A version is added: the object and the earlier versions are within reach, numbered as they
\* come.
LEMMA ArchivedAfter ==
    ASSUME LibTypeInv, ReachInv, NEW d \in Docs, NEW o \in Docs,
           archive' = [archive EXCEPT ![d] = WithVersion(archive[d], o, archive[d])]
    PROVE  /\ Archived(d)' = Archived(d) \cup {o}
           /\ \A e \in Docs : \A i \in DOMAIN archive'[e] : archive'[e][i].version = i
<1> DEFINE n == Len(archive[d])
           w == WithVersion(archive[d], o, archive[d])
<1>1. archive[d] \in Seq(LibVersion) /\ archive \in [Docs -> Seq(LibVersion)]
  BY DEF LibTypeInv
<1>2. LastVersion(archive[d]) = n
  BY <1>1, LastVersionOf DEF ReachInv
<1>3. /\ n \in Nat /\ DOMAIN archive[d] = 1..n /\ DOMAIN w = 1..(n + 1)
      /\ \A i \in 1..n : w[i] = archive[d][i]
      /\ w[n + 1].object = o /\ w[n + 1].version = n + 1
  <2>1. /\ n \in Nat /\ DOMAIN archive[d] = 1..n /\ DOMAIN w = 1..(n + 1)
        /\ \A i \in 1..n : w[i] = archive[d][i]
        /\ w[n + 1].object = o /\ w[n + 1].version = LastVersion(archive[d]) + 1
    <3>1. PICK s \in Seq(LibVersion) : s = archive[d]
      BY <1>1
    <3>2. LET v == WithVersion(s, o, s)  k == Len(s) IN
          /\ k \in Nat /\ DOMAIN s = 1..k /\ DOMAIN v = 1..(k + 1)
          /\ \A i \in 1..k : v[i] = s[i]
          /\ v[k + 1].object = o /\ v[k + 1].version = LastVersion(s) + 1
      BY VersionAdded
    <3> QED BY <3>1, <3>2
  <2> HIDE DEF w, n
  <2> QED BY <1>2, <2>1
<1>4. archive'[d] = w /\ \A e \in Docs \ {d} : archive'[e] = archive[e]
  BY <1>1
<1> HIDE DEF w, n
<1>5. \A i \in 1..(n + 1) : i \in 1..n \/ i = n + 1
  BY <1>3
<1>6. n + 1 \in 1..(n + 1) /\ \A i \in 1..n : i \in 1..(n + 1)
  BY <1>3
<1>7. \A i \in 1..(n + 1) : w[i].version = i
  BY <1>3, <1>5 DEF ReachInv
<1>8. Archived(d)' = {w[i].object : i \in 1..(n + 1)}
  BY <1>3, <1>4 DEF Archived
<1>9. Archived(d) = {archive[d][i].object : i \in 1..n}
  BY <1>3 DEF Archived
<1>10. Archived(d)' = Archived(d) \cup {o}
  <2>1. ASSUME NEW x \in {w[i].object : i \in 1..(n + 1)} PROVE x \in Archived(d) \cup {o}
    BY <1>3, <1>5, <1>9
  <2>2. ASSUME NEW x \in Archived(d) PROVE x \in {w[i].object : i \in 1..(n + 1)}
    BY <1>3, <1>6, <1>9
  <2>3. o \in {w[i].object : i \in 1..(n + 1)}
    BY <1>3, <1>6
  <2> QED BY <1>8, <2>1, <2>2, <2>3
<1> QED BY <1>3, <1>4, <1>7, <1>10 DEF ReachInv

\* What is within reach follows from the document there is.
LEMMA ReachOfOne ==
    ASSUME LibTypeInv, ReachInv, NEW d \in Docs, d \in Living', \A e \in Living' : e = d,
           \A e \in Docs : \A i \in DOMAIN archive'[e] : archive'[e][i].version = i,
           \A o \in stored' : o = docRows'[d].object \/ o \in Archived(d)',
           docRows'[d].object \in stored', Archived(d)' \subseteq stored',
           docChunks'[d] # NoText => docChunks'[d].of \in {docRows'[d].object} \cup Archived(d)',
           docRows'[d].status = "vectorized" => docChunks'[d] # NoText
    PROVE  ReachInv'
BY DEF ReachInv

\* What is within reach depends on the rows, the archive, the chunks and what is stored.
LEMMA ReachSame ==
    ASSUME ReachInv, UNCHANGED <<docRows, archive, docChunks, stored>>
    PROVE  ReachInv'
<1>1. Living' = Living /\ \A d : Archived(d)' = Archived(d)
  BY DEF Living, Archived
<1> QED BY <1>1 DEF ReachInv

\* Every step of a lone request keeps what is stored within reach.
LEMMA ReachWork ==
    ASSUME LibTypeInv, NamesInv, ChunksHaveADocument, LibOneInv, ReachInv,
           NEW r \in Librarians, Work(r)
    PROVE  ReachInv'
<1> PICK d, no, back : d = libReq[r].doc /\ no = libReq[r].no /\ back = libReq[r].object
  OBVIOUS
<1>1. CASE CreateDocument(r)
  <2>1. /\ no \in Docs /\ Living = {} /\ Living' = {no}
        /\ docRows'[no].object = no /\ docRows'[no].status = "pending"
        /\ stored' = stored \cup {no} /\ archive' = archive /\ docChunks' = docChunks
        /\ DOMAIN archive[no] = {} /\ docChunks[no] = NoText
    BY <1>1, LoneCreates
  <2>2. stored' = {no}
    BY <2>1 DEF ReachInv
  <2>3. Archived(no)' = {}
    BY <2>1 DEF Archived
  <2>4. \A e \in Docs : \A i \in DOMAIN archive'[e] : archive'[e][i].version = i
    BY <2>1 DEF ReachInv
  <2> QED BY <2>1, <2>2, <2>3, <2>4, ReachOfOne
<1>2. CASE ReplaceDocument(r)
  <2>1. /\ no \in Docs /\ d \in Docs /\ d \in Living /\ Living' = Living
        /\ \A e \in Living : e = d
        /\ docRows[d].object \in Docs
        /\ docRows'[d].object = no /\ docRows'[d].status = "pending"
        /\ archive' = [archive EXCEPT ![d] =
                            WithVersion(archive[d], docRows[d].object, archive[d])]
        /\ stored' = stored \cup {no} /\ docChunks' = docChunks
    BY <1>2, LoneReplaces
  <2>2. /\ Archived(d)' = Archived(d) \cup {docRows[d].object}
        /\ \A e \in Docs : \A i \in DOMAIN archive'[e] : archive'[e][i].version = i
    BY <2>1, ArchivedAfter
  <2>3. /\ docRows[d].object \in stored /\ Archived(d) \subseteq stored
        /\ \A o \in stored : o = docRows[d].object \/ o \in Archived(d)
        /\ docChunks[d] # NoText => docChunks[d].of \in {docRows[d].object} \cup Archived(d)
    BY <2>1 DEF ReachInv
  <2> QED BY <2>1, <2>2, <2>3, ReachOfOne
<1>3. CASE Rollback(r)
  <2>1. /\ d \in Docs /\ d \in Living /\ Living' = Living
        /\ \A e \in Living : e = d
        /\ docRows[d].object \in Docs /\ back \in Archived(d)
        /\ docRows'[d].object = back /\ docRows'[d].status = "pending"
        /\ archive' = [archive EXCEPT ![d] =
                            WithVersion(archive[d], docRows[d].object, archive[d])]
        /\ docChunks'[d] = NoText /\ stored' = stored
    BY <1>3, LoneRollsBack
  <2>2. /\ Archived(d)' = Archived(d) \cup {docRows[d].object}
        /\ \A e \in Docs : \A i \in DOMAIN archive'[e] : archive'[e][i].version = i
    BY <2>1, ArchivedAfter
  <2>3. /\ docRows[d].object \in stored /\ Archived(d) \subseteq stored
        /\ \A o \in stored : o = docRows[d].object \/ o \in Archived(d)
    BY <2>1 DEF ReachInv
  <2> QED BY <2>1, <2>2, <2>3, ReachOfOne
<1>4. ASSUME d \in Docs, d \in Living, Living' = Living, \A e \in Living : e = d,
             docRows'[d].object = docRows[d].object, archive' = archive, stored' = stored,
             docChunks'[d] # NoText =>
                docChunks'[d].of = docRows[d].object
                \/ (docChunks[d] # NoText /\ docChunks'[d].of = docChunks[d].of),
             docRows'[d].status = "vectorized" => docChunks'[d] # NoText
      PROVE  ReachInv'
  <2>1. /\ docRows[d].object \in stored /\ Archived(d) \subseteq stored
        /\ \A o \in stored : o = docRows[d].object \/ o \in Archived(d)
        /\ docChunks[d] # NoText => docChunks[d].of \in {docRows[d].object} \cup Archived(d)
    BY <1>4 DEF ReachInv
  <2>2. Archived(d)' = Archived(d)
    BY <1>4 DEF Archived
  <2>3. \A e \in Docs : \A i \in DOMAIN archive'[e] : archive'[e][i].version = i
    BY <1>4 DEF ReachInv
  <2> QED BY <1>4, <2>1, <2>2, <2>3, ReachOfOne
<1>5. CASE Parse(r)
  BY <1>4, <1>5, LoneParses
<1>6. CASE CommitVectorized(r)
  BY <1>4, <1>6, LoneVectorizes
<1>7. CASE Edit(r)
  BY <1>4, <1>7, LoneEdits
<1>8. CASE DeleteRows(r)
  <2>1. /\ d \in Docs /\ d \in Living /\ \A e \in Living : e = d
        /\ archive' = archive
        /\ \/ docRows' = docRows /\ docChunks' = docChunks /\ stored' = stored
           \/ /\ archive[d] = <<>> /\ Living' = {}
              /\ stored' = stored \ {docRows[d].object}
    BY <1>8, LoneDeletes
  <2>2. CASE docRows' = docRows /\ docChunks' = docChunks /\ stored' = stored
    BY <2>1, <2>2, ReachSame
  <2>3. CASE archive[d] = <<>> /\ Living' = {} /\ stored' = stored \ {docRows[d].object}
    <3>1. Archived(d) = {}
      BY <2>3 DEF Archived
    <3>2. \A o \in stored : o = docRows[d].object
      BY <2>1, <3>1 DEF ReachInv
    <3>3. stored' = {}
      BY <2>3, <3>2
    <3> QED BY <2>1, <2>3, <3>3 DEF ReachInv
  <2> QED BY <2>1, <2>2, <2>3
<1> QED BY <1>1, <1>2, <1>3, <1>5, <1>6, <1>7, <1>8, LoneOthers, ReachSame
\* Without failures, what can be found of the one document there is.
LEMMA TouchedWork ==
    ASSUME LibTypeInv, LibOneInv, NEW r \in Librarians, libReq[r] # NoRequest, NEW e \in Docs
    PROVE  Touched(e) <=>
              /\ libReq[r].doc = e
              /\ \/ libReq[r].op = "vectorize" \/ LibAt(r, "edit", "edited")
                 \/ libReq[r].op = "delete" /\ libReq[r].pc # "begun"
<1>1. \A s \in Librarians \ {r} : libReq[s].doc # e
  BY LoneRequest, NoneYet, LibraryBounds
<1> QED BY <1>1 DEF Touched

\* A request that is none has come nowhere.
LEMMA NobodyChanges == Changed(NoRequest)' /\ \A e \in Docs : NoRequest.doc # e
BY NoneYet, LibraryBounds DEF Changed

\* The parts, when nobody is left at work.
LEMMA NobodyTouches ==
    ASSUME \A s \in Librarians : libReq'[s] = NoRequest
    PROVE  /\ \A s \in Librarians : Changed(libReq[s])'
           /\ \A e \in Docs : ~Touched(e)'
<1>1. \A s \in Librarians : Changed(libReq[s])'
  <2> SUFFICES ASSUME NEW s \in Librarians PROVE Changed(libReq[s])'
    OBVIOUS
  <2>1. libReq'[s] = NoRequest
    OBVIOUS
  <2> QED BY <2>1, NobodyChanges DEF Changed
<1> QED BY <1>1, NobodyChanges DEF Touched

\* Only the request at work touches a document.
LEMMA OneChanges ==
    ASSUME NEW r \in Librarians, \A s \in Librarians \ {r} : libReq'[s] = NoRequest,
           Changed(libReq[r])'
    PROVE  /\ \A s \in Librarians : Changed(libReq[s])'
           /\ \A e \in Docs : Touched(e)' <=>
                 /\ libReq'[r].doc = e
                 /\ \/ libReq'[r].op = "vectorize" \/ LibAt(r, "edit", "edited")'
                    \/ libReq'[r].op = "delete" /\ libReq'[r].pc # "begun"
<1>1. \A s \in Librarians : Changed(libReq[s])'
  <2> SUFFICES ASSUME NEW s \in Librarians \ {r} PROVE Changed(libReq[s])'
    OBVIOUS
  <2>1. libReq'[s] = NoRequest
    OBVIOUS
  <2> QED BY <2>1, NobodyChanges DEF Changed
<1>2. \A s \in Librarians \ {r}, e \in Docs : libReq'[s].doc # e
  BY NobodyChanges
<1> QED BY <1>1, <1>2 DEF Touched, LibAt

\* Beginning a request leaves the indexes as they are.
LEMMA CleanBegun ==
    ASSUME LibTypeInv, LibOneInv, libAlone, FaultFreeInv, NEW r \in Librarians, NEW q, Begun(r, q)
    PROVE  FaultFreeInv'
<1>1. /\ \A s \in Librarians : libReq[s] = NoRequest
      /\ UNCHANGED <<objects, docRows, docChunks, docVectors, triples, edges, wordIndex,
                     savedIndex, stored, spoilt>>
      /\ q.pc = "begun"
  BY DEF Begun, Undisturbed, LibraryQuiet
<1>2. libReq'[r] = q /\ \A s \in Librarians \ {r} : libReq'[s] = NoRequest
  BY OneBegun
<1>3. Changed(libReq[r])'
  BY <1>1, <1>2 DEF Changed
<1>4. \A s \in Librarians : Changed(libReq[s])'
  BY <1>2, <1>3, OneChanges
<1>5. \A e \in Docs : ~Touched(e)
  BY <1>1, NobodyChanges DEF Touched
<1>6. Living' = Living /\ Living \subseteq Docs
  BY <1>1 DEF Living
<1>7. \A o \in objects : o \in stored
  BY <1>1, NoneYet DEF FaultFreeInv, LibAt
<1> QED BY <1>1, <1>4, <1>5, <1>6, <1>7 DEF FaultFreeInv

\* An extraction writes edges whose triples are committed.
LEMMA CleanExtraction ==
    ASSUME LibTypeInv, LibOneInv, libAlone, libFaults' = 0, FaultFreeInv, NEW d \in Docs,
           Extraction(d)
    PROVE  FaultFreeInv'
<1>1. /\ d \in Living
      /\ UNCHANGED <<objects, docRows, docChunks, docVectors, wordIndex, savedIndex, stored,
                     spoilt, libReq>>
  BY OneExtraction
  DEF Extraction, AskExtraction, Extract, WriteTriples, MergeEdges, ExtractionFails, Rows,
      Indexes, LibPast
<1>2. triples \subseteq triples' /\ \A t \in triples' \ triples : t.doc = d
  <2>1. CASE WriteTriples(d)
    BY <2>1 DEF WriteTriples
  <2>2. CASE ~WriteTriples(d)
    BY <2>2 DEF Extraction, AskExtraction, Extract, MergeEdges, ExtractionFails
  <2> QED BY <2>1, <2>2
<1>3. \A f \in FactSet : edges'[f] # 0 => [doc |-> edges'[f], fact |-> f] \in triples'
  <2> SUFFICES ASSUME NEW f \in FactSet, edges'[f] # 0
               PROVE  [doc |-> edges'[f], fact |-> f] \in triples'
    OBVIOUS
  <2>1. edges'[f] = edges[f] \/ (edges'[f] = d /\ MergeEdges(d) /\ f \in kgJobs[d].found)
    BY DEF Extraction, AskExtraction, Extract, WriteTriples, MergeEdges, ExtractionFails
  <2>2. CASE edges'[f] = edges[f]
    BY <1>2, <2>2 DEF FaultFreeInv
  <2>3. CASE edges'[f] = d /\ MergeEdges(d) /\ f \in kgJobs[d].found
    BY <1>2, <2>3 DEF MergeEdges, LibOneInv
  <2> QED BY <2>1, <2>2, <2>3
<1>4. Living' = Living
  BY <1>1 DEF Living
<1>5. \A e \in Docs \ Living' : docVectors'[e] = {} /\ \A t \in triples' : t.doc # e
  BY <1>1, <1>2, <1>4 DEF FaultFreeInv
<1>6. /\ \A r \in Librarians : libReq[r] = NoRequest
  <2>1. AskExtraction(d) \/ kgJobs[d] # NoJob
    <3>1. NoJob.pc = "none"
      BY DEF NoJob
    <3> QED BY <3>1 DEF Extraction, Extract, WriteTriples, MergeEdges, ExtractionFails
  <2> QED BY <2>1 DEF AskExtraction, Undisturbed, LibraryQuiet, LibOneInv
<1>7. \A r \in Librarians : libReq'[r] = NoRequest
  BY <1>1, <1>6
<1>8. (\A s \in Librarians : Changed(libReq[s])') /\ \A e \in Docs : ~Touched(e)
  BY <1>6, <1>7, NobodyTouches, NobodyChanges DEF Touched
<1>9. \A e \in Docs : ~Touched(e)'
  BY <1>7, NobodyTouches
<1>10. Living \subseteq Docs
  BY DEF Living
<1>11. \A o \in objects : o \in stored
  BY <1>6, NoneYet DEF FaultFreeInv, LibAt
<1> QED BY <1>1, <1>3, <1>4, <1>5, <1>8, <1>9, <1>10, <1>11 DEF FaultFreeInv
\* The parts that hold once the request at work has left.
LEMMA CleanLeft ==
    ASSUME LibTypeInv, FaultFreeInv, \A s \in Librarians : libReq'[s] = NoRequest,
           savedIndex' = wordIndex'.texts,
           \A d \in Living' \ spoilt' : docRows'[d].status = "vectorized" =>
              /\ docVectors'[d] = {Says(docChunks'[d])}
              /\ wordIndex'.texts = {} \/ wordIndex'.dirty
                 \/ Says(docChunks'[d]) \in wordIndex'.texts,
           objects' \subseteq stored',
           wordIndex'.dirty \/ \A t \in wordIndex'.texts : t.of \in stored',
           \A d \in Docs \ Living' : docVectors'[d] = {} /\ \A t \in triples' : t.doc # d,
           \A f \in FactSet : edges'[f] # 0 => [doc |-> edges'[f], fact |-> f] \in triples'
    PROVE  FaultFreeInv'
<1>1. \A s \in Librarians : Changed(libReq[s])'
  BY NobodyTouches
<1>2. \A e : Says(docChunks[e])' = Says(docChunks'[e])
  BY DEF Says
<1> QED BY <1>1, <1>2 DEF FaultFreeInv

\* While a request works on the one document there is.
LEMMA CleanGoes ==
    ASSUME LibTypeInv, FaultFreeInv, NEW r \in Librarians,
           \A s \in Librarians \ {r} : libReq'[s] = NoRequest,
           NEW d \in Docs, libReq'[r].doc = d, d \in Living, \A e \in Living : e = d,
           Living' = Living,
           \/ libReq'[r].op = "vectorize" \/ LibAt(r, "edit", "edited")'
           \/ libReq'[r].op = "delete" /\ libReq'[r].pc # "begun",
           Changed(libReq[r])', UNCHANGED <<wordIndex, savedIndex, stored, triples>>,
           objects' \subseteq stored,
           \A e \in Docs \ {d} : docVectors'[e] = docVectors[e],
           \A f \in FactSet : edges'[f] # 0 => edges'[f] = edges[f]
    PROVE  FaultFreeInv'
<1>1. (\A s \in Librarians : Changed(libReq[s])') /\ Touched(d)'
  BY OneChanges
<1>2. \A e \in Docs \ Living' : docVectors'[e] = {} /\ \A t \in triples' : t.doc # e
  BY DEF FaultFreeInv
<1>3. \A f \in FactSet : edges'[f] # 0 => [doc |-> edges'[f], fact |-> f] \in triples'
  BY DEF FaultFreeInv
<1>4. \A e \in Living' : Touched(e)'
  BY <1>1
<1> QED BY <1>1, <1>2, <1>3, <1>4 DEF FaultFreeInv

\* A lone request that nothing disturbs leaves the indexes true to the document.
LEMMA CleanWork ==
    ASSUME LibTypeInv, NamesInv, ChunksHaveADocument, LibOneInv, ReachInv, FaultFreeInv,
           NEW r \in Librarians, Work(r), libFaults = 0, libFaults' = 0
    PROVE  FaultFreeInv'
<1> PICK d, no, me : d = libReq[r].doc /\ no = libReq[r].no /\ me = libReq[r]
  OBVIOUS
<1>0. ~LibFault
  BY DEF LibFault
<1>1. /\ libReq[r] # NoRequest /\ no \in Docs
      /\ \A s \in Librarians \ {r} : libReq'[s] = NoRequest
      /\ \A e, f \in Living : e = f
      /\ Living \subseteq Docs
  BY WorkGoesOn, LoneRequest, LivingRow
<1>2. Leaves(r) => \A s \in Librarians : libReq'[s] = NoRequest
  BY <1>1, LoneLeaves
<1>3. /\ savedIndex = wordIndex.texts
      /\ wordIndex.dirty \/ \A t \in wordIndex.texts : t.of \in stored
      /\ \A e \in Docs \ Living : docVectors[e] = {} /\ \A t \in triples : t.doc # e
      /\ \A f \in FactSet : edges[f] # 0 => [doc |-> edges[f], fact |-> f] \in triples
      /\ Changed(me)
      /\ docVectors \in [Docs -> SUBSET Said]
  BY DEF FaultFreeInv, LibTypeInv
<1>4. LibAt(r, "upload", "stored") \/ objects \subseteq stored
  <2> SUFFICES ASSUME NEW o \in objects, o \notin stored PROVE LibAt(r, "upload", "stored")
    OBVIOUS
  <2>1. PICK s \in Librarians : LibAt(s, "upload", "stored")
    BY DEF FaultFreeInv
  <2>2. libReq[s] # NoRequest
    BY <2>1, NoneYet DEF LibAt
  <2> QED BY <1>1, <2>1, <2>2, LoneRequest
<1>5. LibAt(r, "upload", "stored") => objects \subseteq stored \cup {no}
  <2> SUFFICES ASSUME NEW o \in objects, o \notin stored PROVE o = no
    OBVIOUS
  <2>1. PICK s \in Librarians : LibAt(s, "upload", "stored") /\ libReq[s].no = o
    BY DEF FaultFreeInv
  <2>2. libReq[s] # NoRequest
    BY <2>1, NoneYet DEF LibAt
  <2> QED BY <1>1, <2>1, <2>2, LoneRequest
<1>6. CASE PutObject(r)
  <2>1. /\ Goes(r, "stored") /\ objects' = objects \cup {no} /\ LibAt(r, "upload", "begun")
        /\ UNCHANGED <<docRows, archive, docChunks, docVectors, triples, edges, wordIndex,
                       savedIndex, stored, spoilt>>
    BY <1>6 DEF PutObject, Rows, Graph, Indexes, LibPast
  <2>2. libReq'[r].op = "upload" /\ libReq'[r].pc = "stored" /\ libReq'[r].no = no
        /\ libReq'[r].doc = d
    BY <1>1, <2>1, LoneGoes DEF LibAt, LibPlaces
  <2>3. Changed(libReq[r])'
    BY <2>2 DEF Changed
  <2>4. (\A s \in Librarians : Changed(libReq[s])') /\ \A e \in Docs : ~Touched(e)'
    BY <1>1, <2>2, <2>3, OneChanges DEF LibAt
  <2>5. \A e \in Docs : ~Touched(e)
    BY <1>1, <2>1, TouchedWork DEF LibAt
  <2>6. Living' = Living
    BY <2>1 DEF Living
  <2>7. \A o \in objects' : o \in stored' \/ (LibAt(r, "upload", "stored")' /\ libReq'[r].no = o)
    BY <1>4, <2>1, <2>2 DEF LibAt
  <2> QED BY <1>1, <1>3, <2>1, <2>4, <2>5, <2>6, <2>7 DEF FaultFreeInv
<1>7. CASE CreateDocument(r)
  <2>1. /\ Living = {} /\ Living' = {no} /\ docRows'[no].status = "pending"
        /\ stored' = stored \cup {no}
    BY <1>7, LoneCreates
  <2>2. /\ UNCHANGED <<objects, docVectors, triples, edges, wordIndex, savedIndex>>
        /\ Leaves(r) /\ LibAt(r, "upload", "stored")
    BY <1>7 DEF CreateDocument, Graph, Indexes
  <2> QED BY <1>2, <1>3, <1>5, <2>1, <2>2, CleanLeft
<1>8. CASE ReplaceDocument(r)
  <2>1. /\ Living' = Living /\ d \in Living /\ docRows'[d].status = "pending"
        /\ stored' = stored \cup {no}
    BY <1>8, LoneReplaces
  <2>2. /\ UNCHANGED <<objects, docVectors, triples, edges, wordIndex, savedIndex>>
        /\ Leaves(r) /\ LibAt(r, "upload", "stored")
    BY <1>8 DEF ReplaceDocument, Graph, Indexes
  <2> QED BY <1>1, <1>2, <1>3, <1>5, <2>1, <2>2, CleanLeft
<1>9. CASE Parse(r)
  <2>1. /\ Living' = Living /\ d \in Living /\ docRows'[d].status = "parsed"
        /\ stored' = stored
    BY <1>9, LoneParses
  <2>2. /\ UNCHANGED <<objects, docVectors, triples, edges, wordIndex, savedIndex>>
        /\ Leaves(r) /\ ~LibAt(r, "upload", "stored")
    BY <1>9 DEF Parse, Graph, Indexes, LibAt
  <2> QED BY <1>1, <1>2, <1>3, <1>4, <2>1, <2>2, CleanLeft
<1>10. CASE Rollback(r)
  <2>1. /\ Living' = Living /\ d \in Living /\ d \in Docs /\ docRows'[d].status = "pending"
        /\ stored' = stored
    BY <1>10, LoneRollsBack
  <2>2. /\ UNCHANGED <<objects, triples, edges, wordIndex, savedIndex>>
        /\ docVectors' = [docVectors EXCEPT ![d] = {}]
        /\ Leaves(r) /\ ~LibAt(r, "upload", "stored")
    BY <1>0, <1>10 DEF Rollback, Graph, Indexes, LibAt
  <2>3. \A e \in Docs \ Living' : docVectors'[e] = {} /\ \A t \in triples' : t.doc # e
    BY <1>3, <2>1, <2>2
  <2> QED BY <1>1, <1>2, <1>3, <1>4, <2>1, <2>2, <2>3, CleanLeft
<1>11. CASE CommitVectorized(r)
  <2>1. /\ Living' = Living /\ d \in Living /\ d \in Docs /\ docChunks' = docChunks
        /\ stored' = stored /\ IndexDirty
    BY <1>11, LoneVectorizes
  <2>2. /\ UNCHANGED <<objects, docVectors, triples, edges, savedIndex>>
        /\ Leaves(r) /\ ~LibAt(r, "upload", "stored")
        /\ me.op = "vectorize" /\ me.pc = "inserted"
    BY <1>11 DEF CommitVectorized, LibAt
  <2>3. docVectors'[d] = {Says(docChunks'[d])}
    BY <1>3, <2>1, <2>2 DEF Changed
  <2>4. wordIndex'.dirty /\ wordIndex'.texts = wordIndex.texts
    BY <2>1 DEF IndexDirty, LibTypeInv
  <2> QED BY <1>1, <1>2, <1>3, <1>4, <2>1, <2>2, <2>3, <2>4, CleanLeft
<1>12. CASE EnsureBuilt(r)
  <2>1. /\ UNCHANGED <<objects, docRows, docChunks, docVectors, triples, edges, stored, spoilt>>
        /\ Leaves(r) /\ LibAt(r, "search", "begun")
    BY <1>12 DEF EnsureBuilt, Rows, Graph, LibPast
  <2>2. Living' = Living
    BY <2>1 DEF Living
  <2>3. \A e \in Docs : ~Touched(e)
    BY <1>1, <2>1, TouchedWork DEF LibAt
  <2>4. me.seen = Corpus
    BY <1>1, <2>1, LoneRequest DEF LibAt, Current
  <2>5. \/ wordIndex.texts # {} /\ ~wordIndex.dirty /\ UNCHANGED <<wordIndex, savedIndex>>
        \/ savedIndex' = Corpus /\ wordIndex' = [texts |-> Corpus, dirty |-> FALSE]
    BY <1>3, <1>12, <2>4, IndexBuilt
  <2>6. \A e \in Living : docRows[e].status = "vectorized" => Says(docChunks[e]) \in Corpus
    BY CorpusSays DEF ReachInv
  <2>7. \A t \in Corpus : t.of \in stored
    <3> SUFFICES ASSUME NEW t \in Corpus PROVE t.of \in stored
      OBVIOUS
    <3>1. PICK e \in Living : docChunks[e] # NoText /\ t = Says(docChunks[e])
      BY CorpusSays
    <3>2. t.of = docChunks[e].of
      BY <1>1, <3>1, SaysWhat
    <3>3. docChunks[e].of \in {docRows[e].object} \cup Archived(e)
          /\ docRows[e].object \in stored /\ Archived(e) \subseteq stored
      BY <3>1 DEF ReachInv
    <3> QED BY <3>2, <3>3
  <2>8. \A e \in Living \ spoilt : docRows[e].status = "vectorized" =>
              /\ docVectors[e] = {Says(docChunks[e])}
              /\ wordIndex.texts = {} \/ wordIndex.dirty \/ Says(docChunks[e]) \in wordIndex.texts
    BY <1>1, <2>3 DEF FaultFreeInv
  <2>9. /\ savedIndex' = wordIndex'.texts
        /\ \A t \in wordIndex'.texts : t.of \in stored
        /\ \A e \in Living \ spoilt : docRows[e].status = "vectorized" =>
              Says(docChunks[e]) \in wordIndex'.texts
    BY <1>3, <2>5, <2>6, <2>7, <2>8
  <2>10. \A e : Says(docChunks'[e]) = Says(docChunks[e])
    BY <2>1
  <2>11. objects \subseteq stored
    BY <1>4, <2>1 DEF LibAt
  <2> QED BY <1>2, <1>3, <2>1, <2>2, <2>8, <2>9, <2>10, <2>11, CleanLeft
<1>13. CASE DeleteRows(r)
  <2>1. /\ d \in Docs /\ d \in Living /\ \A e \in Living : e = d
        /\ me.row = docRows[d] /\ me.op = "delete" /\ me.pc = "unlinked"
        /\ \/ UNCHANGED <<docRows, docChunks, triples, wordIndex, stored>> /\ d \in spoilt'
           \/ /\ Living' = {} /\ IndexDirty
              /\ stored' = stored \ {docRows[d].object}
              /\ triples' = {t \in triples : t.doc # d}
    BY <1>13, LoneDeletes
  <2>2. UNCHANGED <<objects, docVectors, edges, savedIndex>> /\ Leaves(r)
    BY <1>13 DEF DeleteRows
  <2>3. /\ docVectors[d] = {} /\ docRows[d].object \notin objects
        /\ \A f \in FactSet : edges[f] # d
    BY <1>3, <2>1 DEF Changed
  <2>4. objects \subseteq stored
    BY <1>4, <2>1 DEF LibAt
  <2>5. CASE UNCHANGED <<docRows, docChunks, triples, wordIndex, stored>> /\ d \in spoilt'
    <3>1. Living' = Living
      BY <2>5 DEF Living
    <3> QED BY <1>2, <1>3, <2>1, <2>2, <2>4, <2>5, <3>1, CleanLeft
  <2>6. CASE /\ Living' = {} /\ IndexDirty
             /\ stored' = stored \ {docRows[d].object}
             /\ triples' = {t \in triples : t.doc # d}
    <3>1. wordIndex'.dirty /\ wordIndex'.texts = wordIndex.texts
      BY <2>6 DEF IndexDirty, LibTypeInv
    <3>2. \A e \in Docs : docVectors'[e] = {} /\ \A t \in triples' : t.doc # e
      BY <1>3, <2>1, <2>2, <2>3, <2>6
    <3>3. \A f \in FactSet : edges'[f] # 0 => [doc |-> edges'[f], fact |-> f] \in triples'
      BY <1>3, <2>2, <2>3, <2>6
    <3>4. objects' \subseteq stored'
      BY <2>2, <2>3, <2>4, <2>6
    <3> QED BY <1>2, <1>3, <2>2, <2>6, <3>1, <3>2, <3>3, <3>4, CleanLeft
  <2> QED BY <2>1, <2>5, <2>6
<1>14. CASE Edit(r)
  <2>1. /\ d \in Docs /\ d \in Living /\ Living' = Living /\ \A e \in Living : e = d
        /\ libReq'[r].op = "edit" /\ libReq'[r].pc = "edited" /\ libReq'[r].doc = d
    BY <1>14, LoneEdits
  <2>2. /\ UNCHANGED <<objects, docVectors, triples, edges, wordIndex, savedIndex, stored>>
        /\ ~LibAt(r, "upload", "stored")
    BY <1>14 DEF Edit, Graph, Indexes, LibPast, LibAt
  <2>3. Changed(libReq[r])' /\ LibAt(r, "edit", "edited")'
    BY <2>1 DEF Changed, LibAt
  <2> QED BY <1>1, <1>4, <2>1, <2>2, <2>3, CleanGoes
<1>15. CASE Revectorize(r)
  <2>1. /\ d \in Docs /\ d \in Living /\ \A e \in Living : e = d
        /\ libReq'[r].op = "vectorize" /\ libReq'[r].pc = "begun" /\ libReq'[r].doc = d
    BY <1>15, LoneRevectorizes
  <2>2. /\ UNCHANGED <<docRows, objects, docVectors, triples, edges, wordIndex, savedIndex, stored>>
        /\ ~LibAt(r, "upload", "stored")
    BY <1>15 DEF Revectorize, Rows, Graph, Indexes, LibPast, LibAt
  <2>3. Changed(libReq[r])' /\ Living' = Living
    BY <2>1, <2>2 DEF Changed, Living
  <2> QED BY <1>1, <1>4, <2>1, <2>2, <2>3, CleanGoes
<1>16. ASSUME NEW pc \in LibPlaces \ {"idle"}, Goes(r, pc),
              UNCHANGED <<docRows, archive, docChunks>>,
              libReq[r].op \in {"vectorize", "delete"}
       PROVE  /\ d \in Docs /\ d \in Living /\ Living' = Living /\ \A e \in Living : e = d
              /\ libReq'[r].doc = d /\ libReq'[r].op = libReq[r].op /\ libReq'[r].pc = pc
              /\ libReq'[r].row = libReq[r].row
              /\ libReq[r].op = "vectorize" => libReq[r].text = docChunks[d]
  <2>1. Living' = Living
    BY <1>16 DEF Living
  <2> QED BY <1>1, <1>16, <2>1, LoneGoes, LoneRead
<1>17. CASE ClearVectors(r)
  <2>1. /\ libReq[r].op = "vectorize" /\ Goes(r, "cleared")
        /\ docVectors' = [docVectors EXCEPT ![d] = {}]
        /\ UNCHANGED <<docRows, archive, docChunks, objects, triples, edges, wordIndex,
                       savedIndex, stored>>
    BY <1>17 DEF ClearVectors, Rows, Graph, Indexes, LibPast, LibAt
  <2>2. /\ d \in Docs /\ d \in Living /\ Living' = Living /\ \A e \in Living : e = d
        /\ libReq'[r].doc = d /\ libReq'[r].op = "vectorize" /\ libReq'[r].pc = "cleared"
    BY <1>16, <2>1 DEF LibPlaces
  <2>3. Changed(libReq[r])'
    BY <1>3, <2>1, <2>2 DEF Changed
  <2>4. objects' \subseteq stored
    BY <1>4, <2>1 DEF LibAt
  <2> QED BY <1>1, <1>3, <2>1, <2>2, <2>3, <2>4, CleanGoes
<1>18. CASE InsertVectors(r)
  <2>1. /\ libReq[r].op = "vectorize" /\ libReq[r].pc = "cleared" /\ Goes(r, "inserted")
        /\ docVectors' = [docVectors EXCEPT ![d] = @ \cup {Says(libReq[r].text)}]
        /\ UNCHANGED <<docRows, archive, docChunks, objects, triples, edges, wordIndex,
                       savedIndex, stored>>
    BY <1>18 DEF InsertVectors, Rows, Graph, Indexes, LibPast, LibAt
  <2>2. /\ d \in Docs /\ d \in Living /\ Living' = Living /\ \A e \in Living : e = d
        /\ libReq'[r].doc = d /\ libReq'[r].op = "vectorize" /\ libReq'[r].pc = "inserted"
        /\ libReq[r].text = docChunks[d]
    BY <1>16, <2>1 DEF LibPlaces
  <2>3. docVectors'[d] = {Says(docChunks'[d])}
    <3>1. docVectors[d] = {}
      BY <1>3, <2>1 DEF Changed
    <3>2. docVectors'[d] = {Says(docChunks[d])}
      BY <1>3, <2>1, <2>2, <3>1
    <3> QED BY <2>1, <3>2
  <2>4. Changed(libReq[r])'
    <3>1. Says(docChunks[d])' = Says(docChunks'[d])
      BY DEF Says
    <3> QED BY <2>2, <2>3, <3>1 DEF Changed
  <2>5. objects' \subseteq stored
    BY <1>4, <2>1 DEF LibAt
  <2> QED BY <1>1, <1>3, <2>1, <2>2, <2>4, <2>5, CleanGoes
<1>19. CASE Strip(r)
  <2>1. /\ libReq[r].op = "delete" /\ Goes(r, "stripped")
        /\ objects' = objects \ {libReq[r].row.object}
        /\ docVectors' = [docVectors EXCEPT ![d] = {}]
        /\ UNCHANGED <<docRows, archive, docChunks, triples, edges, wordIndex,
                       savedIndex, stored>>
    BY <1>0, <1>19 DEF Strip, Rows, Graph, Indexes, LibPast, LibAt
  <2>2. /\ d \in Docs /\ d \in Living /\ Living' = Living /\ \A e \in Living : e = d
        /\ libReq'[r].doc = d /\ libReq'[r].op = "delete" /\ libReq'[r].pc = "stripped"
        /\ libReq'[r].row = libReq[r].row
    BY <1>16, <2>1 DEF LibPlaces
  <2>3. Changed(libReq[r])'
    BY <1>3, <2>1, <2>2 DEF Changed
  <2>4. objects' \subseteq stored
    BY <1>4, <2>1 DEF LibAt
  <2> QED BY <1>1, <1>3, <2>1, <2>2, <2>3, <2>4, CleanGoes
<1>20. CASE Unlink(r)
  <2>1. /\ libReq[r].op = "delete" /\ libReq[r].pc = "stripped" /\ Goes(r, "unlinked")
        /\ edges' = [f \in FactSet |-> IF edges[f] = d THEN 0 ELSE edges[f]]
        /\ UNCHANGED <<docRows, archive, docChunks, docVectors, objects, triples, wordIndex,
                       savedIndex, stored>>
    BY <1>0, <1>20 DEF Unlink, Rows, Indexes, LibPast, LibAt
  <2>2. /\ d \in Docs /\ d \in Living /\ Living' = Living /\ \A e \in Living : e = d
        /\ libReq'[r].doc = d /\ libReq'[r].op = "delete" /\ libReq'[r].pc = "unlinked"
        /\ libReq'[r].row = libReq[r].row
    BY <1>16, <2>1 DEF LibPlaces
  <2>3. docVectors[d] = {} /\ libReq[r].row.object \notin objects
    BY <1>3, <2>1 DEF Changed
  <2>4. d # 0
    BY <2>2, LibraryBounds
  <2>5. Changed(libReq[r])'
    BY <2>1, <2>2, <2>3, <2>4 DEF Changed
  <2>6. objects' \subseteq stored
    BY <1>4, <2>1 DEF LibAt
  <2>7. \A f \in FactSet : edges'[f] # 0 => edges'[f] = edges[f]
    BY <2>1
  <2> QED BY <1>1, <1>3, <2>1, <2>2, <2>5, <2>6, <2>7, CleanGoes
<1>21. ~RollbackFails(r) /\ ~RequestFails(r)
  BY <1>0 DEF RollbackFails, RequestFails
<1> QED
  BY <1>6, <1>7, <1>8, <1>9, <1>10, <1>11, <1>12, <1>13, <1>14, <1>15, <1>17, <1>18, <1>19,
     <1>20, <1>21, LoneOthers

\* What one request at a time means is inductive, given the rest.
LEMMA LibAloneStep ==
    ASSUME LibTypeInv, NamesInv, ChunksHaveADocument, LibAloneInv, LibraryNext
    PROVE  LibAloneInv'
<1>1. libFaults \in Nat /\ libAlone \in BOOLEAN
  BY DEF LibTypeInv
<1>2. SUFFICES ASSUME libAlone'
               PROVE  LibOneInv' /\ ReachInv' /\ (libFaults' = 0 => FaultFreeInv')
  BY DEF LibAloneInv
<1>3. ASSUME NEW r \in Librarians, NEW q, Begun(r, q)
      PROVE  LibOneInv' /\ ReachInv' /\ (libFaults' = 0 => FaultFreeInv')
  <2>1. /\ libAlone /\ libFaults' = libFaults
        /\ UNCHANGED <<docRows, archive, docChunks, stored>>
    BY <1>2, <1>3 DEF Begun
  <2>2. LibOneInv /\ ReachInv /\ (libFaults = 0 => FaultFreeInv)
    BY <2>1 DEF LibAloneInv
  <2> QED BY <1>3, <2>1, <2>2, OneBegun, ReachSame, CleanBegun
<1>4. ASSUME NEW r \in Librarians, Work(r)
      PROVE  LibOneInv' /\ ReachInv' /\ (libFaults' = 0 => FaultFreeInv')
  <2>1. libAlone
    BY <1>2, <1>4, WorkGoesOn
  <2>2. LibOneInv /\ ReachInv /\ (libFaults = 0 => FaultFreeInv)
    BY <2>1 DEF LibAloneInv
  <2>3. libFaults' = libFaults \/ libFaults' = libFaults + 1
    BY <1>4
    DEF Work, PutObject, CreateDocument, ReplaceDocument, RefuseUpload, Parse, ClearVectors,
        InsertVectors, CommitVectorized, Edit, Revectorize, Rollback, RollbackFails, Strip,
        Unlink, DeleteRows, EnsureBuilt, RequestFails, LibFault, LibCounts
  <2>4. libFaults' = 0 => libFaults = 0
    BY <1>1, <2>3
  <2> QED BY <1>4, <2>2, <2>4, OneWork, ReachWork, CleanWork
<1>5. ASSUME NEW d \in Docs, Extraction(d)
      PROVE  LibOneInv' /\ ReachInv' /\ (libFaults' = 0 => FaultFreeInv')
  <2>1. libAlone
    BY <1>2, <1>5, ExtractionTyped
  <2>2. LibOneInv /\ ReachInv /\ (libFaults = 0 => FaultFreeInv)
    BY <2>1 DEF LibAloneInv
  <2>3. /\ libFaults' = libFaults \/ libFaults' = libFaults + 1
        /\ UNCHANGED <<docRows, archive, docChunks, stored>>
    BY <1>5
    DEF Extraction, AskExtraction, Extract, WriteTriples, MergeEdges, ExtractionFails, LibFault,
        LibCounts, Rows, LibPast
  <2>4. libFaults' = 0 => libFaults = 0
    BY <1>1, <2>3
  <2> QED BY <1>5, <2>1, <2>2, <2>3, <2>4, OneExtraction, ReachSame, CleanExtraction
<1>6. CASE LibraryRestart
  <2>1. /\ libAlone /\ libFaults' = libFaults + 1
        /\ UNCHANGED <<docRows, archive, docChunks, stored>>
    BY <1>2, <1>6 DEF LibraryRestart, LibFault, Rows
  <2>2. LibOneInv /\ ReachInv /\ libFaults' # 0
    BY <1>1, <2>1 DEF LibAloneInv
  <2> QED BY <1>6, <2>1, <2>2, OneRestart, ReachSame
<1> QED BY <1>3, <1>4, <1>5, <1>6, LibSteps

\* An empty library satisfies the invariant.
LEMMA LibInitially == LibraryInit => LibInv
<1> SUFFICES ASSUME LibraryInit PROVE LibInv
  OBVIOUS
<1>1. /\ \A r \in Librarians : libReq[r] = NoRequest
      /\ \A d \in Docs : /\ kgJobs[d] = NoJob /\ docRows[d] = NoDoc /\ archive[d] = <<>>
                         /\ docChunks[d] = NoText /\ docVectors[d] = {}
      /\ objects = {} /\ stored = {} /\ spoilt = {} /\ triples = {}
      /\ wordIndex.texts = {} /\ wordIndex.dirty = FALSE /\ savedIndex = {}
      /\ \A f \in FactSet : edges[f] = 0
  BY DEF LibraryInit
<1>2. LibTypeInv
  BY LibTypesInit
<1>3. Living = {}
  BY <1>1 DEF Living
<1>4. \A o, d \in Docs : ~Names(o, d)
  BY <1>1, NoneYet, LibraryBounds DEF Names
<1>5. NamesInv /\ ThereInv /\ ChunksHaveADocument
  BY <1>1, <1>3, <1>4, NoneYet DEF NamesInv, ThereInv, ChunksHaveADocument, LibAt
<1>6. LibOneInv
  <2>1. NoJob.pc # "written"
    BY DEF NoJob
  <2>2. \A r \in Librarians : Current(libReq[r])
    BY <1>1, NobodyIsCurrent
  <2> QED BY <1>1, <1>3, <2>1, <2>2 DEF LibOneInv
<1>7. ReachInv
  BY <1>1, <1>3 DEF ReachInv
<1>8. FaultFreeInv
  <2>1. \A r \in Librarians : Changed(libReq[r])
    BY <1>1, NoneYet DEF Changed
  <2> QED BY <1>1, <1>3, <2>1 DEF FaultFreeInv
<1> QED BY <1>2, <1>5, <1>6, <1>7, <1>8 DEF LibInv, LibAloneInv

\* Every step keeps it.
LEMMA LibInductive == LibInv /\ [LibraryNext]_libVars => LibInv'
<1> SUFFICES ASSUME LibInv, [LibraryNext]_libVars PROVE LibInv'
  OBVIOUS
<1>1. LibTypeInv /\ NamesInv /\ ThereInv /\ ChunksHaveADocument /\ LibAloneInv
  BY DEF LibInv
<1>2. LibTypeInv'
  BY <1>1, LibTypeStep
<1>3. CASE LibraryNext
  BY <1>1, <1>2, <1>3, NamesStep, ThereStep, ChunksStep, LibAloneStep DEF LibInv
<1>4. CASE UNCHANGED libVars
  <2>1. UNCHANGED <<objects, docRows, archive, docChunks, docVectors, triples, edges, wordIndex,
             savedIndex, libReq, kgJobs, stored, spoilt, libOps, libFaults, libAlone>>
    BY <1>4 DEF libVars
  <2>2. NamesInv' /\ ThereInv' /\ ChunksHaveADocument'
    BY <1>1, <2>1
    DEF NamesInv, Names, ThereInv, Living, Deleting, LibAt, ChunksHaveADocument
  <2>3. LibOneInv' = LibOneInv
    BY <2>1 DEF LibOneInv, Living, Current, Archived, Corpus
  <2>4. ReachInv' = ReachInv
    BY <2>1 DEF ReachInv, Living, Archived
  <2>5. FaultFreeInv' = FaultFreeInv
    BY <2>1 DEF FaultFreeInv, Living, Touched, Changed, LibAt
  <2>6. LibAloneInv'
    BY <1>1, <2>1, <2>3, <2>4, <2>5 DEF LibAloneInv
  <2> QED BY <1>2, <2>2, <2>6 DEF LibInv
<1> QED BY <1>3, <1>4

\* The invariant says more than what is kept.
LEMMA LibImplies == LibInv => LibraryKept
<1> SUFFICES ASSUME LibInv PROVE LibraryKept
  OBVIOUS
<1>1. LibTypeInv /\ ThereInv /\ ChunksHaveADocument /\ LibAloneInv
  BY DEF LibInv
<1>2. NothingIsLost
  BY <1>1 DEF NothingIsLost, LibAloneInv, ReachInv
<1>3. VersionsAreDistinct
  BY <1>1 DEF VersionsAreDistinct, LibAloneInv, ReachInv
<1>4. ObjectsAreThere
  <2> SUFFICES ASSUME NEW d \in Living, d \notin spoilt \cup Deleting,
                      NEW o \in {docRows[d].object} \cup Archived(d)
               PROVE  o \in objects
    BY DEF ObjectsAreThere
  <2>1. o \in Docs /\ Names(o, d)
    BY <1>1, LivingRow, NamedBy
  <2> QED BY <1>1, <2>1 DEF ThereInv
<1>5. ASSUME libAlone, libFaults = 0, LibraryQuiet
      PROVE  FaultFreeInv /\ \A e \in Docs : ~Touched(e)
  BY <1>1, <1>5, NobodyChanges DEF LibAloneInv, Touched, LibraryQuiet
<1>6. VectorizedIsSearchable
  <2> SUFFICES ASSUME libAlone, libFaults = 0, LibraryQuiet, NEW d \in Living \ spoilt,
                      docRows[d].status = "vectorized"
               PROVE  /\ docVectors[d] = {Says(docChunks[d])}
                      /\ \/ wordIndex.texts = {} \/ wordIndex.dirty
                         \/ Says(docChunks[d]) \in wordIndex.texts
    BY DEF VectorizedIsSearchable
  <2>1. d \in Docs /\ FaultFreeInv /\ ~Touched(d)
    BY <1>5, LivingRow, <1>1
  <2> QED BY <2>1 DEF FaultFreeInv
<1>7. DeletedLeavesNothing
  <2> SUFFICES ASSUME libAlone, libFaults = 0, LibraryQuiet
               PROVE  /\ objects \subseteq stored
                      /\ wordIndex.dirty \/ {t.of : t \in wordIndex.texts} \subseteq stored
                      /\ \A d \in Docs \ Living :
                            docVectors[d] = {} /\ \A t \in triples : t.doc # d
    BY DEF DeletedLeavesNothing
  <2>1. FaultFreeInv
    BY <1>5
  <2>2. \A r \in Librarians : ~LibAt(r, "upload", "stored")
    BY NoneYet DEF LibraryQuiet, LibAt
  <2> QED BY <2>1, <2>2 DEF FaultFreeInv
<1>8. EdgesAreTraceable
  BY <1>1 DEF EdgesAreTraceable, LibAloneInv, FaultFreeInv
<1> QED BY <1>1, <1>2, <1>3, <1>4, <1>6, <1>7, <1>8 DEF LibraryKept

\* Of the library: one request at a time loses no object and numbers the versions, an object
\* of a living document is there, chunks have a document; and what nothing disturbs can be
\* searched when it is shown as vectorized, leaves nothing when deleted, and is traceable.
THEOREM LibrariesKept == LibrarySpec => []LibraryKept
<1>1. LibrarySpec => []LibInv
  BY LibInitially, LibInductive, PTL DEF LibrarySpec
<1>2. LibInv => LibraryKept
  BY LibImplies
<1> QED BY <1>1, <1>2, PTL
=============================================================================
