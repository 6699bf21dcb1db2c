--------------------------- MODULE SemanticIndex ---------------------------
(***************************************************************************)
(* The level between Redis and the table: an index of the questions whose  *)
(* answers Redis keeps, so that a question is answered with the answer of  *)
(* one that is nearly the same.  The index of a tenant is one value; who   *)
(* adds a question reads it, changes it and writes it back, behind a lock  *)
(* that his process has to itself.                                         *)
(***************************************************************************)
EXTENDS Naturals, FiniteSetsExt

CONSTANTS
    Seekers,          \* requests under way
    Homes,            \* processes
    Phrasings,         \* what is asked
    Likeness,         \* Likeness[<<w, v>>]: how near two wordings are, in hundredths
    SemModels,        \* models that may be asked for
    IndexLimit, KeptOnFull,   \* entries of the index, and how many stay if it is full
    MaxSought,        \* bound: questions asked
    MaxSemUpsets      \* bound: entries gone, withdrawals, bars and failures

\* Nearer than this is near; what is nearer than 92 is tried first, and then once more.
Medium == 85

NobodyInside == "free"

ASSUME SemanticAssumption ==
    /\ NobodyInside \notin Seekers
    /\ \A w, v \in Phrasings : Likeness[<<w, v>>] \in 0..100
    /\ \A w \in Phrasings : Likeness[<<w, w>>] = 100
    /\ KeptOnFull \in Nat /\ IndexLimit \in Nat /\ KeptOnFull < IndexLimit
    /\ MaxSought \in Nat /\ MaxSemUpsets \in Nat

VARIABLES
    homeOf,           \* homeOf[r]: the process that works on request r
    semRedis,         \* semRedis[key]: is there an answer in Redis, and does it cite "d"?
    semIndex,         \* the index: its entries; where they stand in it tells nothing apart
    semLock,          \* semLock[h]: who holds the lock of process h
    seeker,           \* seeker[r]: how far request r is
    semVersion,       \* the version that is part of every key
    semBlocked,       \* is "d" withdrawn?
    semBarred,        \* the wordings on the blacklist
    semServed,        \* what the last step served
    semLost,          \* history: entries that a write left out although there was room for them
    blind,            \* history: the index could not be read, and was written
    sought, semUpsets

semVars == <<homeOf, semRedis, semIndex, semLock, seeker, semVersion, semBlocked, semBarred,
             semServed, semLost, blind, sought, semUpsets>>

\* Where an answer is kept: for a model and a wording, under the version of that time.
SemKeys == SemModels \X Phrasings \X {0, 1}
CachedAnswers == {"none", "cites d", "cites e"}
Unserved == [want |-> "nothing", entry |-> [words |-> "nothing"], model |-> "none",
             withdrawn |-> FALSE, version |-> 0]
NotSeeking == [at |-> "rest"]

SemanticTypeOK ==
    /\ homeOf \in [Seekers -> Homes]
    /\ semRedis \in [SemKeys -> CachedAnswers]
    /\ \A e \in semIndex : e.key \in SemKeys /\ e.words \in Phrasings
    /\ semLock \in [Homes -> Seekers \cup {NobodyInside}]
    /\ \A r \in Seekers : seeker[r].at \in {"rest", "fetch", "answer", "embed", "write"}
    /\ semVersion \in 0..1 /\ semBlocked \in BOOLEAN /\ semBarred \subseteq Phrasings
    /\ semLost \subseteq SemModels \X Phrasings /\ blind \in BOOLEAN
    /\ sought \in 0..MaxSought /\ semUpsets \in 0..MaxSemUpsets

SemanticInit ==
    /\ homeOf \in [Seekers -> Homes]
    /\ semRedis = [k \in SemKeys |-> "none"] /\ semIndex = {}
    /\ semLock = [h \in Homes |-> NobodyInside] /\ seeker = [r \in Seekers |-> NotSeeking]
    /\ semVersion = 0 /\ semBlocked = FALSE /\ semBarred = {}
    /\ semServed = Unserved /\ semLost = {} /\ blind = FALSE
    /\ sought = 0 /\ semUpsets = 0

-----------------------------------------------------------------------------

SemUpset == semUpsets < MaxSemUpsets /\ semUpsets' = semUpsets + 1

\* An answer may be given if what it cites is in force; if that cannot be asked, it may not.
InForceNow(answer) == answer = "cites e" \/ (answer = "cites d" /\ ~semBlocked)

EntriesFor(model) == {e \in semIndex : e.key[1] = model}

Near(words, e) == Likeness[<<words, e.words>>]

\* The entry that is nearest; of those that are equally near, any.
Nearest(words, model) ==
    {e \in EntriesFor(model) : \A f \in EntriesFor(model) : Near(words, f) <= Near(words, e)}

\* semantic_cache_get: a question that is not barred, and has no answer of its own that may be
\* given, looks for the nearest in the index; only that one is tried, however it ends.
Seek(r, words, model) ==
    LET near == {e \in Nearest(words, model) : Near(words, e) >= Medium}
        own == semRedis[<<model, words, semVersion>>]
        ToAnswer == [at |-> "answer", words |-> words, model |-> model] IN
    /\ seeker[r] = NotSeeking /\ sought < MaxSought /\ sought' = sought + 1
    /\ ~InForceNow(own) \/ words \in semBarred
    /\ \/ /\ words \notin semBarred /\ own = "none"
          /\ \E e \in near :
                seeker' = [seeker EXCEPT ![r] = [at |-> "fetch", entry |-> e, words |-> words,
                                                 model |-> model]]
          /\ UNCHANGED semUpsets
       \* There is nothing near, or its own answer is there and may not be given.
       \/ /\ words \in semBarred \/ near = {} \/ own # "none"
          /\ seeker' = [seeker EXCEPT ![r] = ToAnswer]
          /\ UNCHANGED semUpsets
       \* The embedding fails, or the index cannot be read.
       \/ SemUpset /\ seeker' = [seeker EXCEPT ![r] = ToAnswer]
    /\ semServed' = Unserved
    /\ UNCHANGED <<homeOf, semRedis, semIndex, semLock, semVersion, semBlocked, semBarred,
                   semLost, blind>>

\* The answer of the entry is read from Redis, if it still is there, and looked at again.
Fetch(r) ==
    LET s == seeker[r]
        answer == semRedis[s.entry.key] IN
    /\ s.at = "fetch"
    /\ \/ /\ InForceNow(answer)
          /\ semServed' = [want |-> s.words, entry |-> s.entry, model |-> s.model,
                           withdrawn |-> answer = "cites d" /\ semBlocked,
                           version |-> semVersion]
          /\ seeker' = [seeker EXCEPT ![r] = NotSeeking]
          /\ UNCHANGED semUpsets
       \/ /\ semServed' = Unserved
          /\ seeker' = [seeker EXCEPT ![r] = [at |-> "answer", words |-> s.words,
                                              model |-> s.model]]
          /\ IF InForceNow(answer) THEN SemUpset ELSE UNCHANGED semUpsets
    /\ UNCHANGED <<homeOf, semRedis, semIndex, semLock, semVersion, semBlocked, semBarred,
                   semLost, blind, sought>>

\* A new answer: if it is sure and the question is not barred by now, it is kept in Redis.  What
\* is not in force is not found, and not cited.
Answered(r) ==
    LET s == seeker[r]
        key == <<s.model, s.words, semVersion>> IN
    /\ s.at = "answer"
    /\ \/ /\ s.words \notin semBarred
          /\ \E answer \in {a \in CachedAnswers : InForceNow(a)} :
                semRedis' = [semRedis EXCEPT ![key] = answer]
          /\ seeker' = [seeker EXCEPT ![r] = [at |-> "embed", words |-> s.words,
                                              model |-> s.model, key |-> key]]
       \/ seeker' = [seeker EXCEPT ![r] = NotSeeking] /\ UNCHANGED semRedis
    /\ semServed' = Unserved
    /\ UNCHANGED <<homeOf, semIndex, semLock, semVersion, semBlocked, semBarred, semLost, blind,
                   sought, semUpsets>>

\* semantic_cache_set: behind the lock of the process, the index is read; an index that cannot
\* be read is taken for an empty one.  Without an embedding there is nothing to add.
ReadForAdd(r) ==
    LET s == seeker[r]
        ToWrite(index, unread) == [at |-> "write", words |-> s.words, model |-> s.model,
                                   key |-> s.key, read |-> index, blind |-> unread] IN
    /\ s.at = "embed"
    /\ \/ /\ semLock[homeOf[r]] = NobodyInside /\ semLock' = [semLock EXCEPT ![homeOf[r]] = r]
          /\ \/ seeker' = [seeker EXCEPT ![r] = ToWrite(semIndex, FALSE)] /\ UNCHANGED semUpsets
             \/ seeker' = [seeker EXCEPT ![r] = ToWrite({}, TRUE)] /\ SemUpset
       \/ SemUpset /\ seeker' = [seeker EXCEPT ![r] = NotSeeking] /\ UNCHANGED semLock
    /\ semServed' = Unserved
    /\ UNCHANGED <<homeOf, semRedis, semIndex, semVersion, semBlocked, semBarred, semLost, blind,
                   sought>>

SameQuestion(e, f) == e.words = f.words /\ e.key[1] = f.key[1]

\* The index with an entry more: one for the same question is renewed, a full index keeps only
\* what is newest.
Added(index, entry) ==
    LET same == {e \in index : SameQuestion(e, entry)} IN
    IF same # {} \/ Cardinality(index) < IndexLimit THEN {(index \ same) \cup {entry}}
    ELSE {kept \cup {entry} : kept \in {k \in SUBSET index :
              Cardinality(k) = KeptOnFull /\ \A e \in k, f \in index \ k : f.ts <= e.ts}}

QuestionsIn(index) == {<<e.key[1], e.words>> : e \in index}

\* Later than all it has read.
Stamp(index) == Max({e.ts : e \in index} \cup {0}) + 1

\* The changed index is written over what is there by now.
WriteAdded(r) ==
    LET s == seeker[r]
        entry == [words |-> s.words, key |-> s.key, ts |-> Stamp(s.read)] IN
    /\ s.at = "write"
    /\ \/ \E written \in Added(s.read, entry) :
             /\ semIndex' = written /\ blind' = (blind \/ s.blind)
             /\ semLost' = IF Cardinality(s.read) < IndexLimit
                           THEN semLost \cup (QuestionsIn(semIndex) \ QuestionsIn(written))
                           ELSE semLost
             /\ UNCHANGED semUpsets
       \/ SemUpset /\ UNCHANGED <<semIndex, semLost, blind>>
    /\ seeker' = [seeker EXCEPT ![r] = NotSeeking]
    /\ semLock' = [semLock EXCEPT ![homeOf[r]] = NobodyInside]
    /\ semServed' = Unserved
    /\ UNCHANGED <<homeOf, semRedis, semVersion, semBlocked, semBarred, sought>>

\* What happens meanwhile: an entry of Redis expires or is deleted, the index expires, a document
\* is withdrawn and the version moves on, a question gets onto the blacklist.
Meanwhile ==
    /\ SemUpset
    /\ \/ /\ \E key \in SemKeys :
                semRedis[key] # "none" /\ semRedis' = [semRedis EXCEPT ![key] = "none"]
          /\ UNCHANGED <<semIndex, semVersion, semBlocked, semBarred>>
       \/ semIndex' = {} /\ UNCHANGED <<semRedis, semVersion, semBlocked, semBarred>>
       \/ /\ semBlocked' = TRUE /\ semVersion' = 1
          /\ UNCHANGED <<semRedis, semIndex, semBarred>>
       \/ /\ \E w \in Phrasings : semBarred' = semBarred \cup {w}
          /\ UNCHANGED <<semRedis, semIndex, semVersion, semBlocked>>
    /\ semServed' = Unserved
    /\ UNCHANGED <<homeOf, semLock, seeker, semLost, blind, sought>>

SemanticNext ==
    \/ \E r \in Seekers :
          \/ \E words \in Phrasings, model \in SemModels : Seek(r, words, model)
          \/ Fetch(r) \/ Answered(r) \/ ReadForAdd(r) \/ WriteAdded(r)
    \/ Meanwhile

SemanticSpec == SemanticInit /\ [][SemanticNext]_semVars

-----------------------------------------------------------------------------
(* Properties.                                                             *)

\* What is served was asked for in words that are near, of the same model, and cites nothing
\* that is withdrawn.
ServedIsNear ==
    semServed # Unserved =>
        /\ Near(semServed.want, semServed.entry) >= Medium
        /\ semServed.entry.key[1] = semServed.model /\ ~semServed.withdrawn

\* The index has a question once, and a bounded number of them, whoever writes it when.
OncePerQuestion ==
    /\ \A e, f \in semIndex : SameQuestion(e, f) => e = f
    /\ Cardinality(semIndex) <= IndexLimit

\* "Serialises the read-change-write so that none is lost": an entry is lost only to a writer of
\* another process, or to one who could not read.
NoneLostAtHome ==
    semLost # {} => blind \/ \E r, s \in Seekers : homeOf[r] # homeOf[s]

\* The lock of a process is held by one who is about to write, and by one of its own.
LockedToWrite ==
    \A r \in Seekers : seeker[r].at = "write" <=> \E h \in Homes : semLock[h] = r

SemanticKept == ServedIsNear /\ OncePerQuestion /\ NoneLostAtHome /\ LockedToWrite

\* No entry is lost to another writer.
NoneLost == semLost = {}

\* A new version makes every old entry unreachable.
VersionEndsAnswers == semServed # Unserved => semServed.entry.key[3] = semServed.version

\* The answer of a barred question is not given.
BarredIsNotServed == semServed # Unserved => semServed.entry.words \notin semBarred
=============================================================================
