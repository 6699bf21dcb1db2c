----------------------------- MODULE Governance -----------------------------
(***************************************************************************)
(* The governance of one document: its metadata, the scans that turn them  *)
(* into issues, the people who review the issues, and the clean-up that a  *)
(* blocked document sets off in the index.                                 *)
(*                                                                         *)
(* Scans and requests overlap.  A clean-up is a task of the process: it    *)
(* carries the document's name and nothing else, and a restart forgets it. *)
(*                                                                         *)
(* QUALITY_BUS_ENABLE and GOVERNANCE_PROPAGATE_ENABLE are on.  With either *)
(* off, as delivered, no clean-up is started, and it is the filter of      *)
(* Retrieval alone that keeps a blocked document out of an answer.         *)
(***************************************************************************)
EXTENDS Integers, Sequences, FiniteSets, OrmSession

CONSTANTS
    Curators,       \* concurrent requests and scans
    Edits,          \* the metadata a request may bring: some columns, with values
    MaxGovNow,      \* bound: the clock
    MaxGovOps,      \* bound: requests and scans that begin
    GovMaxFaults,   \* bound: restarts, lost events, clean-ups the index does not take
    GovOverlapFaults \* bound: those where requests may overlap

ASSUME GovernanceAssumption ==
    /\ {MaxGovNow, MaxGovOps, GovMaxFaults, GovOverlapFaults} \subseteq Nat
    /\ GovOverlapFaults <= GovMaxFaults

VARIABLES
    meta,           \* the row of knowledge_document_metadata
    issueRows,      \* issueRows[k]: the issue of kind k, or the quality event
    indexed,        \* the document has vectors in Milvus
    cleanups,       \* clean-ups that were started and have not run
    govNow,
    govPc, govOp,   \* the workers: step and operation,
    govKind,        \* the issue that is reviewed,
    sawMeta,        \* what was loaded: the metadata
    sawCount,       \* and the number of sightings of each issue,
    found,          \* and what the scan makes of it
    sightings,      \* history: how often a scan has committed an issue
    byHand,         \* history: an administrator ran the clean-up
    cleanupOrdered, \* history: a clean-up was ordered
    parsedAgain,    \* history: the document was indexed again
    govAlone,       \* one worker at a time
    dryRun,         \* GOVERNANCE_PROPAGATE_DRY_RUN_ENABLE
    govOps, govFaults

govHistory == <<sightings, byHand, cleanupOrdered, parsedAgain>>
govRows == <<meta, issueRows, indexed, cleanups>>
govWork == <<govPc, govOp, govKind, sawMeta, sawCount, found>>
govMode == <<govAlone, dryRun>>
govVars == <<govRows, govNow, govWork, govHistory, govMode, govOps, govFaults>>

ScanKinds == {"metadata_missing", "not_yet_effective", "expired", "expiring", "review_due",
              "conflict"}
Kinds == ScanKinds \cup {"quality_low", "event"}
GovOps == {"upsert", "scan", "review"}
BLOCKED_VERSION_STATUSES == {"withdrawn", "superseded"}

\* An unset date is 0.
NoMeta == [status |-> "none", from |-> 0, until |-> 0, perm |-> FALSE, every |-> 0, review |-> 0]
NewMeta == [NoMeta EXCEPT !.status = "draft"]
BareIssue == [status |-> "absent", count |-> 0, trail |-> <<>>]
NewIssue == [BareIssue EXCEPT !.status = "open", !.count = 1]

GovernanceTypeOK ==
    /\ meta.status \in {"none", "draft", "active"} \cup BLOCKED_VERSION_STATUSES
    /\ \A k \in Kinds :
          /\ issueRows[k].status \in {"absent", "open", "confirmed", "processing", "resolved",
                                  "ignored"}
          /\ issueRows[k].count \in 0..MaxGovOps
    /\ {indexed, byHand, cleanupOrdered, parsedAgain, govAlone, dryRun} \subseteq BOOLEAN
    /\ cleanups \in 0..MaxGovOps /\ govNow \in 1..MaxGovNow
    /\ \A w \in Curators :
          /\ govPc[w] \in {"idle", "loaded", "emit", "quality", "locked"}
          /\ govOp[w] \in GovOps /\ govKind[w] \in Kinds /\ found[w] \subseteq ScanKinds
    /\ govOps \in 0..MaxGovOps /\ govFaults \in 0..GovMaxFaults

GovernanceInit ==
    /\ meta = NoMeta /\ issueRows = [k \in Kinds |-> BareIssue]
    /\ indexed = TRUE /\ cleanups = 0 /\ govNow = 1
    /\ govPc = [w \in Curators |-> "idle"] /\ govOp = [w \in Curators |-> "scan"]
    /\ govKind = [w \in Curators |-> "event"]
    /\ sawMeta = [w \in Curators |-> NoMeta] /\ found = [w \in Curators |-> {}]
    /\ sawCount = [w \in Curators |-> [k \in Kinds |-> 0]]
    /\ sightings = [k \in Kinds |-> 0]
    /\ byHand = FALSE /\ cleanupOrdered = FALSE /\ parsedAgain = FALSE
    /\ govAlone \in BOOLEAN /\ dryRun \in BOOLEAN
    /\ govOps = 0 /\ govFaults = 0

Counts == [k \in Kinds |-> issueRows[k].count]

GovStep(w, place) == govPc' = [govPc EXCEPT ![w] = place]
\* A worker that has ended keeps nothing.
GovDone(w) ==
    /\ GovStep(w, "idle")
    /\ govOp' = [govOp EXCEPT ![w] = "scan"] /\ govKind' = [govKind EXCEPT ![w] = "event"]
    /\ sawMeta' = [sawMeta EXCEPT ![w] = NoMeta] /\ found' = [found EXCEPT ![w] = {}]
    /\ sawCount' = [sawCount EXCEPT ![w] = [k \in Kinds |-> 0]]

GovFails ==
    /\ govFaults < IF govAlone THEN GovMaxFaults ELSE GovOverlapFaults
    /\ govFaults' = govFaults + 1

-----------------------------------------------------------------------------
(* What the code computes.                                                 *)

\* build_lifecycle_findings at time t; a warning is due one step before the end.
Lifecycle(m, t) ==
    (IF m.status = "none" \/ m.from = 0 \/ (~m.perm /\ m.until = 0) \/ (m.every = 0 /\ m.review = 0)
     THEN {"metadata_missing"} ELSE {})
    \cup IF m.status \in {"none"} \cup BLOCKED_VERSION_STATUSES THEN {}
         ELSE {k \in {"not_yet_effective", "expired", "expiring", "review_due"} :
                  CASE k = "not_yet_effective" -> m.from > t
                    [] k = "expired"  -> ~m.perm /\ m.until > 0 /\ m.until < t
                    [] k = "expiring" -> ~m.perm /\ m.until \in t..(t + 1)
                    [] k = "review_due" -> m.review \in 1..t}

\* detect_potential_conflicts: a document that is not blocked may clash with another one.
Conflicts(m) == IF m.status \in BLOCKED_VERSION_STATUSES THEN {{}} ELSE {{}, {"conflict"}}

\* is_retrievable.
Retrievable(m, t) ==
    \/ m.status \in {"none", "draft"}
    \/ /\ m.status = "active"
       /\ m.from = 0 \/ (m.from <= t /\ (m.perm \/ m.until = 0 \/ m.until >= t))

\* upsert_metadata on the row as it was loaded.
Upserted(m, edit, t) ==
    LET set == [c \in DOMAIN m |-> IF c \in DOMAIN edit THEN edit[c] ELSE m[c]]
        ended == IF "perm" \in DOMAIN edit /\ edit.perm THEN [set EXCEPT !.until = 0] ELSE set
    IN  IF ended.every > 0 /\ "review" \notin DOMAIN edit
        THEN [ended EXCEPT !.review = (IF ended.from > 0 THEN ended.from ELSE t) + ended.every]
        ELSE ended

WellFormed(m) ==
    /\ ~(m.perm /\ m.until > 0)
    /\ m.from > 0 /\ m.until > 0 => m.from <= m.until

\* _STATUS_TRANSITIONS, and ALLOWED_TRANSITIONS of the quality events.
Transitions(k, status) ==
    LET middle == IF k = "event" THEN "processing" ELSE "confirmed" IN
    IF status \in {"open", middle} THEN {"open", middle, "resolved", "ignored"}
    ELSE {"open", status}

\* Nobody holds the lock of the row.
Unlocked(k) == \A w \in Curators : govPc[w] = "locked" => govKind[w] # k

\* Mutant: a scan opens the issue it sees again.
SightedAnew(issue, count) == [issue EXCEPT !.count = count + 1, !.status = "open"]

\* _persist_findings: only what the scan has found out is refreshed.
Sighted(issue, count) == [issue EXCEPT !.count = count + 1]

-----------------------------------------------------------------------------
GovTick ==
    /\ govNow < MaxGovNow /\ govNow' = govNow + 1
    /\ UNCHANGED <<govRows, govWork, govHistory, govMode, govOps, govFaults>>

\* A request or a scan begins: it loads the document's rows.
GovOpen(w) ==
    /\ govPc[w] = "idle" /\ govOps < MaxGovOps
    /\ govAlone => \A other \in Curators : govPc[other] = "idle"
    /\ \E op \in {"upsert", "scan"} :
          /\ govOp' = [govOp EXCEPT ![w] = op]
          /\ IF op = "upsert"
             THEN UNCHANGED <<found, sawCount>>
             ELSE /\ \E clash \in Conflicts(meta) :
                        found' = [found EXCEPT ![w] = Lifecycle(meta, govNow) \cup clash]
                  /\ sawCount' = [sawCount EXCEPT ![w] = Counts]
    /\ sawMeta' = [sawMeta EXCEPT ![w] = meta]
    /\ govOps' = govOps + 1
    /\ GovStep(w, "loaded")
    /\ UNCHANGED <<govRows, govNow, govKind, govHistory, govMode, govFaults>>

\* upsert_metadata: the row is made, unless another request has made it by now, or its
\* columns are written; what is not well formed is refused.
Upsert(w) ==
    /\ govPc[w] = "loaded" /\ govOp[w] = "upsert"
    /\ \E edit \in Edits :
          LET base == IF sawMeta[w] = NoMeta THEN NewMeta ELSE sawMeta[w]
              new == Upserted(base, edit, govNow) IN
          /\ WellFormed(new) /\ (sawMeta[w] = NoMeta => meta = NoMeta)
          /\ meta' = IF sawMeta[w] = NoMeta THEN new ELSE Flushed(meta, sawMeta[w], new)
    /\ GovStep(w, "emit")
    /\ UNCHANGED <<issueRows, indexed, cleanups, govNow, govOp, govKind, sawMeta, sawCount, found,
                   govHistory, govMode, govOps, govFaults>>

UpsertRefused(w) ==
    /\ govPc[w] = "loaded" /\ govOp[w] = "upsert"
    /\ \E edit \in Edits :
          LET base == IF sawMeta[w] = NoMeta THEN NewMeta ELSE sawMeta[w] IN
          ~WellFormed(Upserted(base, edit, govNow)) \/ (sawMeta[w] = NoMeta /\ meta # NoMeta)
    /\ GovDone(w)
    /\ UNCHANGED <<govRows, govNow, govHistory, govMode, govOps, govFaults>>

\* _persist_findings: one issue of a kind.  The unique fingerprint refuses a second one,
\* and with it the whole scan; nothing is written for an issue a reviewer has locked.
Persist(w) ==
    /\ govPc[w] = "loaded" /\ govOp[w] = "scan"
    /\ \A k \in found[w] : Unlocked(k)
    /\ \A k \in found[w] : sawCount[w][k] = 0 => issueRows[k].status = "absent"
    /\ issueRows' = [k \in Kinds |->
                     IF k \notin found[w] THEN issueRows[k]
                     ELSE IF sawCount[w][k] = 0 THEN NewIssue
                     ELSE Sighted(issueRows[k], sawCount[w][k])]
    /\ sightings' = [k \in Kinds |-> IF k \in found[w] THEN sightings[k] + 1 ELSE sightings[k]]
    /\ GovStep(w, "emit")
    /\ UNCHANGED <<meta, indexed, cleanups, govNow, govOp, govKind, sawMeta, sawCount, found,
                   byHand, cleanupOrdered, parsedAgain, govMode, govOps, govFaults>>

PersistRefused(w) ==
    /\ govPc[w] = "loaded" /\ govOp[w] = "scan"
    /\ \E k \in found[w] : sawCount[w][k] = 0 /\ issueRows[k].status # "absent"
    /\ GovDone(w)
    /\ UNCHANGED <<govRows, govNow, govHistory, govMode, govOps, govFaults>>

\* _maybe_emit_doc_blocked: a request looks at the row as it is after its commit, a scan
\* at what it found.
Blocks(w) ==
    IF govOp[w] = "upsert" THEN meta.status \in BLOCKED_VERSION_STATUSES
    ELSE "expired" \in found[w]

\* What follows: the end of a request; for a scan the quality of the document, in a new
\* transaction unless nothing was found.
AfterEmit(w) ==
    IF govOp[w] = "upsert" THEN GovDone(w)
    ELSE /\ GovStep(w, "quality")
         /\ sawCount' = IF found[w] = {} THEN sawCount ELSE [sawCount EXCEPT ![w] = Counts]
         /\ UNCHANGED <<govOp, govKind, sawMeta, found>>

\* emit stores the event and starts the clean-up, or fails and starts nothing.
Emit(w) ==
    /\ govPc[w] = "emit" /\ Blocks(w)
    /\ \/ /\ issueRows' = [issueRows EXCEPT !["event"] =
                              IF @.status = "absent" THEN NewIssue ELSE @]
          /\ cleanups' = cleanups + 1 /\ cleanupOrdered' = TRUE
          /\ UNCHANGED govFaults
       \/ GovFails /\ UNCHANGED <<issueRows, cleanups, cleanupOrdered>>
    /\ AfterEmit(w)
    /\ UNCHANGED <<meta, indexed, govNow, sightings, byHand, parsedAgain, govMode, govOps>>

EmitNothing(w) ==
    /\ govPc[w] = "emit" /\ ~Blocks(w)
    /\ AfterEmit(w)
    /\ UNCHANGED <<govRows, govNow, govHistory, govMode, govOps, govFaults>>

\* aggregate_doc_quality: whether the answers that used the document were disliked is a
\* choice; a failure is swallowed.
Aggregate(w) ==
    /\ govPc[w] = "quality" /\ Unlocked("quality_low")
    /\ LET seen == sawCount[w]["quality_low"] IN
       \/ /\ seen = 0 => issueRows["quality_low"].status = "absent"
          /\ issueRows' = [issueRows EXCEPT !["quality_low"] =
                           IF seen = 0 THEN NewIssue ELSE Sighted(@, seen)]
          /\ sightings' = [sightings EXCEPT !["quality_low"] = @ + 1]
       \/ UNCHANGED <<issueRows, sightings>>
    /\ GovDone(w)
    /\ UNCHANGED <<meta, indexed, cleanups, govNow, byHand, cleanupOrdered, parsedAgain, govMode,
                   govOps, govFaults>>

-----------------------------------------------------------------------------
\* review_issue and update_status: the row is read under its lock ...
LockIssue(w) ==
    /\ govPc[w] = "idle" /\ govOps < MaxGovOps
    /\ govAlone => \A other \in Curators : govPc[other] = "idle"
    /\ \E k \in Kinds :
          /\ issueRows[k].status # "absent" /\ Unlocked(k)
          /\ govKind' = [govKind EXCEPT ![w] = k]
          /\ \E to \in Transitions(k, issueRows[k].status) :
                sawMeta' = [sawMeta EXCEPT ![w] = [from |-> issueRows[k].status, to |-> to]]
    /\ govOp' = [govOp EXCEPT ![w] = "review"]
    /\ govOps' = govOps + 1
    /\ GovStep(w, "locked")
    /\ UNCHANGED <<govRows, govNow, sawCount, found, govHistory, govMode, govFaults>>

\* ... and changed, with an entry in the trail; a quality event has one only if its status
\* changes.
ReviewIssue(w) ==
    /\ govPc[w] = "locked"
    /\ LET k == govKind[w]
           entry == sawMeta[w]
           kept == IF k = "event" /\ entry.from = entry.to THEN <<>> ELSE <<entry>> IN
       issueRows' = [issueRows EXCEPT ![k].status = entry.to, ![k].trail = @ \o kept]
    /\ GovDone(w)
    /\ UNCHANGED <<meta, indexed, cleanups, govNow, govHistory, govMode, govOps, govFaults>>

-----------------------------------------------------------------------------
\* propagate_handler: a report, or the real clean-up.  It does not look at the document
\* again, and an index that cannot be reached is noted and forgotten.
CleanUp ==
    /\ cleanups > 0 /\ cleanups' = cleanups - 1
    /\ \/ dryRun /\ UNCHANGED <<indexed, govFaults>>
       \/ ~dryRun /\ indexed' = FALSE /\ UNCHANGED govFaults
       \/ ~dryRun /\ GovFails /\ UNCHANGED indexed
    /\ UNCHANGED <<meta, issueRows, govNow, govWork, govHistory, govMode, govOps>>

\* governance_propagate_execute: an administrator confirms a report, or orders a clean-up.
Execute ==
    /\ indexed /\ govOps < MaxGovOps /\ govOps' = govOps + 1
    /\ indexed' = FALSE /\ byHand' = TRUE
    /\ UNCHANGED <<meta, issueRows, cleanups, govNow, govWork, sightings, cleanupOrdered,
                   parsedAgain, govMode, govFaults>>

\* The document is parsed again: its vectors are back, whatever its metadata say.
ParseAgain ==
    /\ ~indexed /\ govOps < MaxGovOps /\ govOps' = govOps + 1
    /\ indexed' = TRUE /\ parsedAgain' = TRUE
    /\ UNCHANGED <<meta, issueRows, cleanups, govNow, govWork, sightings, byHand,
                   cleanupOrdered, govMode, govFaults>>

\* The process restarts: requests and scans end, the clean-ups are forgotten.
GovRestart ==
    /\ GovFails
    /\ govPc' = [w \in Curators |-> "idle"] /\ govOp' = [w \in Curators |-> "scan"]
    /\ govKind' = [w \in Curators |-> "event"]
    /\ sawMeta' = [w \in Curators |-> NoMeta] /\ found' = [w \in Curators |-> {}]
    /\ sawCount' = [w \in Curators |-> [k \in Kinds |-> 0]]
    /\ cleanups' = 0
    /\ UNCHANGED <<meta, issueRows, indexed, govNow, govHistory, govMode, govOps>>

GovernanceNext ==
    \/ GovTick \/ CleanUp \/ Execute \/ ParseAgain \/ GovRestart
    \/ \E w \in Curators :
          \/ GovOpen(w) \/ Upsert(w) \/ UpsertRefused(w)
          \/ Persist(w) \/ PersistRefused(w) \/ Emit(w) \/ EmitNothing(w) \/ Aggregate(w)
          \/ LockIssue(w) \/ ReviewIssue(w)

GovernanceSpec == GovernanceInit /\ [][GovernanceNext]_govVars

-----------------------------------------------------------------------------
(* Properties.                                                             *)

\* The reviews of an issue form a chain from "open" to the status it has, however scans
\* and reviewers overlap: no scan takes back a person's decision.
AuditChain ==
    \A k \in Kinds :
        LET trail == issueRows[k].trail IN
        issueRows[k].status # "absent" =>
            /\ \A i \in 1..Len(trail) :
                  trail[i].from = IF i = 1 THEN "open" ELSE trail[i - 1].to
            /\ issueRows[k].status = IF trail = <<>> THEN "open" ELSE trail[Len(trail)].to

\* An issue is never counted more often than scans have seen it, and exactly as often if
\* they do not overlap.
CountsSightings ==
    \A k \in Kinds \ {"event"} :
        /\ issueRows[k].count <= sightings[k]
        /\ govAlone => issueRows[k].count = sightings[k]

\* One request at a time: a document does not end before it begins, and not at all if it
\* is permanent.
DatesInOrder == govAlone => WellFormed(meta)

GovQuiet == cleanups = 0 /\ \A w \in Curators : govPc[w] = "idle"

\* Once all is done, a withdrawn or superseded document is out of the index, unless an
\* event or a clean-up was lost or the document was parsed again.
BlockedIsCleaned ==
    /\ GovQuiet /\ ~dryRun /\ govFaults = 0 /\ ~parsedAgain =>
          (meta.status \in BLOCKED_VERSION_STATUSES => ~indexed)
    /\ ~indexed => byHand \/ (cleanupOrdered /\ ~dryRun)

GovernanceKept == AuditChain /\ CountsSightings /\ DatesInOrder /\ BlockedIsCleaned

\* effective_state lets a draft be retrieved whatever its dates are, and a scan cleans up
\* an expired draft all the same: this fails.
CleanedOnlyIfBlocked ==
    ~indexed /\ ~byHand => ~Retrievable(meta, govNow)
=============================================================================
