----------------------------- MODULE EvidenceGap -----------------------------
(***************************************************************************)
(* The gaps a question left in the knowledge base: collected when it is    *)
(* answered badly or disliked, drafted by a model, confirmed by a person   *)
(* or by the background loop, and synchronised: an FAQ document, its       *)
(* vectors, the answer caches, and the row, each written in its own step.  *)
(*                                                                         *)
(* All gaps of the model are of the same question.  Every operation loads  *)
(* its row without a lock, works, and writes what it changed.              *)
(***************************************************************************)
EXTENDS Naturals, Sequences, FiniteSets, OrmSession

CONSTANTS
    Curators,       \* concurrent requests and background collections
    MaxGaps,        \* bound: rows
    MaxFaqs,        \* bound: FAQ documents
    MaxCurations,   \* bound: operations of the curators
    GapMaxFaults    \* bound: operations that fail

ASSUME GapAssumption ==
    /\ "cron" \notin Curators
    /\ MaxGaps \in Nat \ {0} /\ MaxFaqs \in Nat /\ MaxCurations \in Nat /\ GapMaxFaults \in Nat

VARIABLES
    gaps,          \* gaps[g]: the row, "absent" if there is none yet
    faqs,          \* the FAQ documents: content, and whether it has vectors
    gapCache,      \* the content the caches answer with, NoText if none
    gapPc, gapOp,
    gapOf,         \* gapOf[a]: the row a works on
    gapView,       \* gapView[a]: the row as a loaded it
    gapText,       \* gapText[a]: the text a writes
    faqOf,         \* faqOf[a]: the FAQ document a has made, 0 if none
    gapsAlone,     \* no two operations at once
    curations, gapFaults

gapVars == <<gaps, faqs, gapCache, gapPc, gapOp, gapOf, gapView, gapText, faqOf,
             gapsAlone, curations, gapFaults>>

NoText == "none"
Texts == {"model", "human"}
Cron == "cron"
GapActors == Curators \cup {Cron}
Gaps == 1..MaxGaps
GapOps == {"collect", "draft", "save", "edit", "sync", "ignore", "delete"}

NoGap == [status |-> "absent", draft |-> NoText, final |-> NoText, doc |-> 0,
          deleted |-> FALSE]

GapTypeOK ==
    /\ \A g \in Gaps :
          /\ DOMAIN gaps[g] = DOMAIN NoGap
          /\ gaps[g].status \in {"absent", "pending", "ai_drafted", "confirmed", "synced",
                                "ignored"}
          /\ {gaps[g].draft, gaps[g].final} \subseteq Texts \cup {NoText}
          /\ gaps[g].doc \in 0..Len(faqs) /\ gaps[g].deleted \in BOOLEAN
    /\ faqs \in Seq([text : Texts, vectors : BOOLEAN]) /\ Len(faqs) <= MaxFaqs
    /\ gapCache \in Texts \cup {NoText}
    /\ \A a \in GapActors :
          /\ gapPc[a] \in {"idle", "insert", "work", "document", "vectors", "cache", "row"}
          /\ gapOp[a] \in GapOps /\ gapOf[a] \in Gaps
          /\ gapText[a] \in Texts \cup {NoText} /\ faqOf[a] \in 0..MaxFaqs
    /\ gapsAlone \in BOOLEAN
    /\ curations \in 0..MaxCurations /\ gapFaults \in 0..GapMaxFaults

GapInit ==
    /\ gaps = [g \in Gaps |-> NoGap] /\ faqs = <<>> /\ gapCache = NoText
    /\ gapPc = [a \in GapActors |-> "idle"] /\ gapOp = [a \in GapActors |-> "collect"]
    /\ gapOf = [a \in GapActors |-> 1] /\ gapView = [a \in GapActors |-> NoGap]
    /\ gapText = [a \in GapActors |-> NoText] /\ faqOf = [a \in GapActors |-> 0]
    /\ gapsAlone \in BOOLEAN
    /\ curations = 0 /\ gapFaults = 0

-----------------------------------------------------------------------------

Goes(a, from, to) == gapPc[a] = from /\ gapPc' = [gapPc EXCEPT ![a] = to]

MayCurate(a) ==
    /\ gapsAlone => \A b \in GapActors : gapPc[b] = "idle"
    /\ a # Cron => curations < MaxCurations
    /\ curations' = IF a = Cron THEN curations ELSE curations + 1

\* The look-up of collect sees the deleted ones too, the loop does not.
Unsettled == {g \in Gaps : gaps[g].status = "pending"}

Pending == {g \in Unsettled : ~gaps[g].deleted}

\* collect: a question that has a pending gap gets no other; finding two raises, and the
\* error is swallowed.
LookForGap(a) ==
    /\ a # Cron /\ Goes(a, "idle", "insert") /\ MayCurate(a)
    /\ Unsettled = {}
    /\ gapOp' = [gapOp EXCEPT ![a] = "collect"]
    /\ UNCHANGED <<gaps, faqs, gapCache, gapOf, gapView, gapText, faqOf, gapsAlone, gapFaults>>

InsertGap(a) ==
    /\ Goes(a, "insert", "idle")
    /\ \E g \in Gaps :
          /\ gaps[g] = NoGap /\ \A h \in Gaps : h < g => gaps[h] # NoGap
          /\ gaps' = [gaps EXCEPT ![g].status = "pending"]
    /\ UNCHANGED <<faqs, gapCache, gapOp, gapOf, gapView, gapText, faqOf, gapsAlone,
                   curations, gapFaults>>

\* Every other operation loads its row first, whatever its status.
LoadGap(a, g, o, text, next) ==
    /\ gaps[g] # NoGap
    /\ Goes(a, "idle", next) /\ MayCurate(a)
    /\ gapOp' = [gapOp EXCEPT ![a] = o]
    /\ gapOf' = [gapOf EXCEPT ![a] = g]
    /\ gapView' = [gapView EXCEPT ![a] = gaps[g]]
    /\ gapText' = [gapText EXCEPT ![a] = text]
    /\ UNCHANGED <<gaps, faqs, gapCache, faqOf, gapsAlone, gapFaults>>

StartDraft(a, g)      == LoadGap(a, g, "draft", "model", "work")  \* ai_draft, deep_draft
StartSave(a, g)       == LoadGap(a, g, "save", "human", "work")   \* update_ai_draft
StartEdit(a, g)       == LoadGap(a, g, "edit", "human", "work")   \* edit_answer
StartIgnore(a, g)     == LoadGap(a, g, "ignore", NoText, "work")
StartDelete(a, g)     == LoadGap(a, g, "delete", NoText, "work")
StartSync(a, g, text) == LoadGap(a, g, "sync", text, "document")  \* confirm_and_sync

\* Mutant: the synchronisation keeps the answer that a person had confirmed.
CuratedTwice(a) ==
    CASE gapOp[a] \in {"draft", "save"} ->
            [gapView[a] EXCEPT !.draft = gapText[a], !.status = "ai_drafted"]
      [] gapOp[a] = "edit" -> [gapView[a] EXCEPT !.final = gapText[a], !.status = "confirmed"]
      [] gapOp[a] = "sync" -> [gapView[a] EXCEPT !.doc = faqOf[a], !.status = "synced",
                                  !.final = IF @ = NoText THEN gapText[a] ELSE @]
      [] gapOp[a] = "ignore" -> [gapView[a] EXCEPT !.status = "ignored"]
      [] gapOp[a] = "delete" -> [gapView[a] EXCEPT !.deleted = TRUE]

\* What the operation makes of the row it loaded.
Curated(a) ==
    CASE gapOp[a] \in {"draft", "save"} ->
            [gapView[a] EXCEPT !.draft = gapText[a], !.status = "ai_drafted"]
      [] gapOp[a] = "edit" -> [gapView[a] EXCEPT !.final = gapText[a], !.status = "confirmed"]
      [] gapOp[a] = "sync" -> [gapView[a] EXCEPT !.final = gapText[a], !.doc = faqOf[a],
                                                 !.status = "synced"]
      [] gapOp[a] = "ignore" -> [gapView[a] EXCEPT !.status = "ignored"]
      [] gapOp[a] = "delete" -> [gapView[a] EXCEPT !.deleted = TRUE]

SaveGap(a) == gaps' = [gaps EXCEPT ![gapOf[a]] = Flushed(gaps[gapOf[a]], gapView[a], Curated(a))]

Curate(a) ==
    /\ Goes(a, "work", "idle") /\ (a = Cron => gapOp[a] # "draft")
    /\ SaveGap(a)
    /\ gapView' = [gapView EXCEPT ![a] = NoGap]
    /\ UNCHANGED <<faqs, gapCache, gapOp, gapOf, gapText, faqOf, gapsAlone, curations, gapFaults>>

\* The FAQ document and its chunk are committed before they have vectors.
MakeFaq(a) ==
    /\ Goes(a, "document", "vectors")
    /\ Len(faqs) < MaxFaqs
    /\ faqs' = Append(faqs, [text |-> gapText[a], vectors |-> FALSE])
    /\ faqOf' = [faqOf EXCEPT ![a] = Len(faqs) + 1]
    /\ UNCHANGED <<gaps, gapCache, gapOp, gapOf, gapView, gapText, gapsAlone, curations, gapFaults>>

VectorizeFaq(a) ==
    /\ Goes(a, "vectors", "cache")
    /\ faqs' = [faqs EXCEPT ![faqOf[a]].vectors = TRUE]
    /\ UNCHANGED <<gaps, gapCache, gapOp, gapOf, gapView, gapText, faqOf, gapsAlone,
                   curations, gapFaults>>

CacheFaq(a) ==
    /\ Goes(a, "cache", "row")
    /\ gapCache' = gapText[a]
    /\ UNCHANGED <<gaps, faqs, gapOp, gapOf, gapView, gapText, faqOf, gapsAlone, curations,
                   gapFaults>>

EndSync(a) ==
    /\ Goes(a, "row", "idle")
    /\ SaveGap(a)
    /\ gapView' = [gapView EXCEPT ![a] = NoGap] /\ faqOf' = [faqOf EXCEPT ![a] = 0]
    /\ UNCHANGED <<faqs, gapCache, gapOp, gapOf, gapText, gapsAlone, curations, gapFaults>>

\* Any step of an operation may fail: the session is rolled back, the error swallowed.
CurationFails(a) ==
    /\ gapPc[a] # "idle"
    /\ gapFaults < GapMaxFaults /\ gapFaults' = gapFaults + 1
    /\ gapPc' = [gapPc EXCEPT ![a] = "idle"]
    /\ gapView' = [gapView EXCEPT ![a] = NoGap] /\ faqOf' = [faqOf EXCEPT ![a] = 0]
    /\ UNCHANGED <<gaps, faqs, gapCache, gapOp, gapOf, gapText, gapsAlone, curations>>

-----------------------------------------------------------------------------
(* batch_deep_and_sync: the oldest pending gap is drafted and, when there  *)
(* is a draft, synchronised with it.                                       *)

Oldest == {g \in Pending : \A h \in Pending : g <= h}

CronScan == \E g \in Oldest : StartDraft(Cron, g)

\* The draft is committed and the synchronisation loads the row again.
CronDrafted ==
    /\ Goes(Cron, "work", "document") /\ gapOp[Cron] = "draft"
    /\ SaveGap(Cron)
    /\ gapOp' = [gapOp EXCEPT ![Cron] = "sync"]
    /\ gapView' = [gapView EXCEPT ![Cron] = gaps'[gapOf[Cron]]]
    /\ UNCHANGED <<faqs, gapCache, gapOf, gapText, faqOf, gapsAlone, curations, gapFaults>>

SyncStep(a) == MakeFaq(a) \/ VectorizeFaq(a) \/ CacheFaq(a) \/ EndSync(a)

CronStep == CronScan \/ CronDrafted \/ SyncStep(Cron)

GapNext ==
    \/ \E a \in Curators :
          \/ LookForGap(a) \/ InsertGap(a)
          \/ \E g \in Gaps :
                \/ StartDraft(a, g) \/ StartSave(a, g) \/ StartEdit(a, g)
                \/ StartIgnore(a, g) \/ StartDelete(a, g)
                \/ \E text \in Texts : StartSync(a, g, text)
          \/ Curate(a) \/ SyncStep(a)
    \/ CronStep
    \/ \E a \in GapActors : CurationFails(a)

\* The loop outlives every failure, and a request runs to its end.
GapFairness == WF_gapVars(CronStep) /\ \A a \in Curators : WF_gapVars(Curate(a) \/ SyncStep(a))

GapSpec == GapInit /\ [][GapNext]_gapVars /\ GapFairness

-----------------------------------------------------------------------------
(* Properties.                                                             *)

\* However operations overlap and fail, a gap marked "synced" has its FAQ document in the
\* knowledge base with its vectors.
SyncedIsServed ==
    \A g \in Gaps : gaps[g].status = "synced" => gaps[g].doc # 0 /\ faqs[gaps[g].doc].vectors

\* As long as one operation works at a time, a synced gap shows the answer its document
\* gives, whatever failed before.
SyncedShowsItsAnswer ==
    gapsAlone => \A g \in Gaps :
        gaps[g].status = "synced" => faqs[gaps[g].doc].text = gaps[g].final

\* ... and a question has one pending gap at most.
OnePendingGap == gapsAlone => Cardinality(Unsettled) <= 1

\* What a synced gap shows is what the knowledge base gives, and it is asked for once.
GapKept == SyncedIsServed /\ SyncedShowsItsAnswer /\ OnePendingGap

\* A pending gap does not stay pending: the loop drafts it, even if it failed before.
PendingIsDrafted == []<>(Pending = {})

\* batch_deep_and_sync says that an entry that failed keeps its status and is tried again
\* in the next round.
FailedSyncIsRetried ==
    \A g \in Gaps : (gaps[g].status = "pending") ~> (gaps[g].status = "synced")
=============================================================================
