----------------------------- MODULE Citations -----------------------------
(***************************************************************************)
(* The numbers in an answer: sentences that lack one are given one, every  *)
(* number is checked against the passages it stands for, what does not     *)
(* hold is cut out of the text, and the slowest of the checks may go on    *)
(* behind the answer and write its labels into what was kept of it.        *)
(***************************************************************************)
EXTENDS Naturals, Sequences, Functions

CONSTANTS
    PassagesFound,        \* the chunk ids of the passages found, in order; "" for one without
    WrittenDrafts,        \* what a model may write: see WithMarks
    Alike, VeryAlike,     \* sentence and passage: near enough to be kept, to be given a number
    Refuting,             \* sentence and passage: the passage says the contrary
    Checkers,             \* answers that may be on their way at once
    MaxChecked,           \* bound: answers
    CiteMaxFaults         \* bound: embeddings, judges and stores that fail

\* A draft is plain text, or the object the model was asked for, which tells for itself which
\* passage a number stands for.  A sentence has groups of numbers: [1] is one, [1, 2] as well.
\* In which order they stand in the sentence, and the citations in their list, does not matter.
ASSUME CitationAssumption ==
    /\ VeryAlike \subseteq Alike
    /\ \A d \in WrittenDrafts :
          /\ d.structured \in BOOLEAN /\ (d.told # {} => d.structured)
          /\ \A s \in DOMAIN d.text : \A group \in d.text[s].groups : group \in Seq(Nat)
    /\ MaxChecked \in Nat /\ CiteMaxFaults \in Nat

VARIABLES
    answering,        \* what each request is about to keep
    keptAnswer,       \* what is kept of the last answer
    lateChecks,       \* lateChecks[n]: the background check of answer n
    checked, citeFaults,
    checksLate,       \* setting: is the last check left to the background?
    disposed,         \* history: the answers that were thrown away
    torn              \* history: one was, while a background check held a copy

citeVars == <<answering, keptAnswer, lateChecks, checked, citeFaults, checksLate, disposed, torn>>

AnswerNos == 1..MaxChecked
CitePassage(ref) == IF ref \in DOMAIN PassagesFound THEN PassagesFound[ref] ELSE ""

-----------------------------------------------------------------------------
(* Marks.                                                                  *)

\* extract_sentence_sources: the numbers of all groups.
NumbersOf(sentence) == UNION {Range(group) : group \in sentence.groups}

NearestTo(sentence) ==
    LET near == {i \in DOMAIN PassagesFound : <<sentence.id, i>> \in VeryAlike}
    IN  IF near = {} THEN 0 ELSE CHOOSE i \in near : TRUE

\* auto_cite: a sentence without a number gets that of the nearest passage, if it is close.
WithMarks(d, embeds) ==
    IF d.structured \/ ~embeds THEN d.text
    ELSE [s \in DOMAIN d.text |->
             IF NumbersOf(d.text[s]) = {} /\ NearestTo(d.text[s]) # 0
             THEN [id |-> d.text[s].id, groups |-> {<<NearestTo(d.text[s])>>}] ELSE d.text[s]]

\* parse_citation_answer: the model's own list, or one entry for every number in the text.
CitationMap(d, text) ==
    IF d.structured THEN d.told
    ELSE UNION {{[sentence |-> text[s].id, ref |-> n, stands |-> n] : n \in NumbersOf(text[s])}
                   : s \in DOMAIN text}

-----------------------------------------------------------------------------
(* The checks.                                                             *)

\* verify: the number is one that was handed out; its passage resembles the sentence (unless
\* the embedding failed); and does not say the contrary, if that is asked here and in time.
HoldsUp(item, embeds, judges) ==
    /\ CitePassage(item.ref) # ""
    /\ embeds => <<item.sentence, item.stands>> \in Alike
    /\ embeds /\ judges => <<item.sentence, item.stands>> \notin Refuting

Verdict1(map, embeds, judges) ==
    LET kept == {item \in map : HoldsUp(item, embeds, judges)} IN
    [kept |-> kept, dropped |-> {item.ref : item \in map \ kept}]

\* _apply_citation_verification: a number that was dropped is cut wherever it stands alone.
CutText(text, dropped) ==
    [s \in DOMAIN text |->
        [id |-> text[s].id,
         groups |-> {group \in text[s].groups : \A ref \in dropped : group # <<ref>>}]]

\* The answer with the marks and the checks done, as it would be kept.
CheckOf(d, marks, embeds, judges) ==
    LET text == WithMarks(d, marks)
        map == CitationMap(d, text)
        verdict == Verdict1(map, embeds, judges) IN
    [text |-> CutText(text, verdict.dropped), kept |-> verdict.kept,
     shown |-> {item \in map : item.ref \notin verdict.dropped},
     plain |-> ~d.structured]

-----------------------------------------------------------------------------
(* Answers on their way, and the check that follows them.                  *)

RefsOf(items) == {item.ref : item \in items}

AnswerOf(n, stream, again, verdict) ==
    [no |-> n, stream |-> stream, again |-> again, plain |-> verdict.plain,
     kept |-> verdict.kept, shown |-> verdict.shown, text |-> verdict.text, labels |-> {}]
BlankAnswer ==
    AnswerOf(0, FALSE, FALSE, [plain |-> FALSE, kept |-> {}, shown |-> {}, text |-> <<>>])
NotLate == [at |-> "none", refs |-> {}, entry |-> BlankAnswer]

CitationsTypeOK ==
    /\ \A c \in Checkers : answering[c].no \in 0..MaxChecked /\ answering[c].labels = {}
    /\ keptAnswer.no \in 0..MaxChecked
    /\ \A l \in keptAnswer.labels : l.of \in AnswerNos /\ l.ref \in Nat
    /\ \A n \in AnswerNos : lateChecks[n].at \in {"none", "begun", "labelled", "read", "done"}
    /\ checked \in 0..MaxChecked /\ citeFaults \in 0..CiteMaxFaults
    /\ checksLate \in BOOLEAN /\ disposed \subseteq AnswerNos /\ torn \in BOOLEAN

CitationsInit ==
    /\ answering = [c \in Checkers |-> BlankAnswer] /\ keptAnswer = BlankAnswer
    /\ lateChecks = [n \in AnswerNos |-> NotLate]
    /\ checked = 0 /\ citeFaults = 0 /\ checksLate \in BOOLEAN
    /\ disposed = {} /\ torn = FALSE

CiteFault == citeFaults < CiteMaxFaults /\ citeFaults' = citeFaults + 1

\* What the models behind the marks and the checks make of a draft: each may fail, and the judge
\* may be left out of the request.
UnderCheck(d) ==
    {[verdict |-> CheckOf(d, marks, embeds, judges),
      fails |-> ~(marks /\ embeds /\ (judges \/ checksLate))]
        : marks, embeds \in BOOLEAN, judges \in {j \in BOOLEAN : checksLate => ~j}}

CiteFaultIf(fails) == IF fails THEN CiteFault ELSE UNCHANGED citeFaults

\* Only a stream says for which question its background check works; that of a plain request
\* ends without a trace.
CheckAnswer(c, d, stream) ==
    LET n == checked + 1
        Given(verdict) ==
            /\ answering' = [answering EXCEPT ![c] = AnswerOf(n, stream, FALSE, verdict)]
            /\ lateChecks' = IF checksLate /\ stream /\ verdict.kept # {}
                             THEN [lateChecks EXCEPT ![n] = [NotLate EXCEPT
                                      !.at = "begun", !.refs = RefsOf(verdict.kept)]]
                             ELSE lateChecks IN
    /\ answering[c] = BlankAnswer /\ checked < MaxChecked /\ checked' = n
    /\ d.structured => ~stream
    /\ \E o \in UnderCheck(d) : Given(o.verdict) /\ CiteFaultIf(o.fails)
    /\ UNCHANGED <<keptAnswer, disposed, torn>>

\* A plain request in which no citation held asks once more, with other passages; a stream
\* shows what it has.
AnswerAgain(c, d) ==
    /\ answering[c] # BlankAnswer /\ answering[c].kept = {}
    /\ ~answering[c].stream /\ ~answering[c].again
    /\ \E o \in UnderCheck(d) :
          /\ answering' = [answering EXCEPT
                 ![c] = AnswerOf(answering[c].no, FALSE, TRUE, o.verdict)]
          /\ CiteFaultIf(o.fails)
    /\ UNCHANGED <<keptAnswer, lateChecks, checked, disposed, torn>>

\* A sure answer is kept under its question, with its citations if it came in one piece; the
\* stream keeps the text alone.
KeepAnswer(c) ==
    /\ answering[c] # BlankAnswer
    /\ \/ UNCHANGED keptAnswer
       \/ answering[c].stream
          /\ keptAnswer' = [answering[c] EXCEPT !.kept = {}, !.shown = {}]
       \/ ~answering[c].stream /\ keptAnswer' = answering[c]
    /\ answering' = [answering EXCEPT ![c] = BlankAnswer]
    /\ UNCHANGED <<lateChecks, checked, citeFaults, disposed, torn>>

\* What is kept is thrown away: a dislike, a document withdrawn, or its time is over.
ThrowAway ==
    /\ keptAnswer # BlankAnswer
    /\ disposed' = disposed \cup {keptAnswer.no} /\ keptAnswer' = BlankAnswer
    /\ torn' = (torn \/ \E n \in AnswerNos : lateChecks[n].at = "read")
    /\ UNCHANGED <<answering, lateChecks, checked, citeFaults>>

\* _nli_backfill: the judge labels the citations that were kept, ...
LateJudges(n) ==
    /\ lateChecks[n].at = "begun"
    /\ \/ lateChecks' = [lateChecks EXCEPT ![n].at = "labelled"] /\ UNCHANGED citeFaults
       \/ CiteFault /\ lateChecks' = [lateChecks EXCEPT ![n] = [NotLate EXCEPT !.at = "done"]]
    /\ UNCHANGED <<answering, keptAnswer, checked, disposed, torn>>

\* ... what is kept under the question is read, whichever answer that is by now, ...
LateReads(n) ==
    /\ lateChecks[n].at = "labelled"
    /\ lateChecks' = [lateChecks EXCEPT ![n] =
           IF keptAnswer = BlankAnswer \/ keptAnswer.stream THEN [NotLate EXCEPT !.at = "done"]
           ELSE [@ EXCEPT !.at = "read", !.entry = keptAnswer]]
    /\ UNCHANGED <<answering, keptAnswer, checked, citeFaults, disposed, torn>>

\* ... the labels are put beside its numbers, and it is kept as it was read.
LateWrites(n) ==
    LET entry == lateChecks[n].entry
        mine == lateChecks[n].refs \cap RefsOf(entry.kept) IN
    /\ lateChecks[n].at = "read"
    /\ keptAnswer' = [entry EXCEPT !.labels =
           {l \in @ : l.ref \notin mine} \cup {[ref |-> r, of |-> n] : r \in mine}]
    /\ lateChecks' = [lateChecks EXCEPT ![n] = [NotLate EXCEPT !.at = "done"]]
    /\ UNCHANGED <<answering, checked, citeFaults, disposed, torn>>

\* The store fails, or the process ends.
LateFails(n) ==
    /\ lateChecks[n].at \in {"labelled", "read"} /\ CiteFault
    /\ lateChecks' = [lateChecks EXCEPT ![n] = [NotLate EXCEPT !.at = "done"]]
    /\ UNCHANGED <<answering, keptAnswer, checked, disposed, torn>>

CitationsNext ==
    /\ \/ \E c \in Checkers :
             \/ KeepAnswer(c)
             \/ \E d \in WrittenDrafts :
                   AnswerAgain(c, d) \/ \E stream \in BOOLEAN : CheckAnswer(c, d, stream)
       \/ \E n \in AnswerNos : LateJudges(n) \/ LateReads(n) \/ LateWrites(n) \/ LateFails(n)
       \/ ThrowAway
    /\ UNCHANGED checksLate

CitationsSpec == CitationsInit /\ [][CitationsNext]_citeVars

-----------------------------------------------------------------------------
(* Properties.                                                             *)

AnswersHeld == {keptAnswer} \cup {answering[c] : c \in Checkers}
GroupsOf(a) == UNION {a.text[s].groups : s \in DOMAIN a.text}

\* A number that stands alone in an answer is one that was handed out, for a passage with an id,
\* if the text told its own citations: nothing invented is shown as a source.
NoLoneInvention ==
    \A a \in AnswersHeld : a.plain =>
        \A group \in GroupsOf(a) : Len(group) = 1 => CitePassage(group[1]) # ""

\* What is listed beside the answer held in every check, each time its number was used.
ListedHeld == \A a \in AnswersHeld : RefsOf(a.shown) \subseteq RefsOf(a.kept)

\* A label that came late is on an answer that was written in one piece, and was made for one
\* that was streamed: never for the answer it stands beside.
LabelsFromStreams ==
    \A l \in keptAnswer.labels : ~keptAnswer.stream /\ l.of # keptAnswer.no

\* An answer that was thrown away stays away, unless it was while a check held a copy.
GoneStaysGone == keptAnswer.no \in disposed => torn

CitationsKept == NoLoneInvention /\ ListedHeld /\ LabelsFromStreams /\ GoneStaysGone

\* "Keeps the numbers of citations from being invented", those in groups included.
NoInvention ==
    \A a \in AnswersHeld : \A group \in GroupsOf(a) :
        \A i \in DOMAIN group : CitePassage(group[i]) # ""

\* A number stands for the passage it was handed out for.
StandsForItsOwn == \A a \in AnswersHeld : \A item \in a.shown : item.stands = item.ref

\* A label belongs to the answer it is shown with.
LabelsBelong == \A l \in keptAnswer.labels : l.of = keptAnswer.no

\* An answer that was thrown away stays away.
NeverBack == keptAnswer.no \notin disposed
=============================================================================
