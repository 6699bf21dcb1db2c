----------------------------- MODULE AnswerFlow -----------------------------
(***************************************************************************)
(* One question on its way through the answer pipeline, by the plain       *)
(* request, the stream or the agent: a cached answer, or retrieval, the    *)
(* grading of the evidence and its correction, the models, the check of    *)
(* the citations, the conversation, and what is kept for later questions.  *)
(*                                                                         *)
(* QuestionsAsked follow one another, and keep what the caches and the circuits *)
(* of the models remember.  The levels of the cache are AnswerCache's      *)
(* subject: here they are one shelf.                                       *)
(***************************************************************************)
EXTENDS LlmRouter, FiniteSets

CONSTANTS
    Settings,       \* the sets of switches a deployment may have on
    QuestionsAsked,      \* the questions people ask
    Strengths,      \* strengths of evidence, in hundredths
    MaxQuestions,   \* bound: questions asked
    AnswerMaxFaults \* bound: failures of the database and connections that break

ASSUME AnswerAssumption ==
    /\ Strengths \subseteq 0..100
    /\ \A q \in QuestionsAsked : (q.way = "answer") <=> (q.wire = "http")
    /\ MaxQuestions \in Nat /\ AnswerMaxFaults \in Nat

VARIABLES
    on,             \* the switches that are on
    at,             \* step of the question
    ask,            \* the question
    draft,          \* what has been found and written for it
    rows,           \* what the conversation holds of it
    ended,          \* the events that told its end
    gaps,           \* it was noted as a gap in the knowledge
    shelf,          \* the answer kept for the question
    liked,          \* somebody liked an answer to it
    questions, answerFaults

flowVars == <<on, at, ask, draft, rows, ended, gaps, shelf, liked, questions, answerFaults>>
answerVars == <<routerVars, flowVars>>

Ways == {"answer", "stream", "agent"}
Wires == {"http", "sse", "ws"}
Grades == {"correct", "ambiguous", "incorrect"}
Confidences == {"high", "medium_high", "medium", "refused"}
Ends == {"completed", "error", "aborted"}

\* The plain request or a stream, in a conversation or not, to write anew or not, with a model.
QuestionForms == [way : Ways, wire : Wires, multi : BOOLEAN, regen : BOOLEAN,
                  model : Models \cup {AutoModel}]
NoQuestion == [way |-> "answer", wire |-> "http", multi |-> FALSE, regen |-> FALSE,
               model |-> AutoModel]
\* strength and grade of the evidence, what was done about it, the confidence, whether a judge
\* found it wanting; exchanges of the evidence; the models that wrote; the text.
BlankDraft == [es |-> 0, grade |-> "none", action |-> "normal", conf |-> "none", short |-> FALSE,
            exchanged |-> 0, by |-> NoModel, again |-> NoModel, text |-> "none"]
\* What is remembered of an answer that was kept: its evidence and the models that wrote it.
NoEntry == [sound |-> FALSE, by |-> {}, text |-> "none", cited |-> FALSE, agent |-> FALSE]
NoEnds == [e \in Ends |-> 0]

AnswerTypeOK ==
    /\ RouterTypeOK
    /\ on \in Settings /\ ask \in QuestionForms
    /\ draft.es \in Strengths \cup {0} /\ draft.grade \in Grades \cup {"none"}
    /\ draft.conf \in Confidences \cup {"none"}
    /\ draft.text \in {"none", "whole", "cut", "empty"}
    /\ rows \in {"none", "opened", "asked", "both"}
    /\ ended \in [Ends -> 0..2] /\ gaps \in BOOLEAN /\ liked \in BOOLEAN
    /\ questions \in 0..MaxQuestions /\ answerFaults \in 0..AnswerMaxFaults

AnswerInit ==
    /\ RouterInit
    /\ on \in Settings
    /\ at = "idle" /\ ask = NoQuestion /\ draft = BlankDraft
    /\ rows = "none" /\ ended = NoEnds /\ gaps = FALSE
    /\ shelf = NoEntry /\ liked \in BOOLEAN
    /\ questions = 0 /\ answerFaults = 0

Go(place) == at' = place
On(switch) == switch \in on
Streamed == ask.way # "answer"
AnswerFault == answerFaults < AnswerMaxFaults /\ answerFaults' = answerFaults + 1

\* Question and answer are written to a conversation, as far as the database takes them.
Saves == \/ rows' = "both" /\ UNCHANGED answerFaults
         \/ AnswerFault /\ rows' \in {"opened", "asked"}

\* Events of the stream: the end is told once, by the first event that tells it.
Tell(e) == IF Streamed /\ ended = NoEnds THEN [ended EXCEPT ![e] = 1] ELSE ended

-----------------------------------------------------------------------------
(* A question comes.                                                       *)

Ask(q) ==
    /\ at = "idle"
    /\ questions < MaxQuestions /\ questions' = questions + 1
    /\ ask' = q
    /\ rows' = IF q.multi THEN "opened" ELSE "none"
    /\ Go("guard")
    /\ UNCHANGED <<routerVars, on, draft, ended, gaps, shelf, liked, answerFaults>>

\* An injection, or a question that needs no retrieval, is refused; nothing is kept.
Refuse ==
    /\ at = "guard"
    /\ On("injection") \/ (On("selfrag") /\ ask.way # "agent")
    /\ draft' = [draft EXCEPT !.conf = "refused", !.action = "skipped"]
    /\ ended' = Tell("completed")
    /\ Go("over")
    /\ UNCHANGED <<routerVars, on, ask, rows, gaps, shelf, liked, questions, answerFaults>>

\* A liked answer: the plain request leaves the conversation alone, the stream opens one, and
\* writes to one that is there.
HitLiked ==
    /\ at = "guard"
    /\ liked /\ ~ask.regen /\ ask.way # "agent"
    /\ IF ask.way = "answer" THEN UNCHANGED <<rows, answerFaults>>
       ELSE IF ask.multi THEN Saves ELSE rows' = "opened" /\ UNCHANGED answerFaults
    /\ draft' = [draft EXCEPT !.action = "liked"]
    /\ ended' = Tell("completed")
    /\ Go("over")
    /\ UNCHANGED <<routerVars, on, ask, gaps, shelf, liked, questions>>

\* Where a kept answer is looked for: the agent looks in a question of its own only; the plain
\* request does so inside a conversation even when it is to write anew.
LooksUp ==
    IF ask.way = "agent" THEN ~ask.multi
    ELSE ~ask.regen \/ (ask.way = "answer" /\ ask.multi)

\* _cache_knowledge_valid: an answer that cites no document cannot be checked, and is not used.
HitShelf ==
    /\ at = "guard"
    /\ LooksUp /\ shelf.cited
    /\ IF Streamed THEN Saves ELSE UNCHANGED <<rows, answerFaults>>
    /\ draft' = [draft EXCEPT !.action = "kept"]
    /\ ended' = Tell("completed")
    /\ Go("over")
    /\ UNCHANGED <<routerVars, on, ask, gaps, shelf, liked, questions>>

\* Nothing of that: the knowledge base is searched.  Without a result the question is noted.
SearchKnowledge ==
    /\ at = "guard" /\ ask.way # "agent"
    /\ \/ Go("grade") /\ UNCHANGED <<draft, ended, gaps>>
       \/ /\ Go("over")
          /\ draft' = [draft EXCEPT !.conf = "refused", !.action = "nothing"]
          /\ gaps' = (ask.way = "answer" \/ On("refused_to_gap"))
          /\ ended' = Tell("completed")
    /\ UNCHANGED <<routerVars, on, ask, rows, shelf, liked, questions, answerFaults>>

-----------------------------------------------------------------------------
(* Corrective retrieval.                                                   *)

CRAG_HIGH == 72
CRAG_LOW == 30

GradeOf(es) ==
    CASE On("rerank") /\ es >= CRAG_HIGH  -> "correct"
      [] On("rerank") /\ es < CRAG_LOW    -> "incorrect"
      [] OTHER                            -> "ambiguous"

\* The grades a search may get: a model that reads every passage is heard first, except that
\* version 3 turns what it says into a strength.
GradesOf(es) == IF On("perdoc") /\ ~On("v3") THEN Grades ELSE {GradeOf(es)}

\* confidence_of, and for version 3 confidence_score with label_to_confidence.
ConfidenceOf(es, grade, action) ==
    IF On("v3")
    THEN IF action = "rewritten_failed" THEN "refused"
         ELSE CASE On("rerank") /\ es >= 70 -> "high"
                [] On("rerank") /\ es < 20  -> "refused"
                [] OTHER                    -> "medium"
    ELSE LET rewritten == action = "rewritten" IN
         CASE grade = "correct" /\ ~rewritten  -> "high"
           [] grade = "incorrect" /\ rewritten -> "refused"
           [] OTHER                            -> "medium"

RewriteAction(grade) ==
    IF ~On("v3") THEN "rewritten"
    ELSE CASE grade = "correct"   -> "rewritten_recovered"
           [] grade = "ambiguous" -> "rewritten_partial"
           [] grade = "incorrect" -> "rewritten_failed"

\* The action as it is reported: without version 3, evidence that stays bad is a refusal.
Reported(grade, action) ==
    IF action = "rewritten" /\ grade = "incorrect" THEN "refused" ELSE action

Grade ==
    /\ at = "grade"
    /\ \E es \in Strengths : \E grade \in GradesOf(es) :
          /\ draft' = [draft EXCEPT !.es = es, !.grade = grade,
                                    !.conf = ConfidenceOf(es, grade, "normal")]
          /\ Go(IF grade = "incorrect" THEN "rewrite" ELSE "judge")
    /\ UNCHANGED <<routerVars, on, ask, rows, ended, gaps, shelf, liked, questions, answerFaults>>

\* Bad evidence: the question is put in other words and searched again, once.
Rewrite ==
    /\ at = "rewrite"
    /\ \/ UNCHANGED draft
       \/ \E es \in Strengths :
             LET grade == GradeOf(es)
                 action == RewriteAction(grade) IN
             draft' = [draft EXCEPT !.es = es, !.grade = grade,
                           !.action = Reported(grade, action), !.exchanged = @ + 1,
                           !.conf = ConfidenceOf(es, grade, action)]
    /\ Go("judge")
    /\ UNCHANGED <<routerVars, on, ask, rows, ended, gaps, shelf, liked, questions, answerFaults>>

\* The sufficiency gate: a judge that finds the evidence wanting takes one step off a high
\* confidence; a medium one has no step below.
Judge ==
    /\ at = "judge"
    /\ \/ UNCHANGED draft
       \/ /\ On("gate")
          /\ draft' = [draft EXCEPT !.short = TRUE,
                                    !.conf = IF @ = "high" THEN "medium_high" ELSE @]
    /\ Go("write")
    /\ UNCHANGED <<routerVars, on, ask, rows, ended, gaps, shelf, liked, questions, answerFaults>>

-----------------------------------------------------------------------------
(* The models write.                                                       *)

\* The stream opens its conversation before the first word.
BeginWriting ==
    /\ at = "write"
    /\ rows' = IF ask.way = "stream" /\ rows = "none" THEN "opened" ELSE rows
    /\ BeginCall(ask.model, On("local"))
    /\ Go("writing")
    /\ UNCHANGED <<circuit, on, ask, draft, ended, gaps, shelf, liked, questions, answerFaults>>

Composed(p, text) ==
    IF at = "writing" THEN [draft EXCEPT !.by = p, !.text = text]
                      ELSE [draft EXCEPT !.again = p, !.text = text, !.exchanged = @ + 1]

ModelAnswers(p) ==
    /\ at \in {"writing", "rewriting"}
    /\ TheNextAnswers(p)
    /\ \/ draft' = Composed(p, "whole")
       \* A stream may break after its first token; nobody takes over.
       \/ ask.way = "stream" /\ draft' = Composed(p, "cut")
    /\ Go(IF at = "writing" THEN "verify" ELSE "settle")
    /\ UNCHANGED <<on, ask, rows, ended, gaps, shelf, liked, questions, answerFaults>>

ModelFails ==
    /\ at \in {"writing", "rewriting"}
    /\ TryNext(TRUE) \/ TryNext(FALSE)
    /\ UNCHANGED flowVars

\* Every model failed.  The first answer is refused, with what was found; the second is let be.
\* Models that were all silent leave an empty answer that carries the first one's name.
NobodyAnswers ==
    /\ at \in {"writing", "rewriting"}
    /\ Exhausted
    /\ \/ /\ broke /\ at = "writing"
          /\ draft' = [draft EXCEPT !.conf = "refused", !.action = "llm_down"]
          /\ gaps' = (ask.way = "answer") /\ ended' = Tell("error")
          /\ Go("over")
       \/ /\ broke /\ at = "rewriting"
          /\ UNCHANGED <<draft, gaps, ended>>
          /\ Go("settle")
       \/ /\ ~broke
          /\ draft' = Composed(first, "empty")
          /\ UNCHANGED <<gaps, ended>>
          /\ Go(IF at = "writing" THEN "verify" ELSE "settle")
    /\ EndCall
    /\ UNCHANGED <<circuit, on, ask, rows, shelf, liked, questions, answerFaults>>

\* Mutant: a refusal does not keep the citations from being tried again.
NotAgainWithoutRefused == {"rewritten", "rewritten_recovered", "rewritten_partial",
                           "rewritten_failed"}

NotAgain == {"rewritten", "rewritten_recovered", "rewritten_partial", "rewritten_failed",
             "refused"}

\* Citations that do not hold: the plain request searches and writes once more, unless the
\* evidence has been exchanged already.  The second call has no tier and begins the chain anew.
VerifyCitations ==
    /\ at = "verify"
    /\ \/ Go("settle") /\ UNCHANGED <<line, first, broke>>
       \/ /\ On("citations") /\ ask.way = "answer"
          /\ draft.action \notin NotAgain
          /\ BeginCall(ask.model, On("local"))
          /\ Go("rewriting")
    /\ UNCHANGED <<circuit, on, ask, draft, rows, ended, gaps, shelf, liked, questions,
                   answerFaults>>

\* _cap_confidence_for_local_model looks at the model of the first call.
Capped(conf) == IF draft.by = Local /\ conf = "high" THEN "medium" ELSE conf

\* A refused answer may be put before three experts (the stream asks them only when it is sure
\* already, that is never); then the emergency model's word is capped.
Settle ==
    /\ at = "settle"
    /\ \/ draft' = [draft EXCEPT !.conf = Capped(@)]
       \/ /\ On("debate") /\ ask.way = "answer" /\ draft.conf = "refused"
          /\ draft' = [draft EXCEPT !.conf = "medium_high"]
    /\ Go("save")
    /\ UNCHANGED <<routerVars, on, ask, rows, ended, gaps, shelf, liked, questions, answerFaults>>

-----------------------------------------------------------------------------
(* What is kept.                                                           *)

NextRow == CASE rows = "none" -> "opened" [] rows = "opened" -> "asked" [] rows = "asked" -> "both"

\* Conversation, question and answer are three commits.
SaveRow ==
    /\ at = "save"
    /\ IF rows = "both" THEN Go("keep") /\ UNCHANGED rows
                        ELSE rows' = NextRow /\ UNCHANGED at
    /\ UNCHANGED <<routerVars, on, ask, draft, ended, gaps, shelf, liked, questions, answerFaults>>

\* The database fails: the plain request with it, the stream goes on.
SaveRowFails ==
    /\ at = "save" /\ rows # "both"
    /\ AnswerFault
    /\ Go(IF ask.way = "answer" THEN "failed" ELSE "keep")
    /\ UNCHANGED <<routerVars, on, ask, draft, rows, ended, gaps, shelf, liked, questions>>

\* The evidence was strong when it was graded last, nobody found it wanting, and nothing had
\* to be put in other words first (version 3 has its own scale, and forgives that).
IsEarned ==
    /\ draft.grade = "correct" \/ (On("v3") /\ draft.es >= 70)
    /\ On("v3") \/ draft.action = "normal"
    /\ ~draft.short /\ draft.by # Local

Entry == [sound |-> IsEarned, by |-> {draft.by, draft.again} \ {NoModel}, text |-> draft.text,
          cited |-> TRUE, agent |-> FALSE]

\* An answer of high confidence is kept, unless its question is blacklisted.
Keep ==
    /\ at = "keep"
    /\ \/ UNCHANGED shelf
       \/ draft.conf = "high" /\ shelf' = Entry
    /\ Go("close")
    /\ UNCHANGED <<routerVars, on, ask, draft, rows, ended, gaps, liked, questions, answerFaults>>

\* The gap is noted, and the end told.
Close ==
    /\ at = "close"
    /\ gaps' = (On("auto_collect") /\ draft.conf \in {"medium", "refused"})
    /\ ended' = Tell("completed")
    /\ Go("over")
    /\ UNCHANGED <<routerVars, on, ask, draft, rows, shelf, liked, questions, answerFaults>>

-----------------------------------------------------------------------------
(* The agent, and how a question ends.                                     *)

\* The agent runs with its tools.  Its answer is kept as a sure one if it was not degraded and
\* the memory of the user took no part.
RunAgent(p, degraded, personal) ==
    /\ at = "guard" /\ ask.way = "agent"
    /\ p \in Range(Candidates(ask.model, On("local"))) /\ RecordOk(p)
    /\ draft' = [draft EXCEPT !.by = p, !.action = "agent", !.text = "whole"]
    /\ shelf' = IF ask.multi \/ degraded \/ personal THEN shelf
                ELSE [sound |-> TRUE, by |-> {p}, text |-> "whole", cited |-> FALSE, agent |-> TRUE]
    /\ Saves
    /\ ended' = Tell("completed")
    /\ Go("over")
    /\ UNCHANGED <<line, first, broke, on, ask, gaps, liked, questions>>

\* The agent raises: the stream ends, with a conversation and nothing in it.
AgentFails ==
    /\ at = "guard" /\ ask.way = "agent"
    /\ AnswerFault
    /\ draft' = [draft EXCEPT !.action = "failed"]
    /\ rows' = "opened" /\ ended' = Tell("completed")
    /\ Go("over")
    /\ UNCHANGED <<routerVars, on, ask, gaps, shelf, liked, questions>>

\* The client goes away while the answer is on its way.
Disconnect ==
    /\ Streamed /\ at \notin {"idle", "over", "failed"}
    /\ AnswerFault
    /\ ended' = Tell("aborted")
    /\ draft' = [draft EXCEPT !.action = "aborted"]
    /\ Go("over")
    /\ UNCHANGED <<routerVars, on, ask, rows, gaps, shelf, liked, questions>>

\* Something raises outside the guards; the socket reports it though it has told the end.
RaiseOut ==
    /\ at \notin {"idle", "over", "failed"} \/ (at = "over" /\ ask.wire = "ws")
    /\ AnswerFault
    /\ ended' = IF ask.wire = "ws" THEN [ended EXCEPT !["error"] = @ + 1] ELSE Tell("error")
    /\ draft' = [draft EXCEPT !.action = "aborted"]
    /\ Go("failed")
    /\ UNCHANGED <<routerVars, on, ask, rows, gaps, shelf, liked, questions>>

LeaveQuestion ==
    /\ at \in {"over", "failed"}
    /\ Go("idle")
    /\ ask' = NoQuestion /\ draft' = BlankDraft /\ rows' = "none"
    /\ ended' = NoEnds /\ gaps' = FALSE
    /\ EndCall
    /\ UNCHANGED <<circuit, on, shelf, liked, questions, answerFaults>>

AnswerNext ==
    \/ \E q \in QuestionsAsked : Ask(q)
    \/ Refuse \/ HitLiked \/ HitShelf \/ SearchKnowledge
    \/ Grade \/ Rewrite \/ Judge
    \/ BeginWriting \/ (\E p \in Models : ModelAnswers(p)) \/ ModelFails \/ NobodyAnswers
    \/ VerifyCitations \/ Settle \/ SaveRow \/ SaveRowFails \/ Keep \/ Close
    \/ \E p \in Models, degraded, personal \in BOOLEAN : RunAgent(p, degraded, personal)
    \/ AgentFails \/ Disconnect \/ RaiseOut \/ LeaveQuestion
    \/ at = "idle" /\ RouterEnv /\ UNCHANGED flowVars

AnswerSpec == AnswerInit /\ [][AnswerNext]_answerVars

-----------------------------------------------------------------------------
(* Properties.                                                             *)

\* An answer of the pipeline is kept for others only if its first version was written by a
\* model of the chain's own, on evidence that was strong when it was last graded and that no
\* judge found wanting, however many switches change what "high" means.
HighIsEarned == shelf # NoEntry => shelf.sound

\* The evidence of a question is exchanged at most once, by the correction of the retrieval or
\* by that of the citations: two searches never chase each other.
ExchangedOnce == draft.exchanged <= 1

\* A question that ends refused by its evidence, or by models that are all down, is noted as a
\* gap, except in the stream whose models are down.
RefusedIsNoted ==
    at = "over" /\ draft.conf = "refused" /\ {"auto_collect", "refused_to_gap"} \subseteq on =>
        gaps \/ draft.action \in {"skipped", "aborted"} \/ (Streamed /\ draft.action = "llm_down")

\* A stream over HTTP tells its end exactly once, however it ends; a socket at least once.
EndIsTold ==
    LET n == ended["completed"] + ended["error"] + ended["aborted"] IN
    /\ Streamed /\ at \in {"over", "failed"} => n >= 1
    /\ ask.wire = "sse" => n <= 1
    /\ at \in {"guard", "grade", "writing", "save", "keep", "close"} => n = 0

\* An answer that was written in full is in its conversation together with the question, unless
\* the database failed.
AnswerIsInConversation ==
    at = "over" /\ draft.text # "none" /\ answerFaults = 0 => rows = "both"

\* What is kept, noted and told of an answer agrees with how it came about.
AnswersHold ==
    /\ HighIsEarned /\ ExchangedOnce /\ RefusedIsNoted /\ EndIsTold /\ AnswerIsInConversation

\* _cap_confidence_for_local_model says that what the emergency model wrote is not kept as an
\* authority.
EmergencyNotShelved ==
    ~shelf.agent => Local \notin shelf.by

\* _stream_agent says that the agent is skipped when its answer was kept.
AgentAnswerIsReused == shelf.agent => shelf.cited

\* llm_router says that an empty answer is caught by its caller.
EmptyIsCaught == shelf.text # "empty"
=============================================================================
