---------------------------- MODULE ExpertDebate ----------------------------
(***************************************************************************)
(* Three experts diagnose one fault at the same time: one with the rules,  *)
(* one with the graph, one with the cases; two of them search in the same  *)
(* database session.  If they name nothing in common they hear each other  *)
(* and speak again, and a judge decides.  A question that was answered     *)
(* without much evidence may be put to them as well, and what they say is  *)
(* set before the answer.                                                  *)
(***************************************************************************)
EXTENDS Naturals, FiniteSets

CONSTANTS
    Sayings,              \* what an expert may say: the causes he names, and if he sums up
    DebateMaxFaults       \* bound: models and searches that fail, texts in another form

Experts == {"rules", "graph", "cases"}
InSession == {"rules", "cases"}

\* An expert without an opinion yet, and one that failed.
Unheard == [causes |-> {}, sums |-> FALSE, failed |-> TRUE]
FailedSaying == [causes |-> {}, sums |-> TRUE, failed |-> TRUE]

ASSUME DebateAssumption ==
    /\ \A s \in Sayings : ~s.failed /\ s.sums \in BOOLEAN
    /\ DebateMaxFaults \in Nat

VARIABLES
    debate,       \* where the debate is, and who asked
    expertAt,     \* expertAt[e]: what expert e is doing
    firstSaid,    \* firstSaid[e]: the opinion of the first round
    saidNow,      \* saidNow[e]: the opinion the judge will see
    lastSpoke,    \* history: the last thing e said without failing
    ruling,      \* what came out
    sessionTorn,  \* history: both searched in the session at once
    debFaults

debateVars == <<debate, expertAt, firstSaid, saidNow, lastSpoke, ruling, sessionTorn, debFaults>>

DebateGrades == {"high", "medium_high", "medium_low", "low", "refused"}
NoRuling == [from |-> "nobody", saying |-> Unheard, degraded |-> FALSE, raised |-> FALSE]

DebateTypeOK ==
    /\ debate.at \in {"rest", "speaking", "judged", "over", "broken"}
    /\ debate.round \in 1..2 /\ debate.asker \in {"route"} \cup DebateGrades
    /\ expertAt \in [Experts -> {"rest", "begun", "searching", "thinking", "done"}]
    /\ \A e \in Experts : {firstSaid[e], saidNow[e], lastSpoke[e]}
                             \subseteq Sayings \cup {Unheard, FailedSaying}
    /\ ruling.saying \in Sayings \cup {Unheard, FailedSaying}
    /\ sessionTorn \in BOOLEAN /\ debFaults \in 0..DebateMaxFaults

DebateInit ==
    /\ debate = [at |-> "rest", round |-> 1, asker |-> "route"]
    /\ expertAt = [e \in Experts |-> "rest"]
    /\ firstSaid = [e \in Experts |-> Unheard] /\ saidNow = firstSaid /\ lastSpoke = firstSaid
    /\ ruling = NoRuling /\ sessionTorn = FALSE /\ debFaults = 0

-----------------------------------------------------------------------------

DebateFault == debFaults < DebateMaxFaults /\ debFaults' = debFaults + 1

\* An answer that is worth something is left alone.
NeedsExperts(asker) == asker \in {"route", "medium_low", "low", "refused"}

AskExperts(asker) ==
    /\ debate.at = "rest"
    /\ IF NeedsExperts(asker)
       THEN /\ debate' = [at |-> "speaking", round |-> 1, asker |-> asker]
            /\ expertAt' = [e \in Experts |-> "begun"]
       ELSE debate' = [debate EXCEPT !.at = "over", !.asker = asker] /\ UNCHANGED expertAt
    /\ UNCHANGED <<firstSaid, saidNow, lastSpoke, ruling, sessionTorn, debFaults>>

SpeaksOut(e, saying) ==
    /\ expertAt' = [expertAt EXCEPT ![e] = "done"]
    /\ saidNow' = [saidNow EXCEPT ![e] =
                     IF saying # FailedSaying THEN saying
                     ELSE IF debate.round = 2 THEN firstSaid[e] ELSE FailedSaying]
    /\ lastSpoke' = IF saying = FailedSaying THEN lastSpoke ELSE [lastSpoke EXCEPT ![e] = saying]

OtherInSession(e) ==
    e \in InSession /\ \E o \in InSession \ {e} : expertAt[o] = "searching"

\* A search that fails is the end of an expert, but not of the one for the cases, who goes on
\* without any.
SearchFails(e) ==
    \/ e # "cases" /\ SpeaksOut(e, FailedSaying)
    \/ /\ e = "cases" /\ expertAt' = [expertAt EXCEPT ![e] = "thinking"]
       /\ UNCHANGED <<saidNow, lastSpoke>>

\* A session serves one statement at a time: who comes second may be turned away.
BeginExpertSearch(e) ==
    /\ debate.at = "speaking" /\ expertAt[e] = "begun"
    /\ \/ /\ expertAt' = [expertAt EXCEPT ![e] = "searching"]
          /\ UNCHANGED <<saidNow, lastSpoke>>
       \/ OtherInSession(e) /\ SearchFails(e)
    /\ sessionTorn' = (sessionTorn \/ OtherInSession(e))
    /\ UNCHANGED <<debate, firstSaid, ruling, debFaults>>

EndExpertSearch(e) ==
    /\ expertAt[e] = "searching"
    /\ \/ /\ expertAt' = [expertAt EXCEPT ![e] = "thinking"]
          /\ UNCHANGED <<saidNow, lastSpoke, debFaults>>
       \/ DebateFault /\ SearchFails(e)
    /\ UNCHANGED <<debate, firstSaid, ruling, sessionTorn>>

Speak(e) ==
    /\ expertAt[e] = "thinking"
    /\ \/ UNCHANGED debFaults /\ \E s \in Sayings : SpeaksOut(e, s)
       \/ DebateFault /\ SpeaksOut(e, FailedSaying)
    /\ UNCHANGED <<debate, firstSaid, ruling, sessionTorn>>

\* _consensus_needs_debate: everybody names a cause, and none is named by all.
Split(opinions) ==
    /\ \A e \in Experts : opinions[e].causes # {}
    /\ ~\E c \in opinions["rules"].causes : \A e \in Experts : c \in opinions[e].causes

\* All have spoken the first time.  Causes that are not of the agreed form break it off.
Weigh ==
    /\ debate.at = "speaking" /\ debate.round = 1 /\ \A e \in Experts : expertAt[e] = "done"
    /\ firstSaid' = saidNow
    /\ \/ /\ UNCHANGED debFaults
          /\ IF Split(saidNow)
             THEN /\ debate' = [debate EXCEPT !.round = 2]
                  /\ expertAt' = [e \in Experts |-> "begun"]
             ELSE debate' = [debate EXCEPT !.at = "judged"] /\ UNCHANGED expertAt
       \/ /\ \E e \in Experts : saidNow[e] # FailedSaying
          /\ DebateFault /\ debate' = [debate EXCEPT !.at = "broken"] /\ UNCHANGED expertAt
    /\ UNCHANGED <<saidNow, lastSpoke, ruling, sessionTorn>>

EndSecondRound ==
    /\ debate.at = "speaking" /\ debate.round = 2 /\ \A e \in Experts : expertAt[e] = "done"
    /\ debate' = [debate EXCEPT !.at = "judged"]
    /\ UNCHANGED <<expertAt, firstSaid, saidNow, lastSpoke, ruling, sessionTorn, debFaults>>

\* Without a judge the expert for the rules decides, whatever became of him.  The failures that
\* are told are those of the first round.  An answer that asked gets the verdict in front and a
\* better grade, if the verdict says anything.
JudgeDecides ==
    /\ debate.at = "judged" /\ debate' = [debate EXCEPT !.at = "over"]
    /\ LET Given(who, s) == ruling' =
               [from |-> who, saying |-> s, raised |-> debate.asker # "route" /\ s.sums,
                degraded |-> \E e \in Experts : firstSaid[e] = FailedSaying] IN
       \/ UNCHANGED debFaults /\ \E s \in Sayings : Given("judge", s)
       \/ DebateFault /\ Given("rules", saidNow["rules"])
    /\ UNCHANGED <<expertAt, firstSaid, saidNow, lastSpoke, sessionTorn>>

DebateNext ==
    \/ \E asker \in {"route"} \cup DebateGrades : AskExperts(asker)
    \/ \E e \in Experts : BeginExpertSearch(e) \/ EndExpertSearch(e) \/ Speak(e)
    \/ Weigh \/ EndSecondRound \/ JudgeDecides

DebateSpec == DebateInit /\ [][DebateNext]_debateVars

-----------------------------------------------------------------------------
(* Properties.                                                             *)

\* The judge sees what each expert said last, in whatever order they ended and failed.
JudgedIsLastSaid ==
    debate.at = "judged" => \A e \in Experts :
        saidNow[e] = IF lastSpoke[e] = Unheard THEN FailedSaying ELSE lastSpoke[e]

\* They speak twice only if all three had an opinion, so nobody who failed is asked again.
TwiceIfAllSpoke ==
    debate.round = 2 => \A e \in Experts : firstSaid[e] \notin {Unheard, FailedSaying}

\* What counts as degraded had no second round, and lacked an expert.
DegradedIsShort ==
    ruling.degraded => debate.round = 1 /\ \E e \in Experts : lastSpoke[e] = Unheard

\* A better grade needs a summary, and was asked for by an answer that was worth little.
RaisedWithReason ==
    ruling.raised => ruling.saying.sums /\ debate.asker \in {"medium_low", "low", "refused"}

\* A cause in the verdict of an expert is one that he named.
ExpertMeantIt ==
    ruling.from = "rules" => ruling.saying.causes \subseteq lastSpoke["rules"].causes

DebateKept ==
    /\ JudgedIsLastSaid /\ TwiceIfAllSpoke /\ DegradedIsShort /\ RaisedWithReason /\ ExpertMeantIt

\* "After several experts have checked each other": a better grade has an expert behind it.
RaisedByExperts ==
    ruling.raised => \E e \in Experts : lastSpoke[e] # Unheard

\* What is not degraded was decided by the judge.
DegradedIsTold == debate.at = "over" /\ ruling.from = "rules" => ruling.degraded

\* "A second round if causes differ": two who name different causes hear each other.
DifferenceIsDebated ==
    debate.at \in {"judged", "over"} /\ debate.round = 1 => ~\E e, o \in Experts :
        firstSaid[e].causes # {} /\ firstSaid[o].causes # {}
            /\ firstSaid[e].causes \cap firstSaid[o].causes = {}

\* The experts do not get into each other's way.
SessionIsTheirs == ~sessionTorn
=============================================================================
