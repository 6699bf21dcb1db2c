------------------------------ MODULE Feedback ------------------------------
(***************************************************************************)
(* What people think of answers: their votes, the model that judges the    *)
(* answers they disliked, the regression set the bad cases are put into,   *)
(* the report made of the votes, and the rate of the cases that were       *)
(* mended.                                                                 *)
(***************************************************************************)
EXTENDS Naturals, Sequences, SequencesExt, FiniteSets

CONSTANTS
    Disputed,      \* questions as they are asked
    FbTenants,     \* tenants, the default one among them
    MaxVotes,      \* bound: votes
    OftenBad,      \* dislikes of one question that put it into the report
    MaxTears       \* bound: writings of the regression set cut short

DefaultTenant == "default"

ASSUME FeedbackAssumption ==
    /\ DefaultTenant \in FbTenants /\ MaxVotes \in Nat /\ OftenBad \in Nat \ {0}
    /\ MaxTears \in Nat

VARIABLES
    votes,         \* the rows, in the order they came
    judging,       \* the rows whose answers are being judged in the background
    golden,        \* the file of the regression set: its questions, and whether it can be read
    mended,        \* the questions whose gap was closed, of each tenant
    fixRate,       \* the gauge: mended questions among the disliked ones, as a pair
    lastRate,      \* the last rate that could be computed
    report,        \* the file of the report: its suggestions
    tears,
    everGolden     \* history: questions that were in the regression set

feedbackVars == <<votes, judging, golden, mended, fixRate, lastRate, report, tears, everGolden>>

Verdicts == {"none", "low", "high"}              \* how much of the answer is made up
Labels == {"none", "good", "partial", "poor"}    \* how well what was found fits the question
NoRate == <<0, 0>>

FeedbackTypeOK ==
    /\ \A i \in DOMAIN votes :
          /\ votes[i].about \in Disputed /\ votes[i].vote \in {"like", "dislike"}
          /\ votes[i].tenant \in FbTenants /\ votes[i].sources \in BOOLEAN
          /\ votes[i].madeUp \in Verdicts /\ votes[i].found \in Labels
    /\ judging \subseteq DOMAIN votes
    /\ golden.readable \in BOOLEAN /\ Range(golden.holds) \subseteq Disputed
    /\ mended \subseteq Disputed \X FbTenants
    /\ fixRate \in Nat \X Nat /\ lastRate \in Nat \X Nat
    /\ report \subseteq {"often", "made_up"} \X Disputed
    /\ tears \in 0..MaxTears /\ everGolden \subseteq Disputed

FeedbackInit ==
    /\ votes = <<>> /\ judging = {}
    /\ golden = [readable |-> TRUE, holds |-> <<>>]
    /\ mended = {} /\ fixRate = NoRate /\ lastRate = NoRate
    /\ report = {} /\ tears = 0 /\ everGolden = {}

-----------------------------------------------------------------------------
(* Votes and their judgement.                                              *)

\* record_feedback: stored and committed; a disliked answer is judged in the background.
Vote(q, t, vote, sources) ==
    /\ Len(votes) < MaxVotes
    /\ votes' = Append(votes, [about |-> q, tenant |-> t, vote |-> vote, sources |-> sources,
                               madeUp |-> "none", found |-> "none"])
    /\ judging' = IF vote = "dislike" THEN judging \cup {Len(votes) + 1} ELSE judging
    /\ UNCHANGED <<golden, mended, fixRate, lastRate, report, tears, everGolden>>

\* _judge_bg: either model may fail, what was found is judged only if it is known, and the
\* process may stop before anything is written.
JudgeAnswer(i) ==
    /\ i \in judging
    /\ \/ \E verdict \in Verdicts, label \in Labels :
             /\ label # "none" => votes[i].sources
             /\ votes' = [votes EXCEPT ![i].madeUp = verdict, ![i].found = label]
       \/ UNCHANGED votes
    /\ judging' = judging \ {i}
    /\ UNCHANGED <<golden, mended, fixRate, lastRate, report, tears, everGolden>>

-----------------------------------------------------------------------------
(* The regression set.                                                     *)

\* A file that cannot be read is taken for an empty one.
GoldenNow == IF golden.readable THEN golden.holds ELSE <<>>

AlreadyThere(i) == votes[i].about \in Range(GoldenNow)

\* mark_golden, by somebody of a tenant: the file is read and written without giving way; the
\* process may stop while it is written.
MarkGolden(i, t) ==
    /\ i \in DOMAIN votes /\ votes[i].tenant = t /\ ~AlreadyThere(i)
    /\ LET new == Append(GoldenNow, votes[i].about) IN
       \/ /\ golden' = [readable |-> TRUE, holds |-> new]
          /\ everGolden' = everGolden \cup Range(new)
          /\ UNCHANGED tears
       \/ /\ tears < MaxTears /\ tears' = tears + 1
          /\ golden' = [readable |-> FALSE, holds |-> <<>>]
          /\ UNCHANGED everGolden
    /\ UNCHANGED <<votes, judging, mended, fixRate, lastRate, report>>

-----------------------------------------------------------------------------
(* What is made of the votes.                                              *)

Having(vote) == {votes[i].about : i \in {j \in DOMAIN votes : votes[j].vote = vote}}

Dislikes(q) == {i \in DOMAIN votes : votes[i].about = q /\ votes[i].vote = "dislike"}

\* Little was found, and the answer is sure of itself.
Suspicious(i) ==
    /\ votes[i].vote = "dislike" /\ votes[i].found \in {"poor", "partial"}
    /\ votes[i].madeUp = "low"

\* The cells of the matrix of feedback_stats.
Cell(i) ==
    IF votes[i].found = "good"
    THEN IF votes[i].madeUp = "low" THEN "fine" ELSE "badly_told"
    ELSE IF votes[i].madeUp = "low" THEN "made_up" ELSE "not_found"

Judged(t) ==
    {i \in DOMAIN votes : /\ votes[i].tenant = t /\ votes[i].vote = "dislike"
                          /\ votes[i].found # "none" /\ votes[i].madeUp # "none"}

\* generate_optimization_report: of all tenants.
MakeReport ==
    /\ report' = {<<"often", q>> : q \in {p \in Disputed : Cardinality(Dislikes(p)) >= OftenBad}}
                 \cup {<<"made_up", votes[i].about>> : i \in {j \in DOMAIN votes : Suspicious(j)}}
    /\ UNCHANGED <<votes, judging, golden, mended, fixRate, lastRate, tears, everGolden>>

\* The gap of a question is synchronised, or a draft about it is indexed.
Mend(q, t) ==
    /\ mended' = mended \cup {<<q, t>>}
    /\ UNCHANGED <<votes, judging, golden, fixRate, lastRate, report, tears, everGolden>>

\* recompute_fix_rate: disliked by anybody, mended for the tenant, and liked by anybody.
Mended(t) == {q \in Having("dislike") : <<q, t>> \in mended}
Rate(t) ==
    IF Mended(t) = {} THEN NoRate
    ELSE <<Cardinality(Mended(t) \cap Having("like")), Cardinality(Having("dislike"))>>

\* fix_rate_cron_loop, for the default tenant; a failure keeps the last rate.
SetFixRate ==
    /\ \/ lastRate' = Rate(DefaultTenant) /\ fixRate' = lastRate'
       \/ fixRate' = lastRate /\ UNCHANGED lastRate
    /\ UNCHANGED <<votes, judging, golden, mended, report, tears, everGolden>>

FeedbackNext ==
    \/ \E q \in Disputed, t \in FbTenants, s \in BOOLEAN :
          Vote(q, t, "like", s) \/ Vote(q, t, "dislike", s)
    \/ \E i \in 1..MaxVotes : JudgeAnswer(i) \/ \E t \in FbTenants : MarkGolden(i, t)
    \/ \E q \in Disputed, t \in FbTenants : Mend(q, t)
    \/ MakeReport \/ SetFixRate

FeedbackSpec == FeedbackInit /\ [][FeedbackNext]_feedbackVars

-----------------------------------------------------------------------------
(* Properties.                                                             *)

\* A bad case is in the regression set once, whoever marks it and however often.
GoldenOnce == \A i, j \in DOMAIN golden.holds : golden.holds[i] = golden.holds[j] => i = j

\* A case leaves the regression set only when the file was cut short while it was written.
GoldenForAWhile == tears = 0 => everGolden \subseteq Range(golden.holds)

\* Only what was disliked is judged, and what was found only if it is known.
JudgedIfDisliked ==
    \A i \in DOMAIN votes :
        /\ votes[i].madeUp # "none" \/ votes[i].found # "none" => votes[i].vote = "dislike"
        /\ votes[i].found # "none" => votes[i].sources

\* The count of made-up answers in the matrix of a tenant is that of the questions listed.
MatrixAgrees ==
    \A t \in FbTenants :
        {i \in Judged(t) : Cell(i) = "made_up"} =
            {i \in DOMAIN votes : Suspicious(i) /\ votes[i].tenant = t}

\* No more is mended than was broken.
RateIsARate == fixRate[1] <= fixRate[2] /\ lastRate[1] <= lastRate[2]

FeedbackKept ==
    GoldenOnce /\ GoldenForAWhile /\ JudgedIfDisliked /\ MatrixAgrees /\ RateIsARate

\* "Bad cases stay in the regression set for ever."
GoldenForEver == everGolden \subseteq Range(golden.holds)

\* "Disliked, mended, and liked again": a question counts as mended if it was liked after it
\* had been disliked.
LikedAgain ==
    fixRate = Rate(DefaultTenant) /\ fixRate # NoRate =>
        fixRate[1] <= Cardinality({q \in Disputed :
            \E i, j \in DOMAIN votes : /\ i < j /\ votes[i].about = q /\ votes[j].about = q
                                       /\ votes[i].vote = "dislike" /\ votes[j].vote = "like"})
=============================================================================
