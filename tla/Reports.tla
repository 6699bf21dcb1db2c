------------------------------ MODULE Reports -------------------------------
(***************************************************************************)
(* Reports made in the background: the operations reports, which a request *)
(* or the loop asks for and a task of the process writes, and the matrix   *)
(* that compares settings, which a process of its own computes.            *)
(***************************************************************************)
EXTENDS Integers, Sequences, FiniteSets, OrmSession

CONSTANTS
    Readers,          \* people who have a report made again
    MaxReports,       \* bound: reports
    MaxWritings,      \* bound: times a report is written
    MaxReportWork,    \* bound: reports and writings together
    ReportMaxFaults,  \* bound: stops of the process and failures of the database
    Scores            \* results of a setting: how much was found, how often nothing, how slowly

ASSUME ReportAssumption ==
    /\ MaxReports \in Nat /\ MaxWritings \in Nat /\ MaxReportWork \in Nat
    /\ ReportMaxFaults \in Nat
    /\ \A s \in Scores : s.recall \in Int /\ s.empty \in Int /\ s.latency \in Int

VARIABLES
    reports,       \* the rows
    readers,       \* what somebody who wants a report made again has read
    writings,      \* the tasks that write: which report, and the row as they read it
    loopCounted,   \* the loop has found no report of its type in work
    unfinished,    \* history: reports whose writing was lost after it had been announced
    notices,          \* what the notices said
    writtenAlone,  \* history: no report was written, or asked for again, by two at once
    faultsLeft,
    matrix,        \* the matrix: whether it is marked as running, what it left, its notice
    compared       \* the processes that compute a matrix, those of earlier lives included

reportVars ==
    <<reports, readers, writings, loopCounted, unfinished, notices, writtenAlone, faultsLeft>>
matrixVars == <<matrix, compared>>
allReportVars == <<reportVars, matrixVars>>

ReportIds == 1..MaxReports
Types == {"shift", "weekly"}
AutoTypes == {"weekly"}                       \* OPS_REPORT_AUTO_TYPES
Creators == {"person", "system"}
Concluded == {"done", "failed"}

\* A part of a report is named by the writing it comes from; the template gives the same
\* sections and summary as long as the facts are the same.
Nothing == 0
Template == MaxWritings + 1
Parts == 0..Template

NoReport == [status |-> "none", type |-> "shift", by |-> "system", sections |-> Nothing,
             text |-> Nothing, error |-> FALSE]
ReportRows == [status : {"none", "generating", "gone"} \cup Concluded, type : Types,
         by : Creators, sections : Parts, text : Parts, error : BOOLEAN]
AtRest == [of |-> 0, saw |-> NoReport, begun |-> FALSE]

NoMatrix == [active |-> FALSE, error |-> FALSE, notice |-> "none", left |-> [v \in {} |-> "none"]]

ReportTypeOK ==
    /\ reports \in [ReportIds -> ReportRows]
    /\ \A c \in Readers : readers[c].of \in 0..MaxReports /\ readers[c].saw \in ReportRows
    /\ Len(writings) <= MaxWritings
    /\ \A w \in DOMAIN writings :
          /\ writings[w].of \in 0..MaxReports /\ writings[w].saw \in ReportRows
          /\ writings[w].begun \in BOOLEAN
    /\ loopCounted \in BOOLEAN /\ unfinished \subseteq ReportIds
    /\ notices \subseteq ReportIds \X Concluded /\ writtenAlone \in BOOLEAN
    /\ faultsLeft \in 0..ReportMaxFaults
    /\ matrix.active \in BOOLEAN /\ matrix.error \in BOOLEAN
    /\ matrix.notice \in {"none", "done", "system"}
    /\ compared \subseteq {"mine", "orphan"}

ReportsInit ==
    /\ reports = [r \in ReportIds |-> NoReport]
    /\ readers = [c \in Readers |-> AtRest] /\ writings = <<>>
    /\ loopCounted = FALSE /\ unfinished = {} /\ notices = {} /\ writtenAlone = TRUE
    /\ faultsLeft = ReportMaxFaults
    /\ matrix = NoMatrix /\ compared = {}

-----------------------------------------------------------------------------
(* Operations reports: asked for.                                          *)

ReportFault == faultsLeft > 0 /\ faultsLeft' = faultsLeft - 1

KnownReports == Cardinality({r \in ReportIds : reports[r].status # "none"})

\* What follows the commit that shows the report as in work: its columns are read again and
\* the task is made, unless the process stops or the database does not answer in between.
Announce(r, current) ==
    \/ /\ Len(writings) < MaxWritings /\ Len(writings) + KnownReports < MaxReportWork
       /\ writings' = Append(writings, [AtRest EXCEPT !.of = r])
       /\ writtenAlone' = (writtenAlone /\ current
                           /\ \A w \in DOMAIN writings : writings[w].of # r)
       /\ UNCHANGED <<unfinished, faultsLeft>>
    \/ ReportFault /\ unfinished' = unfinished \cup {r} /\ UNCHANGED <<writings, writtenAlone>>

\* create_report.
Create(r, type, by) ==
    /\ reports[r].status = "none" /\ \A q \in 1..(r - 1) : reports[q].status # "none"
    /\ reports' = [reports EXCEPT ![r] =
                      [NoReport EXCEPT !.status = "generating", !.type = type, !.by = by]]
    /\ Announce(r, TRUE)
    /\ UNCHANGED <<readers, notices>>

AskForReport(type) ==
    /\ \E r \in ReportIds : Create(r, type, "person")
    /\ UNCHANGED loopCounted

\* regenerate reads the row and refuses one that is in work ...
WantAgain(c, r) ==
    /\ readers[c].of = 0 /\ reports[r].status \in Concluded
    /\ readers' = [readers EXCEPT ![c] = [AtRest EXCEPT !.of = r, !.saw = reports[r]]]
    /\ UNCHANGED <<reports, writings, loopCounted, unfinished, notices, writtenAlone, faultsLeft>>

\* ... and writes what differs from what it has read; the row may be gone by then.
WriteAgain(c) ==
    /\ readers[c].of # 0
    /\ LET r == readers[c].of
           saw == readers[c].saw
       IN
       \/ /\ reports[r].status # "gone"
          /\ reports' = [reports EXCEPT ![r] =
                 Flushed(@, saw, [saw EXCEPT !.status = "generating", !.error = FALSE])]
          /\ Announce(r, reports[r] = saw)
       \/ /\ reports[r].status = "gone"
          /\ UNCHANGED <<reports, writings, unfinished, writtenAlone, faultsLeft>>
    /\ readers' = [readers EXCEPT ![c] = AtRest]
    /\ UNCHANGED <<loopCounted, notices>>

\* delete_report, whatever is being done about it.
DeleteReport(r) ==
    /\ reports[r].status \notin {"none", "gone"}
    /\ reports' = [reports EXCEPT ![r] = [NoReport EXCEPT !.status = "gone"]]
    /\ UNCHANGED <<readers, writings, loopCounted, unfinished, notices, writtenAlone, faultsLeft>>

\* auto_report_loop leaves out a type of which a report is in work, whoever asked for it.
InWork(type) == \E r \in ReportIds : reports[r].status = "generating" /\ reports[r].type = type

LoopCounts ==
    /\ ~loopCounted /\ \E t \in AutoTypes : ~InWork(t)
    /\ loopCounted' = TRUE
    /\ UNCHANGED <<reports, readers, writings, unfinished, notices, writtenAlone, faultsLeft>>

LoopCreates ==
    /\ loopCounted /\ loopCounted' = FALSE
    /\ \E r \in ReportIds, t \in AutoTypes : Create(r, t, "system")

-----------------------------------------------------------------------------
(* Operations reports: written.                                            *)

\* _generate opens a session of its own and reads the row.
BeginReport(w) ==
    /\ writings[w].of # 0 /\ ~writings[w].begun
    /\ LET r == writings[w].of IN
       writings' = [writings EXCEPT ![w] =
           IF reports[r].status = "gone" THEN AtRest
           ELSE [@ EXCEPT !.begun = TRUE, !.saw = reports[r]]]
    /\ UNCHANGED <<reports, readers, loopCounted, unfinished, notices, writtenAlone, faultsLeft>>

\* The row as the writing leaves it: its parts only if it did not fail.
WrittenBy(w, sections, status) ==
    LET saw == writings[w].saw
        new == IF status = "failed" THEN [saw EXCEPT !.status = status, !.error = TRUE]
               ELSE [saw EXCEPT !.status = status, !.sections = sections, !.text = w]
    IN  Flushed(reports[writings[w].of], saw, new)

\* collect_data passes over the sources that fail; without a model the template makes the
\* sections, which fails when the shift records could not be read.
EndReport(w) ==
    /\ writings[w].begun
    /\ LET r == writings[w].of IN
       \/ \E lost \in SUBSET {"handovers", "another"}, model \in BOOLEAN :
             LET status == IF model \/ "handovers" \notin lost THEN "done" ELSE "failed" IN
             /\ reports[r].status # "gone"
             /\ reports' = [reports EXCEPT ![r] =
                               WrittenBy(w, IF model THEN w ELSE Template, status)]
             /\ notices' = notices \cup {<<r, status>>}
             /\ UNCHANGED <<unfinished, faultsLeft>>
       \/ \* The row is gone, and the UPDATE fails.
          /\ reports[r].status = "gone"
          /\ UNCHANGED <<reports, notices, unfinished, faultsLeft>>
       \/ \* A source lost the connection, and the commit fails with it.
          /\ reports[r].status # "gone" /\ ReportFault /\ unfinished' = unfinished \cup {r}
          /\ UNCHANGED <<reports, notices>>
    /\ writings' = [writings EXCEPT ![w] = AtRest]
    /\ UNCHANGED <<readers, loopCounted, writtenAlone>>

\* The process stops; the rows stay as they are.
StopReports ==
    /\ ReportFault
    /\ unfinished' = unfinished \cup ({writings[w].of : w \in DOMAIN writings} \ {0})
    /\ writings' = [w \in DOMAIN writings |-> AtRest]
    /\ readers' = [c \in Readers |-> AtRest] /\ loopCounted' = FALSE
    /\ UNCHANGED <<reports, notices, writtenAlone>>

-----------------------------------------------------------------------------
(* The matrix of settings.                                                 *)

AdoptGain == 100         \* _ADOPT_GAIN of what was found, in ten-thousandths
RegressEps == 50         \* _REGRESS_EPS

\* compute_delta and build_verdict: something worse, a gain worth its price, or neither.
Verdict(base, new) ==
    IF new.recall - base.recall < -RegressEps \/ new.empty - base.empty > RegressEps
    THEN "withdraw"
    ELSE IF new.recall - base.recall >= AdoptGain THEN "adopt" ELSE "leave_off"

\* aggregate: a variant has a row if its probe came back, and a verdict if that of the
\* baseline came back too.
MatrixOf(probes) ==
    [v \in DOMAIN probes |->
        IF v = "baseline" \/ "baseline" \notin DOMAIN probes THEN "none"
        ELSE Verdict(probes["baseline"], probes[v])]

\* run_matrix_async: refused while one is marked as running.
StartMatrix ==
    /\ ~matrix.active
    /\ matrix' = [matrix EXCEPT !.active = TRUE, !.error = FALSE]
    /\ UNCHANGED compared

\* _bg starts the process, or fails to.
SpawnMatrix ==
    /\ matrix.active /\ "mine" \notin compared /\ ~matrix.error
    /\ \/ compared' = compared \cup {"mine"} /\ UNCHANGED matrix
       \/ matrix' = [matrix EXCEPT !.error = TRUE] /\ UNCHANGED compared

\* The process ends, or did not start: the mark is taken away and the notice made without
\* giving way.
EndMatrix ==
    /\ matrix.active /\ ("mine" \in compared \/ matrix.error)
    /\ \E well \in BOOLEAN, names \in SUBSET {"baseline", "variant"} :
          \E probes \in [names -> Scores] :
             LET error == matrix.error \/ ~well IN
             matrix' = [active |-> FALSE, error |-> error,
                        notice |-> IF error THEN "system" ELSE "done",
                        left |-> IF error THEN matrix.left ELSE MatrixOf(probes)]
    /\ compared' = compared \ {"mine"}

\* The server stops, and its child goes on.
StopMatrix ==
    /\ ReportFault
    /\ matrix' = [NoMatrix EXCEPT !.left = matrix.left]
    /\ compared' = IF "mine" \in compared THEN {"orphan"} ELSE compared

OrphanEnds ==
    /\ "orphan" \in compared /\ compared' = compared \ {"orphan"}
    /\ \E s \in Scores : matrix' = [matrix EXCEPT !.left = MatrixOf([v \in {"baseline"} |-> s])]

ReportsNext ==
    /\ \/ \E t \in Types : AskForReport(t)
       \/ \E c \in Readers : WriteAgain(c) \/ \E r \in ReportIds : WantAgain(c, r)
       \/ \E r \in ReportIds : DeleteReport(r)
       \/ LoopCounts \/ LoopCreates
       \/ \E w \in DOMAIN writings : BeginReport(w) \/ EndReport(w)
       \/ StopReports
    /\ UNCHANGED matrixVars

MatrixNext ==
    /\ \/ (StartMatrix \/ SpawnMatrix \/ EndMatrix \/ OrphanEnds) /\ UNCHANGED faultsLeft
       \/ StopMatrix
    /\ UNCHANGED <<reports, readers, writings, loopCounted, unfinished, notices, writtenAlone>>

ReportsSpec == ReportsInit /\ [][ReportsNext \/ MatrixNext]_allReportVars

-----------------------------------------------------------------------------
(* Properties.                                                             *)

\* A report that is shown as in work is being written, unless its writing was lost.
InWorkIsWorkedOn ==
    \A r \in ReportIds :
        reports[r].status = "generating" /\ r \notin unfinished =>
            \E w \in DOMAIN writings : writings[w].of = r

\* What is shown and what is exported of a finished report come from one writing, and it
\* has no error.
Whole(r) == reports[r].sections \in {reports[r].text, Template} /\ ~reports[r].error

\* That is so unless two wrote it, or asked for it again, at once.
FinishedIsWhole ==
    writtenAlone => \A r \in ReportIds : reports[r].status = "done" => Whole(r)

\* Whoever asked knows how it ended.
AskersKnow ==
    \A r \in ReportIds : reports[r].status \in Concluded => <<r, reports[r].status>> \in notices

\* The loop does not begin a report while the last one it began has not ended.
LoopWaits ==
    \A r, q \in {p \in ReportIds : /\ reports[p].by = "system" /\ reports[p].status = "generating"
                                 /\ \A s \in Concluded : <<p, s>> \notin notices} :
        r = q

\* A process computes one matrix at a time, its notice says how that one went, and a setting
\* worth adopting would be missed if it were given up again.
MatrixIsSound ==
    /\ "mine" \in compared => matrix.active
    /\ ~matrix.active /\ matrix.notice # "none" => (matrix.notice = "system") = matrix.error
    /\ \A a, b \in Scores : Verdict(a, b) = "adopt" => Verdict(b, a) = "withdraw"

ReportsKept == InWorkIsWorkedOn /\ FinishedIsWhole /\ AskersKnow /\ LoopWaits /\ MatrixIsSound

\* "Content, the source of what is shown and exported": of one piece, whoever wrote it.
AlwaysWhole == \A r \in ReportIds : reports[r].status = "done" => Whole(r)

\* "Refused while one is in work": no two matrices are computed at once.
OneMatrix == ~({"mine", "orphan"} \subseteq compared)
=============================================================================
