---------------------------- MODULE TicketAudit ----------------------------
(***************************************************************************)
(* The audit of an operation ticket that is handed in: its fields are      *)
(* written out as a text, the text is read again line by line, rules and   *)
(* a model look for findings, and a score that is high enough spares the   *)
(* ticket the review.                                                      *)
(***************************************************************************)
EXTENDS Naturals, Sequences, FiniteSetsExt

CONSTANTS
    Pieces4Tickets,   \* what may be written in a field of a ticket
    ModelFindings,    \* what a model may find: how many of each severity
    MaxSteps,         \* bound: steps of a ticket
    MaxSafety,        \* bound: safety measures
    MaxRisks          \* bound: risks

\* Of a text it matters whether its line is long, which fields it seems to name, whether the
\* number of the order in it has an odd form, and what is done or said in it.
ASSUME AuditAssumption ==
    /\ \A p \in Pieces4Tickets :
          /\ p.long \in BOOLEAN /\ p.odd \in BOOLEAN /\ p.names \subseteq {"dispatch", "operator"}
          /\ p.words \subseteq {"test", "hang", "earth", "risky", "blocked"}
    /\ ModelFindings \subseteq [critical : Nat, major : Nat, minor : Nat]
    /\ MaxSteps \in Nat /\ MaxSafety \in Nat /\ MaxRisks \in Nat

VARIABLES
    paper,            \* the ticket
    paperStatus,      \* "draft", then "pending_review" or "reviewed"
    auditReport

auditVars == <<paper, paperStatus, auditReport>>

-----------------------------------------------------------------------------
(* The text, and how it is read.                                           *)

Unwritten == [long |-> FALSE, odd |-> FALSE, names |-> {}, words |-> {}]

Line(marker, field, names, piece) ==
    [marker |-> marker, field |-> field, long |-> piece.long, odd |-> piece.odd,
     names |-> names, words |-> piece.words]

Lines(pieces, marker) ==
    [i \in DOMAIN pieces |-> Line(marker, FALSE, pieces[i].names, pieces[i])]

\* _build_ticket_text: a line for the task, and one for each step, measure and risk with the
\* name of its part in front.  The name of the task takes what follows it, the next line too.
TextOf(ticket) ==
    LET rest == Lines(ticket.steps, "steps") \o Lines(ticket.safety, "safety")
                    \o Lines(ticket.risks, "dangers")
        named == IF ticket.task = Unwritten /\ rest = <<>> THEN {} ELSE {"task"} IN
    <<Line("none", TRUE, ticket.task.names \cup named, ticket.task)>> \o rest

\* A short line with the name of a part is the heading of that part, and nothing else.
IsHeading(line) == line.marker # "none" /\ ~line.long

\* What stands under the headings of a part: a line that begins with the name of a field belongs
\* to none, and what comes before every heading is dropped, unless it is numbered, which these
\* lines are not.
Under(text, part) ==
    LET heads == {i \in DOMAIN text : IsHeading(text[i])} IN
    {i \in DOMAIN text \ heads :
        /\ ~text[i].field
        /\ \E h \in heads : /\ h < i /\ text[h].marker = part
                            /\ \A g \in heads : g <= h \/ g > i}

\* parse_ticket
Parsed(text) ==
    [lines |-> text,
     parts |-> [part \in {"steps", "safety", "dangers"} |-> Under(text, part)],
     names |-> UNION {line.names : line \in Range(text)},
     words |-> UNION {line.words : line \in Range(text)},
     odd |-> LET by == {i \in DOMAIN text : "dispatch" \in text[i].names} IN
             by # {} /\ text[Min(by)].odd]

-----------------------------------------------------------------------------
(* The findings.                                                           *)

FirstWith(p, word) ==
    LET with == {i \in p.parts.steps : word \in p.lines[i].words}
    IN  IF with = {} THEN 0 ELSE Min(with)

\* A rule of order is about the first step of each kind, and asks for nothing if one is missing.
OutOfOrder(p, before, after) ==
    FirstWith(p, before) # 0 /\ FirstWith(p, before) < FirstWith(p, after)

\* _rule_check
RuleFindings(p) ==
    [critical |-> Cardinality({w \in {"hang", "earth"} : OutOfOrder(p, w, "test")})
                     + (IF "task" \in p.names THEN 0 ELSE 1),
     major |-> Cardinality({"dispatch", "operator"} \ p.names)
                   + (IF p.words \cap {"hang", "earth", "risky"} # {} /\ p.parts.dangers = {}
                      THEN 1 ELSE 0)
                   + (IF "blocked" \in p.words THEN 1 ELSE 0),
     minor |-> IF p.odd THEN 1 ELSE 0]

NoFindings == [critical |-> 0, major |-> 0, minor |-> 0]

\* What a model calls by another name counts as minor.
Deducted(f) == 35 * f.critical + 15 * f.major + 5 * f.minor

ScoreOf(f) == IF Deducted(f) > 100 THEN 0 ELSE 100 - Deducted(f)

BothFound(f, g) ==
    [critical |-> f.critical + g.critical, major |-> f.major + g.major,
     minor |-> f.minor + g.minor]

\* audit_ticket: a text without a task or a step is not audited further; a model that fails
\* finds nothing.
AuditOf(text, found) ==
    LET p == Parsed(text) IN
    IF "task" \notin p.names /\ p.parts.steps = {}
    THEN [score |-> 0, findings |-> [NoFindings EXCEPT !.critical = 1], read |-> p]
    ELSE LET f == BothFound(RuleFindings(p), found) IN
         [score |-> ScoreOf(f), findings |-> f, read |-> p]

-----------------------------------------------------------------------------

NotAudited == [score |-> 0, findings |-> NoFindings, read |-> Parsed(<<>>)]

AuditTypeOK ==
    /\ paper.task \in Pieces4Tickets \cup {Unwritten}
    /\ \A part \in {"steps", "safety", "risks"} : paper[part] \in Seq(Pieces4Tickets)
    /\ paperStatus \in {"draft", "pending_review", "reviewed"}
    /\ auditReport.score \in 0..100

AuditInit ==
    /\ paper = [task |-> Unwritten, steps |-> <<>>, safety |-> <<>>, risks |-> <<>>]
    /\ paperStatus = "draft" /\ auditReport = NotAudited

\* update_ticket: a draft is changed; here one piece at a time.
WritePiece(piece) ==
    /\ paperStatus = "draft"
    /\ \/ paper' = [paper EXCEPT !.task = piece]
       \/ Len(paper.steps) < MaxSteps /\ paper' = [paper EXCEPT !.steps = Append(@, piece)]
       \/ Len(paper.safety) < MaxSafety /\ paper' = [paper EXCEPT !.safety = Append(@, piece)]
       \/ Len(paper.risks) < MaxRisks /\ paper' = [paper EXCEPT !.risks = Append(@, piece)]
    /\ UNCHANGED <<paperStatus, auditReport>>

\* submit_for_review: an audit that breaks off leaves the ticket to the reviewers.
HandIn ==
    /\ paperStatus = "draft"
    /\ \/ \E found \in ModelFindings \cup {NoFindings} :
             /\ auditReport' = AuditOf(TextOf(paper), found)
             /\ paperStatus' = IF auditReport'.score >= 85 THEN "reviewed" ELSE "pending_review"
       \/ paperStatus' = "pending_review" /\ UNCHANGED auditReport
    /\ UNCHANGED paper

AuditNext == (\E piece \in Pieces4Tickets : WritePiece(piece)) \/ HandIn

AuditSpec == AuditInit /\ [][AuditNext]_auditVars

-----------------------------------------------------------------------------
(* Properties.                                                             *)

Written4(part) == UNION {paper[part][i].words : i \in DOMAIN paper[part]}
AllWritten4 ==
    paper.task.words \cup UNION {Written4(part) : part \in {"steps", "safety", "risks"}}

\* A ticket that is spared the review has nothing critical, and at most one thing that is major.
SparedIsClean ==
    paperStatus = "reviewed" =>
        /\ auditReport.findings.critical = 0 /\ auditReport.findings.major <= 1
        /\ auditReport.findings.major = 1 => auditReport.findings.minor = 0

\* A ticket has no field for the number of its order or for who is in charge: it is spared the
\* review only if somebody wrote one of them into another field.
SparedNamesSomeone ==
    paperStatus = "reviewed" => auditReport.read.names \cap {"dispatch", "operator"} # {}

\* A forbidden expression costs the ticket points wherever it stands, in a line that is dropped
\* as well; and so does risky work if no risk is read.
BlockedIsSeen ==
    /\ auditReport # NotAudited /\ "blocked" \in AllWritten4 => auditReport.score <= 85
    /\ auditReport # NotAudited /\ AllWritten4 \cap {"risky", "hang", "earth"} # {}
           /\ paper.risks = <<>> => auditReport.score <= 85

\* Nothing is read that was not written, and nothing that is short enough to be a heading.
ReadIsWritten ==
    \A part \in {"steps", "safety", "dangers"} : \A i \in auditReport.read.parts[part] :
        /\ auditReport.read.lines[i].words \subseteq AllWritten4
        /\ auditReport.read.lines[i].long

AuditKept == SparedIsClean /\ SparedNamesSomeone /\ BlockedIsSeen /\ ReadIsWritten

\* "Concatenates the fields to the complete text": every step is read as a step.
StepsAreRead ==
    auditReport # NotAudited =>
        Cardinality(auditReport.read.parts.steps) = Len(paper.steps)

\* Risks that are listed are read.
RisksAreRead ==
    auditReport # NotAudited /\ paper.risks # <<>> => auditReport.read.parts.dangers # {}

\* "Test first, then earth": no ticket that earths before it tests is spared the review.
EarthedIsTested ==
    paperStatus = "reviewed" => \A i \in DOMAIN paper.steps :
        "earth" \in paper.steps[i].words => \E j \in 1..i : "test" \in paper.steps[j].words
=============================================================================
