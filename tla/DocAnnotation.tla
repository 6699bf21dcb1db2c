--------------------------- MODULE DocAnnotation ---------------------------
(***************************************************************************)
(* An annotation of a document: replies, resolved or open, deleted, and    *)
(* turned into a governance issue once per version of the annotation.      *)
(*                                                                         *)
(* Requests load the row in the snapshot of their authentication and       *)
(* commit later.  A version is the value of updated_at.                    *)
(***************************************************************************)
EXTENDS Naturals, Sequences, FiniteSets, OrmSession

CONSTANTS
    Annotators,      \* concurrent requests
    RepliesOverlap,  \* may two replies be under way at once
    MaxReplies,      \* bound: replies
    MaxVersions      \* bound: changes of the row

ASSUME AnnotationAssumption ==
    RepliesOverlap \in BOOLEAN /\ MaxReplies \in Nat /\ MaxVersions \in Nat

VARIABLES
    note,            \* the row: present, resolved, replies, version
    issues,          \* the issues made from it, a bag: how many for each version
    notePc, noteOp,
    noteView,        \* noteView[r]: the row as r loaded it
    noteIssues,      \* noteIssues[r]: the issues as r saw them in its snapshot
    answered         \* history: replies acknowledged

noteVars == <<note, issues, notePc, noteOp, noteView, noteIssues, answered>>

NewNote == [present |-> TRUE, resolved |-> FALSE, replies |-> <<>>, version |-> 0]
NoteOps == {"reply", "resolve", "reopen", "delete", "convert"}

NoteRow(row) ==
    /\ DOMAIN row = DOMAIN NewNote
    /\ row.present \in BOOLEAN /\ row.resolved \in BOOLEAN
    /\ row.replies \in Seq(Annotators) /\ row.version \in 0..MaxVersions

Issues == [0..MaxVersions -> Nat]
NoIssue == [version \in 0..MaxVersions |-> 0]

AnnotationTypeOK ==
    /\ NoteRow(note) /\ issues \in Issues
    /\ \A r \in Annotators : /\ notePc[r] \in {"idle", "loaded"}
                             /\ noteOp[r] \in NoteOps
                             /\ NoteRow(noteView[r]) /\ noteIssues[r] \in Issues
    /\ answered \in Seq(Annotators)

AnnotationInit ==
    /\ note = NewNote /\ issues = NoIssue
    /\ notePc = [r \in Annotators |-> "idle"] /\ noteOp = [r \in Annotators |-> "reply"]
    /\ noteView = [r \in Annotators |-> NewNote] /\ noteIssues = [r \in Annotators |-> NoIssue]
    /\ answered = <<>>

\* Every operation finds the row; a second reply waits unless replies may overlap.
LoadNote(r, o) ==
    /\ notePc[r] = "idle" /\ note.present
    /\ Cardinality({q \in Annotators : notePc[q] = "loaded"}) + note.version < MaxVersions
    /\ o = "reply" => /\ Len(answered) < MaxReplies
                      /\ \/ RepliesOverlap
                         \/ \A q \in Annotators : ~(notePc[q] = "loaded" /\ noteOp[q] = "reply")
    /\ notePc' = [notePc EXCEPT ![r] = "loaded"]
    /\ noteOp' = [noteOp EXCEPT ![r] = o]
    /\ noteView' = [noteView EXCEPT ![r] = note]
    /\ noteIssues' = [noteIssues EXCEPT ![r] = issues]
    /\ UNCHANGED <<note, issues, answered>>

Done(r) ==
    /\ notePc' = [notePc EXCEPT ![r] = "idle"]
    /\ noteView' = [noteView EXCEPT ![r] = NewNote]
    /\ noteIssues' = [noteIssues EXCEPT ![r] = NoIssue]
    /\ UNCHANGED noteOp

\* What the operation makes of the row it loaded.
Changed(r) ==
    CASE noteOp[r] = "reply"   -> [noteView[r] EXCEPT !.replies = Append(@, r)]
      [] noteOp[r] = "resolve" -> [noteView[r] EXCEPT !.resolved = TRUE]
      [] noteOp[r] = "reopen"  -> [noteView[r] EXCEPT !.resolved = FALSE]

\* Mutant: the whole row is written back.
WrittenWhole(now, read, new) == new

Written(now, read, new) == Flushed(now, read, new)

\* reply_annotation and resolve_annotation.  An update moves updated_at, which counts
\* seconds: two updates may share a version.  One that changes nothing is not sent, and
\* one of a deleted row fails.
ChangeNote(r) ==
    /\ notePc[r] = "loaded" /\ noteOp[r] \in {"reply", "resolve", "reopen"}
    /\ IF note.present /\ Changed(r) # noteView[r]
       THEN \E version \in {note.version, note.version + 1} :
               note' = [Written(note, noteView[r], Changed(r)) EXCEPT !.version = version]
       ELSE UNCHANGED note
    /\ answered' = IF note.present /\ noteOp[r] = "reply" THEN Append(answered, r) ELSE answered
    /\ Done(r)
    /\ UNCHANGED issues

DeleteNote(r) ==
    /\ notePc[r] = "loaded" /\ noteOp[r] = "delete"
    /\ note' = [note EXCEPT !.present = FALSE]
    /\ Done(r)
    /\ UNCHANGED <<issues, answered>>

\* uq_kg_issue_tenant_fingerprint.
Refused(version) == issues[version] > 0

\* to_governance_issue: the fingerprint is that of the version loaded, so a version finds
\* the issue it has become; the unique index settles two conversions at once.
ConvertNote(r) ==
    /\ notePc[r] = "loaded" /\ noteOp[r] = "convert"
    /\ LET version == noteView[r].version IN
       issues' = IF noteIssues[r][version] > 0 \/ Refused(version) THEN issues
                 ELSE [issues EXCEPT ![version] = issues[version] + 1]
    /\ Done(r)
    /\ UNCHANGED <<note, answered>>

AnnotationNext ==
    \E r \in Annotators :
        \/ \E o \in NoteOps : LoadNote(r, o)
        \/ ChangeNote(r) \/ DeleteNote(r) \/ ConvertNote(r)

AnnotationSpec == AnnotationInit /\ [][AnnotationNext]_noteVars

-----------------------------------------------------------------------------
(* Properties.                                                             *)

\* While replies come one at a time, no resolution, reopening or conversion that overlaps
\* them takes an acknowledged reply away.
RepliesKept == ~RepliesOverlap => note.replies = answered

\* A version of an annotation becomes one issue, also when two people convert it at once.
OneIssuePerVersion == \A version \in 0..MaxVersions : issues[version] <= 1

\* Neither a reply nor the identity of an issue is lost in an overlap.
AnnotationKept == RepliesKept /\ OneIssuePerVersion
=============================================================================
