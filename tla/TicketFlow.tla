----------------------------- MODULE TicketFlow -----------------------------
(***************************************************************************)
(* The life of one operation ticket made from a proactive run, and the     *)
(* copy of its status that the run keeps.                                  *)
(*                                                                         *)
(* A request locks the ticket's row, checks its status, works (the audit   *)
(* of a submitted ticket calls a model) and commits.  It then writes the   *)
(* status it committed back to the run in a second transaction, which      *)
(* reads the run without a lock and writes the whole timeline.             *)
(***************************************************************************)
EXTENDS Naturals, Sequences

CONSTANTS
    Clerks,          \* concurrent requests
    NoClerk,         \* the owner of a free lock
    MaxTicketEdits,  \* bound: requests that leave the status as it is
    TicketMaxFaults  \* bound: crashes and failed transactions

ASSUME TicketAssumption ==
    NoClerk \notin Clerks /\ MaxTicketEdits \in Nat /\ TicketMaxFaults \in Nat

VARIABLES
    ticketState, ticketDeleted, \* the ticket
    ticketLock,                 \* who holds its row lock
    runStatus, timeline,        \* ticket_status and ticket_timeline_json of the run
    ticketPc,                   \* ticketPc[c]: where the request is
    ticketOp,                   \* ticketOp[c]: what it does
    ticketNote,                 \* ticketNote[c]: the status it has to write back
    ticketSeen,                 \* ticketSeen[c]: the timeline it read
    ticketEdits, ticketFaults

ticketRow == <<ticketState, ticketDeleted, ticketLock>>
runCopy == <<runStatus, timeline>>
ticketRequests == <<ticketPc, ticketOp, ticketNote, ticketSeen>>
ticketVars == <<ticketRow, runCopy, ticketRequests, ticketEdits, ticketFaults>>

TicketStatus == {"draft", "pending_review", "reviewed", "issued", "in_execution",
                 "completed", "archived", "rejected"}
Operations == {"update", "submit", "approve", "reject", "issue", "start", "complete",
               "archive", "delete"}
Known == TicketStatus \cup {"deleted"}

\* The statuses an operation accepts, and those it leaves the ticket in: an audit
\* that scores high reviews the ticket at once.
From(o) == CASE o \in {"update", "submit"}  -> {"draft"}
             [] o \in {"approve", "reject"} -> {"pending_review", "reviewed"}
             [] o = "issue"                 -> {"reviewed"}
             [] o = "start"                 -> {"issued"}
             [] o = "complete"              -> {"in_execution"}
             [] o = "archive"               -> {"completed"}
             [] o = "delete"                -> TicketStatus

To(o) == CASE o = "update"   -> {"draft"}
           [] o = "submit"   -> {"pending_review", "reviewed"}
           [] o = "approve"  -> {"reviewed"}
           [] o = "reject"   -> {"rejected"}
           [] o = "issue"    -> {"issued"}
           [] o = "start"    -> {"in_execution"}
           [] o = "complete" -> {"completed"}
           [] o = "archive"  -> {"archived"}

TicketTypeOK ==
    /\ ticketState \in TicketStatus /\ ticketDeleted \in BOOLEAN
    /\ ticketLock \in Clerks \cup {NoClerk}
    /\ runStatus \in Known /\ timeline \in Seq(Known)
    /\ ticketPc \in [Clerks -> {"idle", "locked", "syncing", "writing"}]
    /\ ticketOp \in [Clerks -> Operations]
    /\ ticketNote \in [Clerks -> Known]
    /\ ticketSeen \in [Clerks -> Seq(Known)]
    /\ ticketEdits \in 0..MaxTicketEdits /\ ticketFaults \in 0..TicketMaxFaults

\* run_to_ticket has committed the draft and the first entry of the timeline.
TicketInit ==
    /\ ticketState = "draft" /\ ticketDeleted = FALSE /\ ticketLock = NoClerk
    /\ runStatus = "draft" /\ timeline = <<"draft">>
    /\ ticketPc = [c \in Clerks |-> "idle"]
    /\ ticketOp = [c \in Clerks |-> "update"]
    /\ ticketNote = [c \in Clerks |-> "draft"]
    /\ ticketSeen = [c \in Clerks |-> <<>>]
    /\ ticketEdits = 0 /\ ticketFaults = 0

ClerkGoes(c, place) == ticketPc' = [ticketPc EXCEPT ![c] = place]

\* Mutant: the row is read without FOR UPDATE.
ReadsFreely(c) == TRUE

\* _ticket_query with for_update.
MayLock(c) == ticketLock = NoClerk

\* The request has the row and its status allows the operation.
LockRow(c, o) ==
    /\ ticketPc[c] = "idle"
    /\ MayLock(c)
    /\ ~ticketDeleted /\ ticketState \in From(o)
    /\ ticketEdits + 1 <= MaxTicketEdits \/ o \notin {"update", "approve"}
    /\ ticketEdits' = IF o \in {"update", "approve"} THEN ticketEdits + 1 ELSE ticketEdits
    /\ ticketLock' = c
    /\ ClerkGoes(c, "locked")
    /\ ticketOp' = [ticketOp EXCEPT ![c] = o]
    /\ UNCHANGED <<ticketState, ticketDeleted, runCopy, ticketNote, ticketSeen,
                   ticketFaults>>

\* The history gets an entry for each change.
Commit(c) ==
    /\ ticketPc[c] = "locked" /\ ticketOp[c] # "delete"
    /\ \E s \in To(ticketOp[c]) :
          /\ ticketState' = s
          /\ ticketNote' = [ticketNote EXCEPT ![c] = s]
    /\ ticketLock' = NoClerk
    /\ ClerkGoes(c, "syncing")
    /\ UNCHANGED <<ticketDeleted, runCopy, ticketOp, ticketSeen, ticketEdits, ticketFaults>>

\* Mutant: deletion is one more status.
DeleteByStatus(c) ==
    /\ ticketPc[c] = "locked" /\ ticketOp[c] = "delete"
    /\ ticketState' = "deleted"
    /\ ticketNote' = [ticketNote EXCEPT ![c] = "deleted"]
    /\ ticketLock' = NoClerk
    /\ ClerkGoes(c, "syncing")
    /\ UNCHANGED <<ticketDeleted, runCopy, ticketOp, ticketSeen, ticketEdits, ticketFaults>>

\* delete_ticket: the row is flagged.
DeleteTicket(c) ==
    /\ ticketPc[c] = "locked" /\ ticketOp[c] = "delete"
    /\ ticketDeleted' = TRUE
    /\ ticketNote' = [ticketNote EXCEPT ![c] = "deleted"]
    /\ ticketLock' = NoClerk
    /\ ClerkGoes(c, "syncing")
    /\ UNCHANGED <<ticketState, runCopy, ticketOp, ticketSeen, ticketEdits, ticketFaults>>

\* sync_proactive_ticket_status skips a status the run shows already.
News(c) == ticketNote[c] # runStatus

ReadRun(c) ==
    /\ ticketPc[c] = "syncing"
    /\ News(c)
    /\ ticketSeen' = [ticketSeen EXCEPT ![c] = timeline]
    /\ ClerkGoes(c, "writing")
    /\ UNCHANGED <<ticketRow, runCopy, ticketOp, ticketNote, ticketEdits, ticketFaults>>

NothingNew(c) ==
    /\ ticketPc[c] = "syncing"
    /\ ~News(c)
    /\ ClerkGoes(c, "idle")
    /\ UNCHANGED <<ticketRow, runCopy, ticketOp, ticketNote, ticketSeen, ticketEdits, ticketFaults>>

WriteRun(c) ==
    /\ ticketPc[c] = "writing"
    /\ runStatus' = ticketNote[c]
    /\ timeline' = Append(ticketSeen[c], ticketNote[c])
    /\ ticketSeen' = [ticketSeen EXCEPT ![c] = <<>>]
    /\ ClerkGoes(c, "idle")
    /\ UNCHANGED <<ticketRow, ticketOp, ticketNote, ticketEdits, ticketFaults>>

\* The request dies, or one of its transactions is rolled back; the write-back
\* swallows its errors.
Stops(c) ==
    /\ ticketPc[c] # "idle"
    /\ ticketFaults < TicketMaxFaults
    /\ ticketFaults' = ticketFaults + 1
    /\ ticketLock' = IF ticketLock = c THEN NoClerk ELSE ticketLock
    /\ ticketSeen' = [ticketSeen EXCEPT ![c] = <<>>]
    /\ ClerkGoes(c, "idle")
    /\ UNCHANGED <<ticketState, ticketDeleted, runCopy, ticketOp, ticketNote,
                   ticketEdits>>

TicketNext ==
    \E c \in Clerks :
        \/ \E o \in Operations : LockRow(c, o)
        \/ Commit(c) \/ DeleteTicket(c)
        \/ ReadRun(c) \/ NothingNew(c) \/ WriteRun(c)
        \/ Stops(c)

TicketSpec == TicketInit /\ [][TicketNext]_ticketVars

-----------------------------------------------------------------------------
(* Properties.                                                             *)

\* Where a ticket may go from where it is: draft, review, issue, execution, archive.
Successors(s) ==
    CASE s = "draft"                    -> {"pending_review", "reviewed"}
      [] s = "pending_review"           -> {"reviewed", "rejected"}
      [] s = "reviewed"                 -> {"rejected", "issued"}
      [] s = "issued"                   -> {"in_execution"}
      [] s = "in_execution"             -> {"completed"}
      [] s = "completed"                -> {"archived"}
      [] s \in {"archived", "rejected"} -> {}

\* However many requests handle a ticket at once, it only moves forward, and not at
\* all once it is deleted, rejected or archived.
LegalMove ==
    [][/\ ticketState' # ticketState => ~ticketDeleted /\ ticketState' \in Successors(ticketState)
       /\ ticketDeleted => ticketDeleted']_ticketVars

Quiet == \A c \in Clerks : ticketPc[c] = "idle"

\* Once the requests are done, the run shows the result of the ticket.
FinalResultVisible == Quiet /\ ticketState \in {"completed", "archived"} /\ ~ticketDeleted =>
                          runStatus = ticketState
=============================================================================
