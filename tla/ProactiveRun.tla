---------------------------- MODULE ProactiveRun ----------------------------
(***************************************************************************)
(* Proactive operations: one real-time event, the diagnosis run it         *)
(* triggers, the alert row that mirrors the run, the tickets made from     *)
(* them, the tasks that execute the run and the people who review it.      *)
(*                                                                         *)
(* The tasks are rows of the persistent queue, seen through LeasedJobs:    *)
(* TaskQueue implements it, so whatever a lease, a revocation or an        *)
(* operator's retry may do there they may do here.                         *)
(*                                                                         *)
(* A review locks the run (FOR UPDATE) but reads the alert, the event and  *)
(* the tickets in the snapshot its request opened at authentication, and   *)
(* an UPDATE leaves out a column that already has, in that snapshot, the   *)
(* value to be written.  The handler locks nothing after its first commit. *)
(***************************************************************************)
EXTENDS Naturals

CONSTANTS
    Workers,      \* task workers
    Nobody,       \* the holder of a task that is not leased
    Operators,    \* concurrent requests of reviewers
    Generations,  \* bound: tasks made for the run, 1 by ingest and the rest by retries
    MaxAttempts,  \* max_attempts of a task (3 in the code)
    Stalls,       \* may a live worker miss its heartbeats past the cutoff?
    LostReplies,  \* may the reply to a commit of the handler be lost?
    AlertApi,     \* is the alert reviewed on its own, too?
    MaxTaskOps,   \* bound: operator retries and terminations of tasks
    MaxFaults     \* bound: crashes, lost replies and failed transactions

ASSUME RunAssumption ==
    /\ Nobody \notin Workers
    /\ Generations \in Nat \ {0}
    /\ MaxAttempts \in Nat \ {0}
    /\ Stalls \in BOOLEAN /\ LostReplies \in BOOLEAN /\ AlertApi \in BOOLEAN
    /\ MaxTaskOps \in Nat /\ MaxFaults \in Nat

VARIABLES
    run,        \* status of the run, "absent" before the event arrives
    current,    \* its task_id: the generation of its task, 0 without one
    draft,      \* its ticket draft: the execution that wrote it
    evt,        \* processing_status of the event
    alert,      \* status of the alert row
    tickets,    \* source_ref of the tickets: the run's, the alert's
    ticketOf,   \* the draft the run's ticket was made from
    published,  \* is the proposal event in the outbox?
    approved,   \* history: the drafts a reviewer confirmed
    state, epoch, holder, outcome,  \* the tasks, one per generation
    pc,         \* pc[w]: where the worker is in the handler
    job,        \* job[w]: the task it executes, 0 for none
    try,        \* try[w]: the attempt it executes
    seen,       \* seen[w]: what the handler's transaction has read
    view,       \* view[o]: what the request's snapshot shows
    taskOps,    \* operator actions on tasks so far
    faults      \* faults so far

rows == <<run, current, draft, evt, alert, tickets, ticketOf, published, approved>>
jobs == <<state, epoch, holder, outcome>>
exec == <<pc, job, try, seen>>
vars == <<rows, jobs, exec, view, taskOps, faults>>

Tasks == 1..Generations

JQ == INSTANCE LeasedJobs WITH Jobs <- Tasks, Holders <- Workers

NoDraft == [task |-> 0, attempt |-> 0]
Drafts == [task : 0..Generations, attempt : Nat]
RunStatuses == {"absent", "ignored", "queued", "running", "proposed", "confirmed",
                "rejected", "ticketed", "failed"}
EventStatuses == {"absent", "ignored", "queued", "processing", "completed", "failed"}
AlertStatuses == {"absent", "pending", "proposed", "confirmed", "rejected", "ticketed",
                  "closed"}

NothingSeen == [alert |-> "absent", published |-> FALSE, run |-> "absent", evt |-> "absent"]
Closed == [open |-> FALSE, alert |-> "absent", evt |-> "absent", tickets |-> {}]

TypeOK ==
    /\ run \in RunStatuses /\ evt \in EventStatuses /\ alert \in AlertStatuses
    /\ current \in 0..Generations
    /\ draft \in Drafts /\ ticketOf \in Drafts /\ approved \subseteq Drafts
    /\ tickets \subseteq {"proactive", "alert-disposal"}
    /\ published \in BOOLEAN
    /\ state \in [Tasks -> {"none", "waiting", "leased", "done", "buried"}]
    /\ epoch \in [Tasks -> Nat] /\ outcome \in [Tasks -> Nat]
    /\ holder \in [Tasks -> Workers \cup {Nobody}]
    /\ pc \in [Workers -> {"idle", "begun", "agent", "failing", "marking", "returning",
                           "raising"}]
    /\ job \in [Workers -> 0..Generations] /\ try \in [Workers -> Nat]
    /\ seen \in [Workers -> [alert : AlertStatuses, published : BOOLEAN,
                             run : RunStatuses, evt : EventStatuses]]
    /\ view \in [Operators -> [open : BOOLEAN, alert : AlertStatuses, evt : EventStatuses,
                               tickets : SUBSET {"proactive", "alert-disposal"}]]
    /\ taskOps \in 0..MaxTaskOps /\ faults \in 0..MaxFaults

Init ==
    /\ run = "absent" /\ evt = "absent" /\ alert = "absent"
    /\ current = 0 /\ draft = NoDraft /\ ticketOf = NoDraft
    /\ tickets = {} /\ published = FALSE /\ approved = {}
    /\ JQ!JobInit
    /\ pc = [w \in Workers |-> "idle"]
    /\ job = [w \in Workers |-> 0]
    /\ try = [w \in Workers |-> 0]
    /\ seen = [w \in Workers |-> NothingSeen]
    /\ view = [o \in Operators |-> Closed]
    /\ taskOps = 0 /\ faults = 0

Fault ==
    /\ faults < MaxFaults
    /\ faults' = faults + 1

-----------------------------------------------------------------------------
(* Ingestion.                                                              *)

\* ingest_event, when the rule gate triggers: the event, the alert, the run, its
\* task and the normalized event are committed together.
Ingest ==
    /\ run = "absent"
    /\ run' = "queued" /\ evt' = "queued" /\ alert' = "pending"
    /\ current' = 1
    /\ JQ!Submit(1)
    /\ UNCHANGED <<draft, tickets, ticketOf, published, approved, exec, view, taskOps,
                   faults>>

\* The gate refuses: the run is only a record.
IngestIgnored ==
    /\ run = "absent"
    /\ run' = "ignored" /\ evt' = "ignored"
    /\ UNCHANGED <<current, draft, alert, tickets, ticketOf, published, approved, jobs,
                   exec, view, taskOps, faults>>

-----------------------------------------------------------------------------
(* The task and its handler.                                               *)

Goto(w, place) == pc' = [pc EXCEPT ![w] = place]

EndExecution(w) ==
    /\ Goto(w, "idle")
    /\ job' = [job EXCEPT ![w] = 0]
    /\ try' = [try EXCEPT ![w] = 0]
    /\ seen' = [seen EXCEPT ![w] = NothingSeen]

Exhausted(g) == epoch[g] >= MaxAttempts

Claim(w, g) ==
    /\ pc[w] = "idle"
    /\ JQ!Lease(g, w)
    /\ Goto(w, "begun")
    /\ job' = [job EXCEPT ![w] = g]
    /\ try' = [try EXCEPT ![w] = epoch'[g]]
    /\ UNCHANGED <<rows, seen, view, taskOps, faults>>

\* Mutant: a task does not ask whether a retry has replaced it.
AnyGeneration(w) == run \in {"queued", "failed", "running"}

\* Mutant: the task is enough, whatever became of the run.
LatestTask(w) == job[w] = current

\* Mutant: a run that a crashed attempt left running is not taken over.
NoTakeOver(w) == job[w] = current /\ run \in {"queued", "failed"}

\* The task is the run's latest one and the run is not reviewed yet; a run left
\* running by a crashed attempt is taken over.
MayBegin(w) == job[w] = current /\ run \in {"queued", "failed", "running"}

\* process_proactive_run up to its first commit, under the run's lock.
Begin(w) ==
    /\ pc[w] = "begun"
    /\ MayBegin(w)
    /\ run' = "running" /\ evt' = "processing"
    /\ Goto(w, "agent")
    /\ UNCHANGED <<current, draft, alert, tickets, ticketOf, published, approved, jobs, job,
                   try, seen, view, taskOps, faults>>

\* Nothing to do: the task succeeds without touching the run.
BeginRefused(w) ==
    /\ pc[w] = "begun"
    /\ ~MayBegin(w)
    /\ Goto(w, "returning")
    /\ UNCHANGED <<rows, jobs, job, try, seen, view, taskOps, faults>>

\* The first read of the second transaction, by a tool of the agent or of the
\* alert at the end, opens its snapshot.
AgentReads(w) ==
    /\ pc[w] = "agent"
    /\ seen[w] = NothingSeen
    /\ seen' = [seen EXCEPT ![w] = [alert |-> alert, published |-> published,
                                    run |-> "absent", evt |-> "absent"]]
    /\ UNCHANGED <<rows, jobs, pc, job, try, view, taskOps, faults>>

\* The agent or the transaction fails and is rolled back.
AgentFails(w) ==
    /\ pc[w] = "agent"
    /\ Goto(w, "failing")
    /\ UNCHANGED <<rows, jobs, job, try, seen, view, taskOps, faults>>

\* publish_event_record finds the proposal event in the snapshot, or inserts it.
MayPublish(w) == seen[w].published \/ ~published

\* Mutant: the alert row is left to its own API.
WriteProposalOnly(w) ==
    /\ run' = "proposed" /\ evt' = "completed"
    /\ draft' = [task |-> job[w], attempt |-> try[w]]
    /\ published' = TRUE
    /\ UNCHANGED <<current, alert, tickets, ticketOf, approved>>

\* Mutant: the alert gets the status its older rows have.
WriteProposalDisposed(w) ==
    /\ run' = "proposed" /\ evt' = "completed" /\ alert' = "disposed"
    /\ draft' = [task |-> job[w], attempt |-> try[w]]
    /\ published' = TRUE
    /\ UNCHANGED <<current, tickets, ticketOf, approved>>

\* The rows the result changes, whatever happened to them since the first commit.
WriteProposal(w) ==
    /\ run' = "proposed" /\ evt' = "completed"
    /\ draft' = [task |-> job[w], attempt |-> try[w]]
    /\ alert' = IF seen[w].alert = "proposed" THEN alert ELSE "proposed"
    /\ published' = TRUE
    /\ UNCHANGED <<current, tickets, ticketOf, approved>>

Propose(w) ==
    /\ pc[w] = "agent" /\ seen[w] # NothingSeen
    /\ MayPublish(w)
    /\ WriteProposal(w)
    /\ Goto(w, "returning")
    /\ UNCHANGED <<jobs, job, try, seen, view, taskOps, faults>>

\* Another execution published in between: the unique key refuses the insert and
\* the second look-up does not see the row.
ProposeRefused(w) ==
    /\ pc[w] = "agent" /\ seen[w] # NothingSeen
    /\ ~MayPublish(w)
    /\ Goto(w, "failing")
    /\ UNCHANGED <<rows, jobs, job, try, seen, view, taskOps, faults>>

\* The commit is applied but the handler takes it for a failure.
ProposeReplyLost(w) ==
    /\ LostReplies
    /\ pc[w] = "agent" /\ seen[w] # NothingSeen
    /\ MayPublish(w)
    /\ WriteProposal(w)
    /\ Goto(w, "failing")
    /\ Fault
    /\ UNCHANGED <<jobs, job, try, seen, view, taskOps>>

\* The failure path: the run and the event are read, then marked as failed.
FailRead(w) ==
    /\ pc[w] = "failing"
    /\ seen' = [seen EXCEPT ![w] = [alert |-> "absent", published |-> FALSE,
                                    run |-> run, evt |-> evt]]
    /\ Goto(w, "marking")
    /\ UNCHANGED <<rows, jobs, job, try, view, taskOps, faults>>

FailWrite(w) ==
    /\ pc[w] = "marking"
    /\ run' = IF seen[w].run = "failed" THEN run ELSE "failed"
    /\ evt' = IF seen[w].evt = "failed" THEN evt ELSE "failed"
    /\ Goto(w, "raising")
    /\ UNCHANGED <<current, draft, alert, tickets, ticketOf, published, approved, jobs, job,
                   try, seen, view, taskOps, faults>>

\* The failure path itself fails.
FailAborts(w) ==
    /\ pc[w] \in {"failing", "marking"}
    /\ Goto(w, "raising")
    /\ Fault
    /\ UNCHANGED <<rows, jobs, job, try, seen, view, taskOps>>

\* complete_task: without the lease nothing is recorded.
Return(w) ==
    /\ pc[w] = "returning"
    /\ \/ holder[job[w]] = w /\ JQ!Finish(job[w])
       \/ holder[job[w]] # w /\ UNCHANGED jobs
    /\ EndExecution(w)
    /\ UNCHANGED <<rows, view, taskOps, faults>>

\* complete_task fails: the worker reports a failure instead, though the handler,
\* and possibly the commit, succeeded.
ReturnFails(w) ==
    /\ pc[w] = "returning"
    /\ \/ UNCHANGED jobs
       \/ LostReplies /\ holder[job[w]] = w /\ JQ!Finish(job[w])
    /\ Goto(w, "raising")
    /\ Fault
    /\ UNCHANGED <<rows, job, try, seen, view, taskOps>>

\* fail_task: another try, or the dead-letter state.
Raise(w) ==
    LET g == job[w] IN
    /\ pc[w] = "raising"
    /\ \/ holder[g] = w /\ JQ!Revoke({g}, IF Exhausted(g) THEN {g} ELSE {})
       \/ holder[g] # w /\ UNCHANGED jobs
    /\ EndExecution(w)
    /\ UNCHANGED <<rows, view, taskOps, faults>>

\* The process dies, or the failure cannot be reported: the task stays leased; a new
\* incarnation polls.
Crash(w) ==
    /\ pc[w] # "idle"
    /\ EndExecution(w)
    /\ Fault
    /\ UNCHANGED <<rows, jobs, view, taskOps>>

\* Mutant: the scan does not look at the heartbeat.
LeaseLapsesUnasked(g) ==
    /\ state[g] = "leased"
    /\ JQ!Revoke({g}, IF Exhausted(g) THEN {g} ELSE {})
    /\ UNCHANGED <<rows, exec, view, taskOps, faults>>

\* recover_stale_tasks takes a lease away from a worker that does not renew it.
LeaseLapses(g) ==
    /\ state[g] = "leased"
    /\ Stalls \/ job[holder[g]] # g
    /\ JQ!Revoke({g}, IF Exhausted(g) THEN {g} ELSE {})
    /\ UNCHANGED <<rows, exec, view, taskOps, faults>>

\* retry_task and move_task_to_dead, from the task centre.
OperateTask(g) ==
    /\ taskOps < MaxTaskOps
    /\ taskOps' = taskOps + 1
    /\ JQ!Bury(g) \/ JQ!Resubmit(g)
    /\ UNCHANGED <<rows, exec, view, faults>>

-----------------------------------------------------------------------------
(* Reviews.                                                                *)

\* A request authenticates its user: the snapshot opens.
OpenRequest(o) ==
    /\ view' = [view EXCEPT ![o] = [open |-> TRUE, alert |-> alert, evt |-> evt,
                                    tickets |-> tickets]]
    /\ UNCHANGED <<rows, jobs, exec, taskOps, faults>>

\* A request that changes something ends with it.
Requested(o) ==
    /\ view[o].open
    /\ view' = [view EXCEPT ![o] = Closed]
    /\ UNCHANGED <<exec, taskOps, faults>>

\* What an UPDATE does to a column that the snapshot shows as `old'.
Written(old, actual, new) == IF old = new THEN actual ELSE new

ConfirmRun(o) ==
    /\ Requested(o)
    /\ run = "proposed"
    /\ run' = "confirmed"
    /\ alert' = Written(view[o].alert, alert, "confirmed")
    /\ approved' = approved \cup {draft}
    /\ UNCHANGED <<current, draft, evt, tickets, ticketOf, published, jobs>>

RejectRun(o) ==
    /\ Requested(o)
    /\ run \in {"proposed", "confirmed"}
    /\ run' = "rejected"
    /\ alert' = Written(view[o].alert, alert, "rejected")
    /\ UNCHANGED <<current, draft, evt, tickets, ticketOf, published, approved, jobs>>

\* create_ticket: the unique source_ref makes a second insert fail, unless the
\* snapshot already shows the ticket.
MayTicket(o, ref) == ref \in view[o].tickets \/ ref \notin tickets

\* Mutant: a proposal is enough.
TicketableWhenProposed == run \in {"proposed", "confirmed"}

Ticketable == run = "confirmed"

\* run_to_ticket.
TicketRun(o) ==
    /\ Requested(o)
    /\ Ticketable
    /\ MayTicket(o, "proactive")
    /\ run' = "ticketed"
    /\ alert' = Written(view[o].alert, alert, "ticketed")
    /\ tickets' = tickets \cup {"proactive"}
    /\ ticketOf' = IF "proactive" \in tickets THEN ticketOf ELSE draft
    /\ UNCHANGED <<current, draft, evt, published, approved, jobs>>

\* retry_run: a new task and the run's state are committed together.
RetryRun(o) ==
    /\ Requested(o)
    /\ run = "failed"
    /\ current < Generations
    /\ run' = "queued"
    /\ evt' = Written(view[o].evt, evt, "queued")
    /\ current' = current + 1
    /\ JQ!Submit(current + 1)
    /\ UNCHANGED <<draft, alert, tickets, ticketOf, published, approved>>

\* The alert's own API (alert_disposal_service), under the alert's lock.
ReviewAlert(o) ==
    /\ AlertApi
    /\ Requested(o)
    /\ \/ /\ alert = "proposed"
          /\ alert' = "confirmed"
          /\ UNCHANGED tickets
       \/ /\ alert \in {"proposed", "confirmed"}
          /\ alert' = "rejected"
          /\ UNCHANGED tickets
       \/ /\ alert \in {"pending", "proposed", "confirmed", "rejected"}
          /\ alert' = "closed"
          /\ UNCHANGED tickets
       \/ /\ alert = "confirmed"
          /\ MayTicket(o, "alert-disposal")
          /\ alert' = "ticketed"
          /\ tickets' = tickets \cup {"alert-disposal"}
    /\ UNCHANGED <<run, current, draft, evt, ticketOf, published, approved, jobs>>

-----------------------------------------------------------------------------
\* What a worker does with a task it holds, unless something fails.
Execute(w) ==
    \/ Begin(w) \/ BeginRefused(w)
    \/ AgentReads(w) \/ Propose(w) \/ ProposeRefused(w)
    \/ FailRead(w) \/ FailWrite(w) \/ Return(w) \/ Raise(w)

WorkerStep(w) ==
    \/ \E g \in Tasks : Claim(w, g)
    \/ Execute(w)
    \/ AgentFails(w) \/ ProposeReplyLost(w) \/ FailAborts(w) \/ ReturnFails(w)
    \/ Crash(w)

OperatorStep(o) ==
    \/ OpenRequest(o)
    \/ ConfirmRun(o) \/ RejectRun(o) \/ TicketRun(o) \/ RetryRun(o)
    \/ ReviewAlert(o)

Next ==
    \/ Ingest \/ IngestIgnored
    \/ \E w \in Workers : WorkerStep(w)
    \/ \E g \in Tasks : LeaseLapses(g) \/ OperateTask(g)
    \/ \E o \in Operators : OperatorStep(o)

Spec == Init /\ [][Next]_vars

\* Workers poll and execute; the stale scan runs.  Nobody must review.
Fairness ==
    /\ \A w \in Workers : WF_vars(Execute(w)) /\ WF_vars(\E g \in Tasks : Claim(w, g))
    /\ \A g \in Tasks : WF_vars(LeaseLapses(g))

FairSpec == Spec /\ Fairness

-----------------------------------------------------------------------------
(* Properties.                                                             *)

Reviewed == {"confirmed", "rejected", "ticketed"}

\* What a reviewer decided stands: no attempt of a task, late or repeated, moves
\* the run back or changes the draft that was decided on.
DecisionStands ==
    [][(run \in Reviewed) => /\ run' \in Reviewed /\ draft' = draft
                             /\ (run' = "confirmed" => run = "confirmed")
                             /\ (run = "rejected" => run' = "rejected")]_vars

\* The run and its alert row tell the same story of the review.
AlertMirrorsRun == run \in Reviewed \cup {"proposed"} => alert = run

\* A proposal is announced if and only if it is there to be reviewed: the event
\* is in the outbox, and the real-time event is closed.
ProposalAnnounced ==
    run \in Reviewed \cup {"proposed"} => published /\ evt = "completed"

\* A task that a retry replaced changes nothing in the run any more.
ReplacedTaskIsInert ==
    [][\A w \in Workers : pc[w] # "idle" /\ job[w] # current /\ pc'[w] # pc[w] =>
          UNCHANGED <<run, draft, evt, alert>>]_vars

\* One agent works on the run at a time, however often tasks are claimed again.
OneAgent ==
    \A v, w \in Workers : pc[v] = "agent" /\ pc[w] = "agent" => v = w

\* A ticket is made from a draft that a reviewer confirmed, whatever executions
\* stall, come back or overwrite each other.
TicketsAreApproved == "proactive" \in tickets => ticketOf \in approved

\* A run in work is not left behind by the task that should finish it: the task
\* is waiting, executed or dead, never done, wherever its workers crashed.
NotAbandoned == run \in {"queued", "running"} => state[current] # "done"

\* Run, alert, event, outbox entry and task agree after every commit, whichever session
\* wrote them and whatever it had loaded.
RunKept == AlertMirrorsRun /\ ProposalAnnounced /\ NotAbandoned

\* A run that is executed or waits for it comes to an end that people can act on.
RunSettles == [](run \in {"queued", "running"} => <>(run \notin {"queued", "running"}))

\* It does, or its task is dead: its last attempt crashed.
RunSettlesOrTaskDies ==
    [](run \in {"queued", "running"} =>
          <>(run \notin {"queued", "running"} \/ state[current] = "buried"))
=============================================================================
