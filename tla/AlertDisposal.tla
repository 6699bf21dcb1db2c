--------------------------- MODULE AlertDisposal ---------------------------
(***************************************************************************)
(* The disposal of one alert: a row and a task written together, an agent  *)
(* run by the task that proposes a plan, and the people who confirm,       *)
(* reject, close or turn the plan into a ticket.                           *)
(*                                                                         *)
(* People lock the row; the task does not: it loads the row, works and     *)
(* writes "proposed" over whatever was decided meanwhile.  The task queue  *)
(* delivers at least once: a worker whose lease ran out is still at work   *)
(* when the next one takes the task.                                       *)
(***************************************************************************)
EXTENDS Naturals, Sequences, OrmSession

CONSTANTS
    Handlers,          \* workers that may run the task
    TaskAttempts,      \* max_attempts of the task: 3 in the code
    DisposalDecisions, \* bound: decisions people take
    DisposalMaxFaults  \* bound: workers that die, leases lost, failed database writes

ASSUME DisposalAssumption ==
    TaskAttempts \in Nat \ {0} /\ DisposalDecisions \in Nat /\ DisposalMaxFaults \in Nat

VARIABLES
    disposal,        \* the row: status, plan, ticket
    task,            \* its task: "none", "queued", "running", "done", "dead"
    taken,           \* how often the task was taken
    holder,          \* the worker whose lease counts
    handlerPc,       \* handlerPc[w]: where the worker is
    handlerView,     \* handlerView[w]: the row as it loaded it
    tickets,         \* tickets whose source is this disposal
    decisions, disposalFaults

disposalVars == <<disposal, task, taken, holder, handlerPc, handlerView, tickets,
                  decisions, disposalFaults>>

NoDisposal == [status |-> "none", plan |-> "none", ticketed |-> FALSE]
DisposalStatus == {"none", "pending", "proposed", "confirmed", "rejected", "ticketed",
                   "closed"}
NoHandler == "nobody"

DisposalRow(row) ==
    /\ DOMAIN row = DOMAIN NoDisposal
    /\ row.status \in DisposalStatus
    /\ row.plan \in {"none", "plan", "failed"} /\ row.ticketed \in BOOLEAN

DisposalTypeOK ==
    /\ DisposalRow(disposal)
    /\ task \in {"none", "queued", "running", "done", "dead"}
    /\ taken \in 0..TaskAttempts
    /\ holder \in Handlers \cup {NoHandler}
    /\ \A w \in Handlers :
          /\ handlerPc[w] \in {"idle", "agent", "answered", "failed", "writePlan",
                               "writeFailure", "succeeded", "raised"}
          /\ DisposalRow(handlerView[w])
    /\ tickets \in Nat
    /\ decisions \in 0..DisposalDecisions /\ disposalFaults \in 0..DisposalMaxFaults

DisposalInit ==
    /\ disposal = NoDisposal /\ task = "none" /\ taken = 0 /\ holder = NoHandler
    /\ handlerPc = [w \in Handlers |-> "idle"]
    /\ handlerView = [w \in Handlers |-> NoDisposal]
    /\ tickets = 0 /\ decisions = 0 /\ disposalFaults = 0

\* trigger_disposal commits the pending row and its task in one transaction.
Trigger ==
    /\ disposal = NoDisposal
    /\ disposal' = [NoDisposal EXCEPT !.status = "pending"]
    /\ task' = "queued"
    /\ UNCHANGED <<taken, holder, handlerPc, handlerView, tickets, decisions, disposalFaults>>

-----------------------------------------------------------------------------
(* The task.                                                               *)

AtHandler(w, from, to) == handlerPc[w] = from /\ handlerPc' = [handlerPc EXCEPT ![w] = to]

Fault == disposalFaults < DisposalMaxFaults /\ disposalFaults' = disposalFaults + 1

\* The queue hands the task to a worker, also when the lease of the last one ran out.
TakeTask(w) ==
    /\ AtHandler(w, "idle", "agent")
    /\ taken < TaskAttempts /\ taken' = taken + 1
    /\ \/ task = "queued" /\ UNCHANGED disposalFaults
       \/ task = "running" /\ holder # w /\ Fault
    /\ task' = "running" /\ holder' = w
    /\ UNCHANGED <<disposal, handlerView, tickets, decisions>>

\* run_agent answers or raises.
AgentEnds(w) ==
    /\ AtHandler(w, "agent", "answered") \/ AtHandler(w, "agent", "failed")
    /\ UNCHANGED <<disposal, task, taken, holder, handlerView, tickets, decisions,
                   disposalFaults>>

LoadDisposal(w) ==
    /\ AtHandler(w, "answered", "writePlan") \/ AtHandler(w, "failed", "writeFailure")
    /\ handlerView' = [handlerView EXCEPT ![w] = disposal]
    /\ UNCHANGED <<disposal, task, taken, holder, tickets, decisions, disposalFaults>>

WritePlan(w) ==
    /\ AtHandler(w, "writePlan", "succeeded")
    /\ disposal' = Flushed(disposal, handlerView[w],
                           [handlerView[w] EXCEPT !.status = "proposed", !.plan = "plan"])
    /\ handlerView' = [handlerView EXCEPT ![w] = NoDisposal]
    /\ UNCHANGED <<task, taken, holder, tickets, decisions, disposalFaults>>

\* The failure is kept where the plan would be, and the handler raises.
WriteFailure(w) ==
    /\ AtHandler(w, "writeFailure", "raised")
    /\ disposal' = Flushed(disposal, handlerView[w],
                           [handlerView[w] EXCEPT !.status = "proposed", !.plan = "failed"])
    /\ handlerView' = [handlerView EXCEPT ![w] = NoDisposal]
    /\ UNCHANGED <<task, taken, holder, tickets, decisions, disposalFaults>>

\* A failed write of the plan ends in the failure path; a failed write of the failure
\* is swallowed, and the handler raises as well.
WriteFails(w) ==
    /\ AtHandler(w, "writePlan", "failed") \/ AtHandler(w, "writeFailure", "raised")
    /\ handlerView' = [handlerView EXCEPT ![w] = NoDisposal]
    /\ Fault
    /\ UNCHANGED <<disposal, task, taken, holder, tickets, decisions>>

\* Mutant: the outcome of the handler is not looked at.
OutcomeIgnored(w) == IF taken >= TaskAttempts THEN "dead" ELSE "queued"

\* The queue learns the outcome from the worker whose lease counts: done, again after a
\* delay, or dead once the attempts are used up.
Outcome(w) ==
    IF handlerPc[w] = "succeeded" THEN "done"
    ELSE IF taken >= TaskAttempts THEN "dead" ELSE "queued"

EndTask(w) ==
    /\ AtHandler(w, "succeeded", "idle") \/ AtHandler(w, "raised", "idle")
    /\ task' = IF holder = w THEN Outcome(w) ELSE task
    /\ holder' = IF holder = w THEN NoHandler ELSE holder
    /\ UNCHANGED <<disposal, taken, handlerView, tickets, decisions, disposalFaults>>

\* A worker dies; its lease runs out, and the task waits again or is dead.
HandlerDies(w) ==
    /\ handlerPc[w] # "idle" /\ Fault
    /\ handlerPc' = [handlerPc EXCEPT ![w] = "idle"]
    /\ handlerView' = [handlerView EXCEPT ![w] = NoDisposal]
    /\ task' = IF holder # w THEN task ELSE IF taken >= TaskAttempts THEN "dead" ELSE "queued"
    /\ holder' = IF holder = w THEN NoHandler ELSE holder
    /\ UNCHANGED <<disposal, taken, tickets, decisions>>

-----------------------------------------------------------------------------
(* People: each decision locks the row, checks it and commits.             *)

Decide(status, from) ==
    /\ disposal.status \in from
    /\ decisions < DisposalDecisions /\ decisions' = decisions + 1
    /\ disposal' = [disposal EXCEPT !.status = status]
    /\ UNCHANGED <<task, taken, holder, handlerPc, handlerView, tickets, disposalFaults>>

ConfirmDisposal == Decide("confirmed", {"proposed"})

RejectDisposal == Decide("rejected", {"proposed", "confirmed"})

CloseDisposal == Decide("closed", DisposalStatus \ {"none", "ticketed", "closed"})

\* create_ticket answers with the ticket of the same source if there is one.
TicketsAfter(n) == IF n = 0 THEN 1 ELSE n

ToTicket ==
    /\ disposal.status = "confirmed"
    /\ decisions < DisposalDecisions /\ decisions' = decisions + 1
    /\ tickets' = TicketsAfter(tickets)
    /\ disposal' = [disposal EXCEPT !.status = "ticketed", !.ticketed = TRUE]
    /\ UNCHANGED <<task, taken, holder, handlerPc, handlerView, disposalFaults>>

HandlerStep(w) ==
    \/ TakeTask(w) \/ AgentEnds(w) \/ LoadDisposal(w) \/ WritePlan(w) \/ WriteFailure(w)
    \/ EndTask(w)

DisposalNext ==
    \/ Trigger
    \/ \E w \in Handlers : HandlerStep(w) \/ WriteFails(w) \/ HandlerDies(w)
    \/ ConfirmDisposal \/ RejectDisposal \/ CloseDisposal \/ ToTicket

\* Workers poll, and an agent run ends.
DisposalFairness == \A w \in Handlers : WF_disposalVars(HandlerStep(w))

DisposalSpec == DisposalInit /\ [][DisposalNext]_disposalVars /\ DisposalFairness

-----------------------------------------------------------------------------
(* Properties.                                                             *)

\* However often the task is retried and the plan confirmed again, the alert gets one
\* ticket, and the row knows it.
OneTicket == tickets <= 1 /\ (disposal.ticketed <=> tickets = 1)

\* A decision about a plan is not undone: the task that proposed it has succeeded, and only
\* a lost lease or a lost worker brings the task back.  (A decision about a failure note,
\* or taken before the first proposal, is overwritten by the next attempt.)
DecisionOnPlanStands ==
    disposal.plan = "plan" /\ disposal.status # "proposed" /\ disposalFaults = 0
        => disposal'.status # "proposed"

\* What was decided about an alert is kept, as its ticket and as its status.
DisposalKept == [][OneTicket' /\ DecisionOnPlanStands]_disposalVars

\* No alert waits for ever for a proposal: as long as fewer faults happen than the task
\* has attempts, the row leaves "pending", with a plan or with the failure in its place.
ProposalComes ==
    (disposal.status = "pending") ~>
        (disposal.status # "pending" \/ disposalFaults >= TaskAttempts)
=============================================================================
