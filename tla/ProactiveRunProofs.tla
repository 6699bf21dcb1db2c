------------------------- MODULE ProactiveRunProofs -------------------------
(***************************************************************************)
(* Theorems of ProactiveRun, for any workers, reviewers, retries and       *)
(* faults.  That a ticket comes from a draft somebody confirmed holds even *)
(* if workers stall; that a decision stands needs workers that keep their  *)
(* lease while they live.                                                  *)
(*                                                                         *)
(* And of the agents themselves, for any calls, personas, tools and        *)
(* failures: tools run for those they are for and leave a trace, and facts *)
(* are remembered with consent and told to nobody else.                    *)
(***************************************************************************)
EXTENDS ProactiveRun, AgentRuntime, FiniteSetTheorems, SequenceTheorems, TLAPS

-----------------------------------------------------------------------------
(* Tickets come from confirmed drafts.                                     *)

\* The draft of a confirmed run is one that was confirmed, so is the ticket's.
DraftInv ==
    /\ run = "confirmed" => draft \in approved
    /\ TicketsAreApproved

\* Whatever stalls, is lost or overwritten, the run's ticket was made from a draft
\* a reviewer confirmed: TicketsAreApproved in every reachable state.
THEOREM TicketsApproved == Spec => []TicketsAreApproved
<1>1. Init => DraftInv
  BY DEF Init, DraftInv, TicketsAreApproved
<1>2. DraftInv /\ [Next]_vars => DraftInv'
  <2> SUFFICES ASSUME DraftInv, [Next]_vars PROVE DraftInv'
    OBVIOUS
  <2> USE DEF DraftInv, TicketsAreApproved
  <2>1. CASE Ingest \/ IngestIgnored
    BY <2>1 DEF Ingest, IngestIgnored
  <2>2. ASSUME NEW w \in Workers, WorkerStep(w) PROVE DraftInv'
    <3>1. CASE UNCHANGED rows
      BY <3>1 DEF rows
    <3>2. CASE Begin(w)
      BY <3>2 DEF Begin
    <3>3. CASE Propose(w) \/ ProposeReplyLost(w)
      BY <3>3 DEF Propose, ProposeReplyLost, WriteProposal
    <3>4. CASE FailWrite(w)
      BY <3>4 DEF FailWrite
    <3>5. QED
      BY <2>2, <3>1, <3>2, <3>3, <3>4
      DEF WorkerStep, Execute, Claim, BeginRefused, AgentReads, AgentFails, ProposeRefused,
          FailRead, FailAborts, Return, ReturnFails, Raise, Crash
  <2>3. ASSUME NEW g \in Tasks, LeaseLapses(g) \/ OperateTask(g) PROVE DraftInv'
    BY <2>3 DEF LeaseLapses, OperateTask, rows
  <2>4. ASSUME NEW o \in Operators, OperatorStep(o) PROVE DraftInv'
    <3>1. CASE OpenRequest(o)
      BY <3>1 DEF OpenRequest, rows
    <3>2. CASE ConfirmRun(o) \/ RejectRun(o)
      BY <3>2 DEF ConfirmRun, RejectRun
    <3>3. CASE TicketRun(o)
      BY <3>3 DEF TicketRun, Ticketable
    <3>4. CASE RetryRun(o)
      BY <3>4 DEF RetryRun
    <3>5. CASE ReviewAlert(o)
      BY <3>5 DEF ReviewAlert
    <3>6. QED
      BY <2>4, <3>1, <3>2, <3>3, <3>4, <3>5 DEF OperatorStep
  <2>5. CASE UNCHANGED vars
    BY <2>5 DEF vars, rows
  <2>6. QED
    BY <2>1, <2>2, <2>3, <2>4, <2>5 DEF Next
<1>3. DraftInv => TicketsAreApproved
  BY DEF DraftInv
<1>4. QED
  BY <1>1, <1>2, <1>3, PTL DEF Spec

-----------------------------------------------------------------------------
(* Types.                                                                  *)

\* The part of TypeOK that speaks of the tasks.
JobTypes ==
    /\ state \in [Tasks -> {"none", "waiting", "leased", "done", "buried"}]
    /\ epoch \in [Tasks -> Nat] /\ outcome \in [Tasks -> Nat]
    /\ holder \in [Tasks -> Workers \cup {Nobody}]

RowTypes ==
    /\ run \in RunStatuses /\ evt \in EventStatuses /\ alert \in AlertStatuses
    /\ current \in 0..Generations
    /\ draft \in Drafts /\ ticketOf \in Drafts /\ approved \subseteq Drafts
    /\ tickets \subseteq {"proactive", "alert-disposal"}
    /\ published \in BOOLEAN

Places == {"idle", "begun", "agent", "failing", "marking", "returning", "raising"}
Seen == [alert : AlertStatuses, published : BOOLEAN, run : RunStatuses, evt : EventStatuses]

ExecTypes ==
    /\ pc \in [Workers -> Places]
    /\ job \in [Workers -> 0..Generations] /\ try \in [Workers -> Nat]
    /\ seen \in [Workers -> Seen]

ViewTypes ==
    /\ view \in [Operators -> [open : BOOLEAN, alert : AlertStatuses, evt : EventStatuses,
                               tickets : SUBSET {"proactive", "alert-disposal"}]]
    /\ taskOps \in 0..MaxTaskOps /\ faults \in 0..MaxFaults

\* The parts of the type invariant, to be cited one by one.
LEMMA TypeParts ==
  /\ TypeOK <=> RowTypes /\ JobTypes /\ ExecTypes /\ ViewTypes
  /\ TypeOK' <=> RowTypes' /\ JobTypes' /\ ExecTypes' /\ ViewTypes'
  BY DEF TypeOK, RowTypes, JobTypes, ExecTypes, ViewTypes, Places, Seen

\* Whatever the store of leased jobs may do keeps the types of the tasks.
LEMMA JobStepTypes ==
  ASSUME JobTypes,
         NEW g \in Tasks, NEW w \in Workers, NEW B \in SUBSET Tasks,
         \/ JQ!Submit(g) \/ JQ!Lease(g, w) \/ JQ!Finish(g) \/ JQ!Revoke({g}, B)
         \/ JQ!Bury(g) \/ JQ!Resubmit(g)
  PROVE  JobTypes'
<1> USE DEF JobTypes
<1>1. CASE JQ!Submit(g) \/ JQ!Bury(g) \/ JQ!Resubmit(g)
  BY <1>1 DEF JQ!Submit, JQ!Bury, JQ!Resubmit
<1>2. CASE JQ!Lease(g, w)
  BY <1>2 DEF JQ!Lease
<1>3. CASE JQ!Finish(g)
  BY <1>3 DEF JQ!Finish
<1>4. CASE JQ!Revoke({g}, B)
  BY <1>4 DEF JQ!Revoke
<1>5. QED
  BY <1>1, <1>2, <1>3, <1>4

\* A task a worker executes is a task.
Employed == \A w \in Workers : pc[w] # "idle" => job[w] \in Tasks

\* A worker's step keeps the types, and it executes nothing but tasks.
LEMMA WorkerTypes ==
  ASSUME TypeOK, Employed, NEW w \in Workers, WorkerStep(w)
  PROVE  TypeOK' /\ Employed'
<1> USE RunAssumption DEF Employed
<1>0. RowTypes /\ JobTypes /\ ExecTypes /\ ViewTypes
  BY TypeParts
<1>v. UNCHANGED <<view, taskOps>>
  BY DEF WorkerStep, Execute, Claim, Begin, BeginRefused, AgentReads, AgentFails, Propose,
         ProposeRefused, ProposeReplyLost, FailRead, FailWrite, FailAborts, Return,
         ReturnFails, Raise, Crash
<1>f. faults' \in 0..MaxFaults
  <2>1. CASE Fault
    BY <2>1, <1>0 DEF Fault, ViewTypes
  <2>2. CASE UNCHANGED faults
    BY <2>2, <1>0 DEF ViewTypes
  <2>3. QED
    BY <2>1, <2>2
    DEF WorkerStep, Execute, Claim, Begin, BeginRefused, AgentReads, AgentFails, Propose,
        ProposeRefused, ProposeReplyLost, FailRead, FailWrite, FailAborts, Return,
        ReturnFails, Raise, Crash
<1>1. ViewTypes'
  BY <1>0, <1>v, <1>f DEF ViewTypes
<1>2. JobTypes'
  <2>1. CASE UNCHANGED jobs
    BY <2>1, <1>0 DEF jobs, JobTypes
  <2>2. ASSUME NEW g \in Tasks, Claim(w, g) PROVE JobTypes'
    BY <2>2, <1>0, JobStepTypes DEF Claim
  <2>3. CASE pc[w] # "idle" /\ JQ!Finish(job[w])
    BY <2>3, <1>0, JobStepTypes
  <2>4. ASSUME NEW B \in SUBSET {job[w]}, pc[w] # "idle", JQ!Revoke({job[w]}, B)
        PROVE  JobTypes'
    BY <2>4, <1>0, JobStepTypes
  <2>5. QED
    BY <2>1, <2>2, <2>3, <2>4
    DEF WorkerStep, Execute, Begin, BeginRefused, AgentReads, AgentFails, Propose,
        ProposeRefused, ProposeReplyLost, FailRead, FailWrite, FailAborts, Return,
        ReturnFails, Raise, Crash
<1>3. RowTypes'
  <2>1. CASE UNCHANGED rows
    BY <2>1, <1>0 DEF rows, RowTypes
  <2>2. CASE Begin(w)
    BY <2>2, <1>0 DEF Begin, RowTypes, RunStatuses, EventStatuses
  <2>3. CASE Propose(w) \/ ProposeReplyLost(w)
    <3>1. WriteProposal(w)
      BY <2>3 DEF Propose, ProposeReplyLost
    <3>2. draft' \in Drafts
      BY <3>1, <1>0 DEF WriteProposal, ExecTypes, Drafts
    <3>3. run' \in RunStatuses /\ evt' \in EventStatuses /\ alert' \in AlertStatuses
      BY <3>1, <1>0 DEF WriteProposal, RowTypes, RunStatuses, EventStatuses, AlertStatuses
    <3>4. published' \in BOOLEAN /\ UNCHANGED <<current, tickets, ticketOf, approved>>
      BY <3>1 DEF WriteProposal
    <3>5. QED
      BY <3>2, <3>3, <3>4, <1>0 DEF RowTypes
  <2>4. CASE FailWrite(w)
    BY <2>4, <1>0 DEF FailWrite, RowTypes, RunStatuses, EventStatuses
  <2>5. QED
    BY <2>1, <2>2, <2>3, <2>4
    DEF WorkerStep, Execute, Claim, BeginRefused, AgentReads, AgentFails, ProposeRefused,
        FailRead, FailAborts, Return, ReturnFails, Raise, Crash
<1>4. ExecTypes' /\ Employed'
  <2> USE DEF ExecTypes, Places, Goto
  <2>1. ASSUME NEW g \in Tasks, Claim(w, g) PROVE ExecTypes' /\ Employed'
    <3>1. epoch'[g] \in Nat
      BY <1>2 DEF JobTypes
    <3>2. QED
      BY <2>1, <3>1, <1>0 DEF Claim, Tasks
  <2>2. CASE EndExecution(w)
    <3>1. NothingSeen \in Seen
      BY DEF NothingSeen, Seen, AlertStatuses, RunStatuses, EventStatuses
    <3>2. QED
      BY <2>2, <3>1, <1>0 DEF EndExecution
  <2>3. ASSUME pc[w] # "idle", UNCHANGED <<job, try, seen>>,
               NEW p \in Places, pc' = [pc EXCEPT ![w] = p]
        PROVE  ExecTypes' /\ Employed'
    BY <2>3, <1>0
  <2>4. CASE AgentReads(w)
    <3>1. [alert |-> alert, published |-> published, run |-> "absent", evt |-> "absent"] \in Seen
      BY <1>0 DEF Seen, AlertStatuses, RunStatuses, EventStatuses, RowTypes
    <3>2. QED
      BY <2>4, <3>1, <1>0 DEF AgentReads
  <2>5. CASE FailRead(w)
    <3>1. [alert |-> "absent", published |-> FALSE, run |-> run, evt |-> evt] \in Seen
      BY <1>0 DEF Seen, AlertStatuses, RunStatuses, EventStatuses, RowTypes
    <3>2. QED
      BY <2>5, <3>1, <1>0 DEF FailRead
  <2>6. CASE Begin(w) \/ BeginRefused(w) \/ AgentFails(w) \/ Propose(w)
    BY <2>6, <2>3 DEF Begin, BeginRefused, AgentFails, Propose
  <2>7. CASE ProposeRefused(w) \/ ProposeReplyLost(w) \/ FailWrite(w) \/ FailAborts(w)
             \/ ReturnFails(w)
    BY <2>7, <2>3 DEF ProposeRefused, ProposeReplyLost, FailWrite, FailAborts, ReturnFails
  <2>8. QED
    BY <2>1, <2>2, <2>4, <2>5, <2>6, <2>7
    DEF WorkerStep, Execute, Return, Raise, Crash
<1>5. QED
  BY <1>1, <1>2, <1>3, <1>4, TypeParts

\* A reviewer's step keeps the types.
LEMMA OperatorTypes ==
  ASSUME TypeOK, NEW o \in Operators, OperatorStep(o)
  PROVE  TypeOK' /\ UNCHANGED exec
<1> USE RunAssumption
<1>0. RowTypes /\ JobTypes /\ ExecTypes /\ ViewTypes
  BY TypeParts
<1>1. UNCHANGED exec /\ ExecTypes'
  BY <1>0
  DEF OperatorStep, OpenRequest, Requested, ConfirmRun, RejectRun, TicketRun, RetryRun,
      ReviewAlert, exec, ExecTypes
<1>2. ViewTypes'
  <2> DEFINE V == [open : BOOLEAN, alert : AlertStatuses, evt : EventStatuses,
                   tickets : SUBSET {"proactive", "alert-disposal"}]
  <2>1. UNCHANGED <<taskOps, faults>>
    BY DEF OperatorStep, OpenRequest, Requested, ConfirmRun, RejectRun, TicketRun,
           RetryRun, ReviewAlert
  <2>2. Closed \in V
    BY DEF Closed, AlertStatuses, EventStatuses
  <2>3. [open |-> TRUE, alert |-> alert, evt |-> evt, tickets |-> tickets] \in V
    BY <1>0 DEF RowTypes
  <2>4. \E x \in V : view' = [view EXCEPT ![o] = x]
    BY <2>2, <2>3
    DEF OperatorStep, OpenRequest, Requested, ConfirmRun, RejectRun, TicketRun, RetryRun,
        ReviewAlert
  <2>5. QED
    BY <1>0, <2>1, <2>4 DEF ViewTypes
<1>3. JobTypes' /\ RowTypes'
  <2>1. CASE OpenRequest(o)
    BY <2>1, <1>0 DEF OpenRequest, rows, jobs, RowTypes, JobTypes
  <2>2. CASE ConfirmRun(o) \/ RejectRun(o)
    BY <2>2, <1>0
    DEF ConfirmRun, RejectRun, Written, jobs, RowTypes, JobTypes, RunStatuses,
        AlertStatuses
  <2>3. CASE TicketRun(o)
    BY <2>3, <1>0 DEF TicketRun, Written, jobs, RowTypes, JobTypes, RunStatuses,
                      AlertStatuses
  <2>4. CASE RetryRun(o)
    <3>1. current + 1 \in Tasks
      BY <2>4, <1>0 DEF RetryRun, RowTypes, Tasks
    <3>2. JobTypes'
      <4>1. JQ!Submit(current + 1)
        BY <2>4 DEF RetryRun
      <4>2. QED
        BY <3>1, <4>1, <1>0 DEF JQ!Submit, JobTypes
    <3>3. RowTypes'
      BY <2>4, <3>1, <1>0 DEF RetryRun, Written, RowTypes, RunStatuses, EventStatuses, Tasks
    <3>4. QED
      BY <3>2, <3>3
  <2>5. CASE ReviewAlert(o)
    <3>1. /\ alert' \in AlertStatuses /\ tickets' \subseteq {"proactive", "alert-disposal"}
          /\ UNCHANGED <<run, current, draft, evt, ticketOf, published, approved, jobs>>
      BY <2>5, <1>0 DEF ReviewAlert, AlertStatuses, RowTypes
    <3>2. QED
      BY <3>1, <1>0 DEF jobs, RowTypes, JobTypes
  <2>6. QED
    BY <2>1, <2>2, <2>3, <2>4, <2>5 DEF OperatorStep
<1>4. QED
  BY <1>1, <1>2, <1>3, TypeParts

\* Every step keeps the types.
LEMMA TypeStep == TypeOK /\ Employed /\ [Next]_vars => TypeOK' /\ Employed'
<1> SUFFICES ASSUME TypeOK, Employed, [Next]_vars PROVE TypeOK' /\ Employed'
  OBVIOUS
<1> USE RunAssumption
<1>0. RowTypes /\ JobTypes /\ ExecTypes /\ ViewTypes
  BY TypeParts
<1>1. CASE Ingest
  <2>1. JobTypes'
    <3>1. 1 \in Tasks
      BY DEF Tasks
    <3>2. QED
      BY <1>1, <3>1, <1>0 DEF Ingest, JQ!Submit, JobTypes
  <2>2. RowTypes'
    BY <1>1, <1>0 DEF Ingest, RowTypes, RunStatuses, EventStatuses, AlertStatuses
  <2>3. QED
    BY <1>1, <1>0, <2>1, <2>2, TypeParts DEF Ingest, ExecTypes, ViewTypes, exec, Employed
<1>2. CASE IngestIgnored
  <2>1. RowTypes'
    BY <1>2, <1>0 DEF IngestIgnored, RowTypes, RunStatuses, EventStatuses
  <2>2. QED
    BY <1>2, <1>0, <2>1, TypeParts
    DEF IngestIgnored, JobTypes, ExecTypes, ViewTypes, jobs, exec, Employed
<1>3. ASSUME NEW w \in Workers, WorkerStep(w) PROVE TypeOK' /\ Employed'
  BY <1>3, WorkerTypes
<1>4. ASSUME NEW g \in Tasks, LeaseLapses(g) \/ OperateTask(g) PROVE TypeOK' /\ Employed'
  <2>1. JobTypes'
    BY <1>4, <1>0 DEF LeaseLapses, OperateTask, JQ!Revoke, JQ!Bury, JQ!Resubmit, JobTypes
  <2>2. UNCHANGED <<rows, exec, view, faults>> /\ taskOps' \in 0..MaxTaskOps
    BY <1>4, <1>0 DEF LeaseLapses, OperateTask, ViewTypes
  <2>3. RowTypes' /\ ExecTypes' /\ ViewTypes' /\ Employed'
    BY <1>0, <2>2 DEF rows, exec, RowTypes, ExecTypes, ViewTypes, Employed
  <2>4. QED
    BY <2>1, <2>3, TypeParts
<1>5. ASSUME NEW o \in Operators, OperatorStep(o) PROVE TypeOK' /\ Employed'
  BY <1>5, OperatorTypes DEF exec, Employed
<1>6. CASE UNCHANGED vars
  BY <1>6, <1>0, TypeParts
  DEF vars, rows, jobs, exec, RowTypes, JobTypes, ExecTypes, ViewTypes, Employed
<1>7. QED
  BY <1>1, <1>2, <1>3, <1>4, <1>5, <1>6 DEF Next

\* At the start the types are right and nobody works.
LEMMA TypesInit == Init => TypeOK /\ Employed
<1> SUFFICES ASSUME Init PROVE TypeOK /\ Employed
  OBVIOUS
<1> USE RunAssumption DEF Init
<1>1. RowTypes
  <2>1. NoDraft \in Drafts
    BY DEF NoDraft, Drafts
  <2>2. run \in RunStatuses /\ evt \in EventStatuses /\ alert \in AlertStatuses
    BY DEF RunStatuses, EventStatuses, AlertStatuses
  <2>3. published \in BOOLEAN
    OBVIOUS
  <2>4. current \in 0..Generations
    OBVIOUS
  <2>5. QED
    BY <2>1, <2>2, <2>3, <2>4 DEF RowTypes
<1>2. JobTypes
  BY DEF JQ!JobInit, JobTypes
<1>3. NothingSeen \in Seen /\ ExecTypes
  BY DEF NothingSeen, Seen, ExecTypes, Places, AlertStatuses, RunStatuses, EventStatuses
<1>4. ViewTypes
  BY DEF ViewTypes, Closed, AlertStatuses, EventStatuses
<1>5. Employed
  BY DEF Employed
<1>6. QED
  BY <1>1, <1>2, <1>3, <1>4, <1>5, TypeParts

\* Every reachable state is type correct.
THEOREM TypeCorrect == Spec => [](TypeOK /\ Employed)
  BY TypesInit, TypeStep, PTL DEF Spec

-----------------------------------------------------------------------------
(* Decisions stand, if workers keep their leases while they live.          *)

\* A worker that executes a task holds its lease, as the only one, and nothing
\* but a lease names a worker.
LeasesKept ==
    /\ \A w \in Workers : pc[w] # "idle" => holder[job[w]] = w
    /\ \A g \in Tasks : state[g] # "leased" => holder[g] = Nobody

\* A worker past its first commit, and not yet done, works on the run's latest
\* task, and the run shows it.
Working == {"agent", "failing", "marking"}
RunShowsWork ==
    \A w \in Workers : pc[w] \in Working => run = "running" /\ job[w] = current

WorkInv == TypeOK /\ Employed /\ LeasesKept /\ RunShowsWork

\* With one lease per task, the workers that are past their first commit are one.
LEMMA WorkIsAlone ==
  ASSUME WorkInv, NEW v \in Workers, NEW w \in Workers,
         pc[v] \in Working, pc[w] \in Working
  PROVE  v = w
  BY DEF WorkInv, LeasesKept, RunShowsWork, Working

\* At the start no lease is taken and no work is shown.
LEMMA WorkInit == Init => WorkInv
<1> SUFFICES ASSUME Init PROVE WorkInv
  OBVIOUS
<1>1. TypeOK /\ Employed
  BY TypesInit
<1>2. LeasesKept /\ RunShowsWork
  BY DEF Init, JQ!JobInit, LeasesKept, RunShowsWork, Working
<1>3. QED
  BY <1>1, <1>2 DEF WorkInv

\* Leases follow their executions as long as no live worker loses one.
LEMMA LeaseStep ==
  ASSUME ~Stalls, ~LostReplies, WorkInv, [Next]_vars
  PROVE  LeasesKept'
<1>0. JobTypes /\ ExecTypes /\ Employed /\ LeasesKept
  BY TypeParts DEF WorkInv
<1> USE RunAssumption, <1>0 DEF JobTypes, ExecTypes, LeasesKept, Employed
<1>1. CASE UNCHANGED <<pc, job, jobs>>
  BY <1>1 DEF jobs
<1>2. ASSUME NEW w \in Workers, WorkerStep(w) PROVE LeasesKept'
  <2>1. ASSUME NEW g \in Tasks, Claim(w, g) PROVE LeasesKept'
    BY <2>1 DEF Claim, JQ!Lease, Goto
  <2>2. CASE Return(w)
    BY <2>2 DEF Return, JQ!Finish, EndExecution, Goto, jobs
  <2>3. CASE Raise(w)
    BY <2>3 DEF Raise, JQ!Revoke, EndExecution, Goto, jobs
  <2>4. CASE Crash(w)
    BY <2>4 DEF Crash, EndExecution, Goto, jobs
  <2>5. ASSUME pc[w] # "idle", UNCHANGED <<job, jobs>>,
               NEW p \in Places, pc' = [pc EXCEPT ![w] = p]
        PROVE  LeasesKept'
    BY <2>5 DEF jobs
  <2>6. CASE Begin(w) \/ BeginRefused(w) \/ AgentFails(w) \/ Propose(w)
    BY <2>6, <2>5 DEF Begin, BeginRefused, AgentFails, Propose, Goto, Places
  <2>7. CASE ProposeRefused(w) \/ FailWrite(w) \/ FailAborts(w) \/ ReturnFails(w)
             \/ FailRead(w)
    BY <2>7, <2>5 DEF ProposeRefused, FailWrite, FailAborts, ReturnFails, FailRead, Goto,
                      Places
  <2>8. CASE AgentReads(w)
    BY <2>8, <1>1 DEF AgentReads
  <2>9. QED
    BY <1>2, <2>1, <2>2, <2>3, <2>4, <2>6, <2>7, <2>8
    DEF WorkerStep, Execute, ProposeReplyLost
<1>3. ASSUME NEW g \in Tasks, LeaseLapses(g) \/ OperateTask(g) PROVE LeasesKept'
  <2>1. CASE LeaseLapses(g)
    BY <1>3, <2>1 DEF LeaseLapses, JQ!Revoke, exec
  <2>2. CASE OperateTask(g)
    BY <1>3, <2>2 DEF OperateTask, JQ!Bury, JQ!Resubmit, exec
  <2>3. QED
    BY <1>3, <2>1, <2>2
<1>4. ASSUME UNCHANGED exec, NEW g \in Tasks, JQ!Submit(g) PROVE LeasesKept'
  BY <1>4 DEF exec, JQ!Submit
<1>5. CASE Ingest
  BY <1>5, <1>4 DEF Ingest, Tasks
<1>6. ASSUME NEW o \in Operators, OperatorStep(o) PROVE LeasesKept'
  <2>1. UNCHANGED exec
    BY <1>6, OperatorTypes DEF WorkInv
  <2>2. CASE RetryRun(o)
    <3>1. current + 1 \in Tasks
      BY <2>2, TypeParts DEF RetryRun, WorkInv, RowTypes, Tasks
    <3>2. QED
      BY <2>1, <2>2, <3>1, <1>4 DEF RetryRun
  <2>3. CASE ~RetryRun(o)
    BY <1>6, <2>1, <2>3, <1>1
    DEF OperatorStep, OpenRequest, ConfirmRun, RejectRun, TicketRun, ReviewAlert, exec
  <2>4. QED
    BY <2>2, <2>3
<1>7. CASE IngestIgnored \/ UNCHANGED vars
  BY <1>7, <1>1 DEF IngestIgnored, vars, exec
<1>8. QED
  BY <1>2, <1>3, <1>5, <1>6, <1>7 DEF Next

\* The run shows that it is worked on until the worker is done with it.
LEMMA RunStep ==
  ASSUME ~LostReplies, WorkInv, [Next]_vars
  PROVE  RunShowsWork'
<1>0. ExecTypes /\ RunShowsWork
  BY TypeParts DEF WorkInv
<1> USE <1>0 DEF ExecTypes, RunShowsWork, Working
<1>1. CASE UNCHANGED <<pc, job, run, current>>
  BY <1>1
<1>2. ASSUME NEW w \in Workers, WorkerStep(w) PROVE RunShowsWork'
  <2>1. CASE Begin(w)
    BY <2>1 DEF Begin, MayBegin, Goto
  <2>2. CASE Propose(w) \/ FailWrite(w)
    <3>1. pc[w] \in Working /\ UNCHANGED <<job, current>>
      BY <2>2 DEF Propose, WriteProposal, FailWrite
    <3>2. pc'[w] \notin Working /\ \A v \in Workers \ {w} : pc'[v] = pc[v]
      BY <2>2 DEF Propose, FailWrite, Goto
    <3>3. \A v \in Workers \ {w} : pc[v] \notin Working
      BY <3>1, WorkIsAlone
    <3>4. QED
      BY <3>2, <3>3
  <2>3. ASSUME UNCHANGED <<run, current, job>>, NEW p, pc' = [pc EXCEPT ![w] = p],
               p \in Working => pc[w] \in Working
        PROVE  RunShowsWork'
    BY <2>3
  <2>4. CASE BeginRefused(w) \/ AgentFails(w) \/ ProposeRefused(w) \/ FailRead(w)
             \/ FailAborts(w) \/ ReturnFails(w)
    BY <2>4, <2>3 DEF BeginRefused, AgentFails, ProposeRefused, FailRead, FailAborts,
                      ReturnFails, Goto, rows
  <2>5. CASE AgentReads(w)
    BY <2>5, <1>1 DEF AgentReads, rows
  <2>6. CASE EndExecution(w) /\ UNCHANGED rows
    BY <2>6 DEF EndExecution, Goto, rows
  <2>7. ASSUME NEW g \in Tasks, Claim(w, g) PROVE RunShowsWork'
    BY <2>7 DEF Claim, Goto, rows
  <2>8. QED
    BY <1>2, <2>1, <2>2, <2>4, <2>5, <2>6, <2>7
    DEF WorkerStep, Execute, Return, Raise, Crash, ProposeReplyLost
<1>3. ASSUME NEW o \in Operators, OperatorStep(o) PROVE RunShowsWork'
  <2>1. UNCHANGED <<pc, job>>
    BY <1>3, OperatorTypes DEF WorkInv, exec
  <2>2. run # "running" \/ UNCHANGED <<run, current>>
    BY <1>3 DEF OperatorStep, OpenRequest, ConfirmRun, RejectRun, TicketRun, Ticketable,
                RetryRun, ReviewAlert, rows
  <2>3. QED
    BY <2>1, <2>2
<1>4. ASSUME NEW g \in Tasks, LeaseLapses(g) \/ OperateTask(g) PROVE RunShowsWork'
  BY <1>4, <1>1 DEF LeaseLapses, OperateTask, rows, exec
<1>5. CASE Ingest \/ IngestIgnored
  BY <1>5 DEF Ingest, IngestIgnored, exec
<1>6. CASE UNCHANGED vars
  BY <1>6, <1>1 DEF vars, rows, exec
<1>7. QED
  BY <1>2, <1>3, <1>4, <1>5, <1>6 DEF Next

\* Every step keeps the leases with those who work and the run with its work.
LEMMA WorkStep ==
  ASSUME ~Stalls, ~LostReplies
  PROVE  WorkInv /\ [Next]_vars => WorkInv'
  BY LeaseStep, RunStep, TypeStep DEF WorkInv

\* While no live worker loses its lease and no reply is lost, one agent works on
\* the run at a time: OneAgent, however often its tasks crash, are retried by
\* operators or replaced.
THEOREM AgentsAlone ==
  ASSUME ~Stalls, ~LostReplies
  PROVE  Spec => []OneAgent
<1>1. WorkInv => OneAgent
  BY WorkIsAlone DEF OneAgent, Working
<1>2. QED
  BY <1>1, WorkInit, WorkStep, PTL DEF Spec

\* Under the same conditions a reviewer's decision stands: DecisionStands, against
\* any number of workers, task attempts, retries and other reviewers.
THEOREM DecisionsStand ==
  ASSUME ~Stalls, ~LostReplies
  PROVE  Spec => DecisionStands
<1> DEFINE Stands == run \in Reviewed => /\ run' \in Reviewed /\ draft' = draft
                                        /\ (run' = "confirmed" => run = "confirmed")
                                        /\ (run = "rejected" => run' = "rejected")
<1>1. WorkInv /\ [Next]_vars => [Stands]_vars
  <2> SUFFICES ASSUME WorkInv, [Next]_vars, run \in Reviewed PROVE Stands
    OBVIOUS
  <2>0. \A w \in Workers : pc[w] \notin Working
    BY DEF WorkInv, RunShowsWork, Reviewed
  <2>1. CASE UNCHANGED <<run, draft>>
    BY <2>1 DEF Reviewed
  <2>2. ASSUME NEW w \in Workers, WorkerStep(w) PROVE Stands
    BY <2>0, <2>1, <2>2
    DEF WorkerStep, Execute, Claim, Begin, MayBegin, BeginRefused, AgentReads, AgentFails,
        Propose, ProposeRefused, ProposeReplyLost, FailRead, FailWrite, FailAborts, Return,
        ReturnFails, Raise, Crash, rows, Working, Reviewed
  <2>3. ASSUME NEW o \in Operators, OperatorStep(o) PROVE Stands
    BY <2>3
    DEF OperatorStep, OpenRequest, ConfirmRun, RejectRun, TicketRun, Ticketable, RetryRun,
        ReviewAlert, rows, Reviewed
  <2>4. ASSUME NEW g \in Tasks, LeaseLapses(g) \/ OperateTask(g) PROVE Stands
    BY <2>1, <2>4 DEF LeaseLapses, OperateTask, rows
  <2>5. CASE Ingest \/ IngestIgnored
    BY <2>5 DEF Ingest, IngestIgnored, Reviewed
  <2>6. CASE UNCHANGED vars
    BY <2>1, <2>6 DEF vars, rows
  <2>7. QED
    BY <2>2, <2>3, <2>4, <2>5, <2>6 DEF Next
<1>2. QED
  BY <1>1, WorkInit, WorkStep, PTL DEF Spec, DecisionStands

\* A task that a retry of the run replaced changes no row of it any more:
\* ReplacedTaskIsInert, whatever the old execution still does.
THEOREM ReplacedTasksInert ==
  ASSUME ~Stalls, ~LostReplies
  PROVE  Spec => ReplacedTaskIsInert
<1> DEFINE Inert == \A w \in Workers : pc[w] # "idle" /\ job[w] # current /\ pc'[w] # pc[w] =>
                        UNCHANGED <<run, draft, evt, alert>>
<1>1. WorkInv /\ [Next]_vars => [Inert]_vars
  <2> SUFFICES ASSUME WorkInv, [Next]_vars,
                      NEW w \in Workers, pc[w] # "idle", job[w] # current, pc'[w] # pc[w]
               PROVE  UNCHANGED <<run, draft, evt, alert>>
    OBVIOUS
  <2>0. ExecTypes /\ pc[w] \notin Working
    BY TypeParts DEF WorkInv, RunShowsWork
  <2>1. ASSUME NEW v \in Workers, WorkerStep(v) PROVE UNCHANGED <<run, draft, evt, alert>>
    <3>1. CASE UNCHANGED rows
      BY <3>1 DEF rows
    <3>2. CASE Begin(v) \/ Propose(v) \/ FailWrite(v)
      <4>1. v = w
        BY <2>0, <3>2 DEF ExecTypes, Begin, Propose, FailWrite, Goto
      <4>2. QED
        BY <2>0, <3>2, <4>1 DEF Begin, MayBegin, Propose, FailWrite, Working
    <3>3. QED
      BY <2>1, <3>1, <3>2
      DEF WorkerStep, Execute, Claim, BeginRefused, AgentReads, AgentFails, ProposeRefused,
          ProposeReplyLost, FailRead, FailAborts, Return, ReturnFails, Raise, Crash
  <2>2. ASSUME UNCHANGED pc PROVE FALSE
    BY <2>2
  <2>3. ASSUME NEW o \in Operators, OperatorStep(o) PROVE FALSE
    BY <2>2, <2>3, OperatorTypes DEF WorkInv, exec
  <2>4. QED
    BY <2>1, <2>2, <2>3
    DEF Next, Ingest, IngestIgnored, LeaseLapses, OperateTask, vars, exec
<1>2. QED
  BY <1>1, WorkInit, WorkStep, PTL DEF Spec, ReplacedTaskIsInert

-----------------------------------------------------------------------------
(* Run, alert, event and task agree, if the alert is reviewed through its  *)
(* run only.                                                               *)

\* A review is not undone: what an old snapshot shows of it is still so.
ReviewIsFinal ==
    \A o \in Operators :
        /\ view[o].alert = "confirmed" => run \in Reviewed
        /\ view[o].alert \in {"rejected", "ticketed"} => run = view[o].alert

\* The alert waits while the run is in hand, and no execution has seen it proposed.
InHand == {"queued", "running", "failed"}
AlertFollows ==
    /\ AlertMirrorsRun /\ ProposalAnnounced
    /\ run \in InHand => alert = "pending"
    /\ run \in {"absent", "ignored"} => alert = "absent"
    /\ \A w \in Workers : seen[w].alert # "proposed"

\* A run in hand has its latest task, which has no successor yet and is not done; an
\* execution of it that returns has left the run settled.
TaskServes ==
    /\ run = "absent" => current = 0
    /\ run \in InHand => current \in Tasks /\ state[current] # "done"
    /\ \A g \in Tasks : g > current => state[g] = "none"
    /\ \A w \in Workers : pc[w] = "returning" /\ job[w] = current => run \notin InHand

AgreeInv == ReviewIsFinal /\ AlertFollows /\ TaskServes

\* Before the event arrives there is nothing to agree on.
LEMMA AgreeInit == Init => AgreeInv
  BY RunAssumption
  DEF Init, JQ!JobInit, AgreeInv, ReviewIsFinal, AlertFollows, AlertMirrorsRun,
      ProposalAnnounced, TaskServes, InHand, Reviewed, Closed, NothingSeen

\* Ingestion and reviews keep run, alert and event in step.
LEMMA ReviewAgrees ==
  ASSUME ~AlertApi, WorkInv, AgreeInv,
         \/ Ingest \/ IngestIgnored
         \/ \E o \in Operators : OperatorStep(o)
  PROVE  ReviewIsFinal' /\ AlertFollows'
<1>0. RowTypes /\ ViewTypes
  BY TypeParts DEF WorkInv
<1> USE <1>0 DEF RowTypes, ViewTypes, AgreeInv, ReviewIsFinal, AlertFollows, AlertMirrorsRun,
                 ProposalAnnounced, InHand, Reviewed
<1>1. CASE Ingest \/ IngestIgnored
  BY <1>1 DEF Ingest, IngestIgnored, exec
<1>2. ASSUME NEW o \in Operators, OperatorStep(o)
      PROVE  ReviewIsFinal' /\ AlertFollows'
  <2>1. CASE OpenRequest(o)
    BY <2>1 DEF OpenRequest, rows, exec, RunStatuses
  <2>2. ASSUME Requested(o)
        PROVE  \A u \in Operators : view'[u] = view[u] \/ view'[u].alert = "absent"
    BY <2>2 DEF Requested, Closed
  <2>3. CASE ConfirmRun(o)
    BY <2>2, <2>3 DEF ConfirmRun, Requested, Written, exec
  <2>4. CASE RejectRun(o)
    BY <2>2, <2>4 DEF RejectRun, Requested, Written, exec
  <2>5. CASE TicketRun(o)
    BY <2>2, <2>5 DEF TicketRun, Ticketable, Requested, Written, exec
  <2>6. CASE RetryRun(o)
    BY <2>2, <2>6 DEF RetryRun, Requested, exec
  <2>7. QED
    BY <1>2, <2>1, <2>3, <2>4, <2>5, <2>6 DEF OperatorStep, ReviewAlert
<1>3. QED
  BY <1>1, <1>2

\* So do the executions: they write only while the run is in hand.
LEMMA ExecutionAgrees ==
  ASSUME ~LostReplies, WorkInv, AgreeInv, NEW w \in Workers, WorkerStep(w)
  PROVE  ReviewIsFinal' /\ AlertFollows'
<1>0. ExecTypes /\ UNCHANGED view
  BY TypeParts
  DEF WorkInv, WorkerStep, Execute, Claim, Begin, BeginRefused, AgentReads, AgentFails,
      Propose, ProposeRefused, ProposeReplyLost, FailRead, FailWrite, FailAborts, Return,
      ReturnFails, Raise, Crash
<1> USE <1>0 DEF ExecTypes, AgreeInv, ReviewIsFinal, AlertFollows, AlertMirrorsRun,
                 ProposalAnnounced, InHand, Reviewed
<1>1. CASE Begin(w)
  BY <1>1 DEF Begin, MayBegin
<1>2. CASE Propose(w)
  <2>1. run = "running" /\ alert = "pending"
    BY <1>2 DEF Propose, WorkInv, RunShowsWork, Working
  <2>2. QED
    BY <1>2, <2>1 DEF Propose, WriteProposal
<1>3. CASE FailWrite(w)
  <2>1. run = "running" /\ alert = "pending"
    BY <1>3 DEF FailWrite, WorkInv, RunShowsWork, Working
  <2>2. QED
    BY <1>3, <2>1 DEF FailWrite
<1>4. CASE AgentReads(w)
  <2>1. alert = "pending"
    BY <1>4 DEF AgentReads, WorkInv, RunShowsWork, Working
  <2>2. QED
    BY <1>4, <2>1 DEF AgentReads, rows
<1>5. CASE UNCHANGED <<rows, seen>>
  BY <1>5 DEF rows
<1>6. CASE FailRead(w)
  BY <1>6 DEF FailRead, rows
<1>7. CASE UNCHANGED rows /\ EndExecution(w)
  BY <1>7 DEF rows, EndExecution, NothingSeen
<1>8. QED
  BY <1>1, <1>2, <1>3, <1>4, <1>5, <1>6, <1>7
  DEF WorkerStep, Execute, Claim, BeginRefused, AgentFails, ProposeRefused,
      ProposeReplyLost, FailAborts, Return, ReturnFails, Raise, Crash

\* A task is done only by an execution that settled the run, or that a retry had replaced.
LEMMA TaskStep ==
  ASSUME ~Stalls, ~LostReplies, WorkInv, AgreeInv, [Next]_vars
  PROVE  TaskServes'
<1>0. RowTypes /\ JobTypes /\ ExecTypes /\ Employed /\ LeasesKept /\ RunShowsWork /\ TaskServes
  BY TypeParts DEF WorkInv, AgreeInv
<1>l. \A w \in Workers : pc[w] # "idle" => state[job[w]] = "leased" /\ job[w] <= current
  BY <1>0, RunAssumption DEF LeasesKept, Employed, Tasks, JobTypes, RowTypes, TaskServes
<1> USE <1>0 DEF RowTypes, JobTypes, ExecTypes, TaskServes, InHand, Tasks
<1>1. ASSUME UNCHANGED <<run, current, state, job>>,
             \A w \in Workers : pc'[w] = "returning" => pc[w] = "returning"
      PROVE  TaskServes'
  BY <1>1
<1>2. ASSUME NEW w \in Workers, WorkerStep(w) PROVE TaskServes'
  <2> USE DEF Goto
  <2>1. ASSUME NEW g \in Tasks, Claim(w, g) PROVE TaskServes'
    BY <2>1 DEF Claim, JQ!Lease, rows
  <2>2. CASE Begin(w)
    <3>1. \A v \in Workers : pc[v] = "returning" => job[v] # current
      BY <2>2 DEF Begin, MayBegin, LeasesKept
    <3>2. QED
      BY <2>2, <3>1, <1>l DEF Begin, MayBegin, jobs
  <2>3. CASE BeginRefused(w)
    BY <2>3 DEF BeginRefused, MayBegin, rows, jobs
  <2>4. CASE Propose(w)
    BY <2>4 DEF Propose, WriteProposal, jobs
  <2>5. CASE FailWrite(w)
    <3>1. \A v \in Workers : pc[v] = "returning" => job[v] # current
      BY <2>5 DEF FailWrite, RunShowsWork, Working
    <3>2. run = "running"
      BY <2>5 DEF FailWrite, RunShowsWork, Working
    <3>3. QED
      BY <2>5, <3>1, <3>2 DEF FailWrite, jobs
  <2>6. CASE AgentReads(w) \/ AgentFails(w) \/ ProposeRefused(w) \/ FailRead(w)
             \/ FailAborts(w) \/ ReturnFails(w)
    BY <1>1, <2>6 DEF AgentReads, AgentFails, ProposeRefused, FailRead, FailAborts,
                      ReturnFails, rows, jobs
  <2>7. CASE Return(w)
    <3>1. CASE UNCHANGED jobs
      BY <2>7, <3>1 DEF Return, EndExecution, rows, jobs
    <3>2. CASE JQ!Finish(job[w])
      <4>1. job[w] = current => run \notin InHand
        BY <2>7 DEF Return
      <4>2. \A g \in Tasks : state'[g] = IF g = job[w] THEN "done" ELSE state[g]
        BY <3>2 DEF JQ!Finish
      <4>3. job[w] <= current
        BY <2>7, <1>l DEF Return
      <4>4. QED
        BY <2>7, <4>1, <4>2, <4>3 DEF Return, EndExecution, rows
    <3>3. QED
      BY <2>7, <3>1, <3>2 DEF Return
  <2>8. CASE Raise(w)
    <3>1. CASE UNCHANGED jobs
      BY <2>8, <3>1 DEF Raise, EndExecution, rows, jobs
    <3>2. CASE \E B \in SUBSET {job[w]} : JQ!Revoke({job[w]}, B)
      <4>1. \A g \in Tasks : state'[g] = state[g] \/ (state'[g] # "done" /\ g = job[w])
        BY <3>2 DEF JQ!Revoke
      <4>2. job[w] <= current
        BY <2>8, <1>l DEF Raise
      <4>3. QED
        BY <2>8, <4>1, <4>2 DEF Raise, EndExecution, rows
    <3>3. QED
      BY <2>8, <3>1, <3>2 DEF Raise
  <2>9. CASE Crash(w)
    BY <2>9 DEF Crash, EndExecution, rows, jobs
  <2>10. QED
    BY <1>2, <2>1, <2>2, <2>3, <2>4, <2>5, <2>6, <2>7, <2>8, <2>9
    DEF WorkerStep, Execute, ProposeReplyLost
<1>3. ASSUME NEW g \in Tasks, LeaseLapses(g) \/ OperateTask(g) PROVE TaskServes'
  <2>1. UNCHANGED <<rows, exec>>
    BY <1>3 DEF LeaseLapses, OperateTask
  <2>2. \A h \in Tasks : state'[h] = state[h] \/ (state'[h] # "done" /\ state[h] # "none")
    BY <1>3 DEF LeaseLapses, OperateTask, JQ!Revoke, JQ!Bury, JQ!Resubmit
  <2>3. QED
    BY <2>1, <2>2 DEF rows, exec
<1>4. CASE Ingest
  <2>1. current = 0 /\ 1 \in Tasks /\ \A w \in Workers : pc[w] = "idle"
    BY <1>4, <1>l, RunAssumption DEF Ingest, Employed
  <2>2. QED
    BY <1>4, <2>1 DEF Ingest, JQ!Submit, exec
<1>5. CASE IngestIgnored
  BY <1>5 DEF IngestIgnored, exec, jobs
<1>6. ASSUME NEW o \in Operators, OperatorStep(o) PROVE TaskServes'
  <2>1. UNCHANGED exec
    BY <1>6, OperatorTypes DEF WorkInv
  <2>2. CASE RetryRun(o)
    <3>1. /\ current' = current + 1 /\ current' \in Tasks /\ run' = "queued" /\ run = "failed"
          /\ \A g \in Tasks : state'[g] = IF g = current + 1 THEN "waiting" ELSE state[g]
      BY <2>2, RunAssumption DEF RetryRun, JQ!Submit
    <3>2. \A w \in Workers : pc[w] # "idle" => job[w] # current'
      BY <1>l, <3>1
    <3>3. QED
      BY <2>1, <3>1, <3>2 DEF exec
  <2>3. CASE ConfirmRun(o) \/ RejectRun(o) \/ TicketRun(o)
    BY <2>1, <2>3 DEF ConfirmRun, RejectRun, TicketRun, exec, jobs
  <2>4. CASE OpenRequest(o) \/ ReviewAlert(o)
    BY <2>1, <2>4 DEF OpenRequest, ReviewAlert, rows, exec, jobs
  <2>5. QED
    BY <1>6, <2>2, <2>3, <2>4 DEF OperatorStep
<1>7. CASE UNCHANGED vars
  BY <1>7, <1>1 DEF vars, rows, exec, jobs
<1>8. QED
  BY <1>2, <1>3, <1>4, <1>5, <1>6, <1>7 DEF Next

\* Every step of reviewers, workers, the stale scan and operators keeps the agreement.
LEMMA AgreeStep ==
  ASSUME ~Stalls, ~LostReplies, ~AlertApi
  PROVE  WorkInv /\ AgreeInv /\ [Next]_vars => AgreeInv'
<1> SUFFICES ASSUME WorkInv, AgreeInv, [Next]_vars PROVE AgreeInv'
  OBVIOUS
<1>1. TaskServes'
  BY TaskStep
<1>2. CASE UNCHANGED <<rows, seen, view>>
  BY <1>1, <1>2 DEF AgreeInv, ReviewIsFinal, AlertFollows, AlertMirrorsRun, ProposalAnnounced,
                    rows
<1>3. QED
  BY <1>1, <1>2, ReviewAgrees, ExecutionAgrees
  DEF AgreeInv, Next, LeaseLapses, OperateTask, vars, exec

\* While live workers keep their leases, no reply is lost and the alert is reviewed through
\* its run only, the run, its alert, its event, the proposal in the outbox and the task that
\* serves it agree in every state: RunKept, for any workers, reviewers, retries and crashes.
THEOREM RowsAgree ==
  ASSUME ~Stalls, ~LostReplies, ~AlertApi
  PROVE  Spec => []RunKept
<1>1. AgreeInv => RunKept
  BY DEF AgreeInv, AlertFollows, TaskServes, RunKept, NotAbandoned, InHand
<1>2. QED
  BY <1>1, WorkInit, WorkStep, AgreeInit, AgreeStep, PTL DEF Spec

-----------------------------------------------------------------------------
(* Agents and their memory.                                                *)

Tools == DOMAIN Toolbox \cup {"unknown"}
AgentRun ==
    [call : AgentCalls, turn : Nat, asked : Seq(Tools),
     steps : Seq([tool : Tools, turn : Nat, error : BOOLEAN]),
     pc : {"recall", "think", "tools", "fallback", "answered", "degraded"}]
RowStates == {"kept", "dropped", "overdue", "purged"}
MemoryRow ==
    [owner : Owners, agent : DOMAIN Personas \cup {""}, by : Nat, fact : MemFacts,
     mode : {"legacy", "explicit_opt_in"}, weight : 0..2, idle : 0..2, state : RowStates]
MemoryJob ==
    [pc : {"none", "asked", "admitted"}, owner : Owners, agent : DOMAIN Personas \cup {""},
     facts : Seq(MemFacts), evicted : SUBSET Nat]
Told ==
    [pc : {"none", "asked", "recent", "similar", "told"}, gone : SUBSET Nat, rows : SUBSET Nat,
     prefs : SUBSET {About[f] : f \in MemFacts}]

AgentTypes ==
    /\ memRows \in Seq(MemoryRow) /\ memVectors \subseteq DOMAIN memRows
    /\ memPrefs \subseteq {o.user : o \in Owners} \X {About[f] : f \in MemFacts}
    /\ memJobs \in Seq(MemoryJob) /\ memTold \in Told /\ memFaults \in Nat
    /\ agentRuns \in Seq(AgentRun) /\ Len(memJobs) = Len(agentRuns)
    /\ toolWrites \subseteq (DOMAIN agentRuns) \X (DOMAIN Toolbox)
    /\ NoJobs \in MemoryJob

\* One loop goes on at a time, and it calls a tool only if one was asked for.
LoopInv ==
    \A a \in DOMAIN agentRuns :
        /\ LoopEnded(a) \/ a = Len(agentRuns)
        /\ AgentAt(a, "tools") => agentRuns[a].asked # <<>>

\* Facts are on their way for runs that answered, with the consent of their callers.
JobsInv ==
    \A a \in DOMAIN memJobs :
        /\ memJobs[a].pc = "none" => memJobs[a] = NoJobs
        /\ memJobs[a].pc # "none" =>
              /\ "auto_save" \in memoryOn /\ AgentAt(a, "answered") /\ agentRuns[a].call.writes
              /\ memJobs[a].owner = agentRuns[a].call.owner
              /\ memJobs[a].agent = agentRuns[a].call.persona
              /\ Len(memJobs[a].facts) <= 2

\* What is remembered with consent was written after a run.
RowsInv ==
    /\ RememberedWithConsent
    /\ \A i \in DOMAIN memRows : memRows[i].mode \in Explicit => memRows[i].by \in DOMAIN agentRuns

\* What the last run is told, and what was gone before.
ToldInv ==
    /\ memTold.rows # {} => memTold.pc # "none"
    /\ memTold.pc # "none" =>
          /\ Len(agentRuns) # 0 /\ "enable" \in memoryOn
          /\ LET call == agentRuns[Len(agentRuns)].call IN
                /\ call.ctx /\ Reads(call)
                /\ \A i \in memTold.rows :
                      /\ i \in DOMAIN memRows
                      /\ memRows[i].owner = call.owner /\ memRows[i].agent = call.persona
                      /\ memRows[i].mode \in Explicit /\ i \notin memTold.gone
          /\ \A i \in memTold.gone : i \in DOMAIN memRows /\ ~Kept(i)

\* Alone, the facts that are admitted have room.
RoomInv ==
    agentAlone =>
        /\ \A a \in DOMAIN memJobs : memJobs[a].pc # "none" => a = Len(agentRuns)
        /\ \A o \in Owners : Cardinality(KeptOf(o)) <= Capacity
        /\ \A a \in DOMAIN memJobs : memJobs[a].pc = "admitted" =>
              Cardinality(KeptOf(memJobs[a].owner)) + Len(memJobs[a].facts) <= Capacity

AgentInv ==
    /\ AgentTypes /\ LoopInv /\ JobsInv /\ RowsInv /\ ToldInv /\ RoomInv
    /\ WritesAreAuthorised /\ CallsAreOnRecord /\ PurgedLeavesNoVector

-----------------------------------------------------------------------------
(* What every step leaves: the calls and the ends of runs, whose a row is, *)
(* and that a row which is gone does not come back.                        *)

RunsOn ==
    /\ agentRuns' \in Seq(AgentRun) /\ Len(agentRuns') >= Len(agentRuns)
    /\ \A a \in DOMAIN agentRuns : /\ agentRuns'[a].call = agentRuns[a].call
                                   /\ LoopEnded(a) => agentRuns'[a] = agentRuns[a]
Ages(r, q) ==
    /\ q \in MemoryRow /\ q.owner = r.owner /\ q.agent = r.agent /\ q.by = r.by /\ q.mode = r.mode
    /\ q.state = "kept" => r.state = "kept"
RowsOn ==
    /\ memRows' \in Seq(MemoryRow) /\ Len(memRows') >= Len(memRows)
    /\ \A i \in DOMAIN memRows : Ages(memRows[i], memRows'[i])
Aged == RowsOn /\ Len(memRows') = Len(memRows)

\* A list that is made anew of a list, place by place.
LEMMA Remade ==
  ASSUME NEW S, NEW s \in Seq(S), NEW F, F = [i \in DOMAIN s |-> F[i]],
         \A i \in DOMAIN s : F[i] \in S
  PROVE  F \in Seq(S) /\ Len(F) = Len(s)
<1>1. DOMAIN s = 1..Len(s) /\ Len(s) \in Nat
  OBVIOUS
<1>2. F \in [1..Len(s) -> S]
  BY <1>1
<1>3. F \in Seq(S)
  BY <1>1, <1>2, SeqDef
<1> QED BY <1>1, <1>2, <1>3, LenProperties

LEMMA RunGoesOn ==
  ASSUME AgentTypes, NEW a \in DOMAIN agentRuns, ~LoopEnded(a),
         NEW r \in AgentRun, r.call = agentRuns[a].call,
         agentRuns' = [agentRuns EXCEPT ![a] = r]
  PROVE  /\ RunsOn /\ Len(agentRuns') = Len(agentRuns) /\ DOMAIN agentRuns' = DOMAIN agentRuns
         /\ agentRuns'[a] = r /\ \A b \in (DOMAIN agentRuns) \ {a} : agentRuns'[b] = agentRuns[b]
<1>1. agentRuns' \in Seq(AgentRun) /\ Len(agentRuns') = Len(agentRuns)
  BY ExceptSeq DEF AgentTypes
<1>2. agentRuns'[a] = r /\ \A b \in (DOMAIN agentRuns) \ {a} : agentRuns'[b] = agentRuns[b]
  BY DEF AgentTypes
<1>3. DOMAIN agentRuns' = DOMAIN agentRuns
  OBVIOUS
<1>4. Len(agentRuns') >= Len(agentRuns)
  BY <1>1 DEF AgentTypes
<1> QED BY <1>1, <1>2, <1>3, <1>4 DEF RunsOn

LEMMA RunBegins ==
  ASSUME AgentTypes, NEW r \in AgentRun, agentRuns' = Append(agentRuns, r)
  PROVE  /\ RunsOn /\ Len(agentRuns') = Len(agentRuns) + 1
         /\ DOMAIN agentRuns' = (DOMAIN agentRuns) \cup {Len(agentRuns) + 1}
         /\ agentRuns'[Len(agentRuns) + 1] = r
         /\ \A b \in DOMAIN agentRuns : agentRuns'[b] = agentRuns[b]
<1>1. agentRuns \in Seq(AgentRun)
  BY DEF AgentTypes
<1>2. /\ agentRuns' \in Seq(AgentRun) /\ Len(agentRuns') = Len(agentRuns) + 1
      /\ agentRuns'[Len(agentRuns) + 1] = r
      /\ \A b \in 1..Len(agentRuns) : agentRuns'[b] = agentRuns[b]
  BY <1>1, AppendProperties
<1>3. Len(agentRuns) \in Nat /\ DOMAIN agentRuns = 1..Len(agentRuns)
  BY <1>1
<1>4. DOMAIN agentRuns' = 1..(Len(agentRuns) + 1)
  BY <1>2
<1>5. DOMAIN agentRuns' = (DOMAIN agentRuns) \cup {Len(agentRuns) + 1}
  BY <1>3, <1>4
<1> QED BY <1>2, <1>3, <1>5 DEF RunsOn

\* Rows that grow older, are looked up, or are forgotten.
LEMMA RowsAge ==
  ASSUME AgentTypes, memRows' = [i \in DOMAIN memRows |-> memRows'[i]],
         \A i \in DOMAIN memRows : Ages(memRows[i], memRows'[i])
  PROVE  Aged
<1>1. memRows' \in Seq(MemoryRow) /\ Len(memRows') = Len(memRows)
  BY Remade DEF AgentTypes, Ages
<1>2. Len(memRows') >= Len(memRows)
  BY <1>1
<1> QED BY <1>1, <1>2 DEF Aged, RowsOn

LEMMA RowsRest == AgentTypes /\ UNCHANGED memRows => Aged
<1> SUFFICES ASSUME AgentTypes, UNCHANGED memRows PROVE Aged
  OBVIOUS
<1>1. \A i \in DOMAIN memRows : memRows[i] \in MemoryRow
  BY DEF AgentTypes
<1> QED BY <1>1 DEF AgentTypes, Aged, RowsOn, Ages

LEMMA RunsRest == AgentTypes /\ UNCHANGED agentRuns => RunsOn
BY DEF AgentTypes, RunsOn

LEMMA RowIdle ==
  ASSUME NEW r \in MemoryRow, NEW idle \in 0..2
  PROVE  LET q == [r EXCEPT !.idle = idle] IN Ages(r, q) /\ q.state = r.state
BY DEF MemoryRow, Ages

LEMMA RowLighter ==
  ASSUME NEW r \in MemoryRow, NEW weight \in 0..2
  PROVE  LET q == [r EXCEPT !.weight = weight] IN Ages(r, q) /\ q.state = r.state
BY DEF MemoryRow, Ages

LEMMA RowGone ==
  ASSUME NEW r \in MemoryRow, NEW mark \in RowStates, mark # "kept"
  PROVE  LET q == [r EXCEPT !.state = mark] IN Ages(r, q) /\ q.state = mark
BY DEF MemoryRow, Ages

LEMMA RowOlder ==
  ASSUME NEW r \in MemoryRow, NEW idle \in 0..2, NEW mark \in RowStates,
         mark = "kept" => r.state = "kept"
  PROVE  LET q == [r EXCEPT !.idle = idle, !.state = mark] IN Ages(r, q) /\ q.state = mark
BY DEF MemoryRow, Ages

LEMMA RecallAges ==
  ASSUME AgentTypes, NEW owner, NEW agent, RecallSimilar(owner, agent)
  PROVE  Aged /\ \A i \in DOMAIN memRows : memRows'[i].state = memRows[i].state
<1>1. PICK hits :
        memRows' = [i \in DOMAIN memRows |->
                      IF i \in hits THEN [memRows[i] EXCEPT !.idle = 0] ELSE memRows[i]]
  BY DEF RecallSimilar
<1>2. ASSUME NEW i \in DOMAIN memRows
      PROVE  Ages(memRows[i], memRows'[i]) /\ memRows'[i].state = memRows[i].state
  <2> DEFINE r == memRows[i]
             new == [r EXCEPT !.idle = 0]
  <2>1. r \in MemoryRow
    BY DEF AgentTypes
  <2>2. memRows'[i] = IF i \in hits THEN new ELSE r
    BY <1>1
  <2>3. Ages(r, new) /\ new.state = r.state
    <3>1. 0 \in 0..2
      OBVIOUS
    <3> HIDE DEF r
    <3> QED BY <2>1, <3>1, RowIdle
  <2> HIDE DEF new
  <2> QED BY <2>1, <2>2, <2>3 DEF Ages
<1>3. memRows' = [i \in DOMAIN memRows |-> memRows'[i]]
  BY <1>1
<1> QED BY <1>2, <1>3, RowsAge

LEMMA ForgetAges ==
  ASSUME AgentTypes, NEW i \in DOMAIN memRows, Forget(i)
  PROVE  Aged /\ memRows'[i].state = "dropped"
         /\ \A j \in (DOMAIN memRows) \ {i} : memRows'[j] = memRows[j]
<1> DEFINE r == memRows[i]
           new == [r EXCEPT !.state = "dropped"]
<1>1. \A j \in DOMAIN memRows : memRows[j] \in MemoryRow
  BY DEF AgentTypes
<1>2. Ages(r, new) /\ new.state = "dropped"
  <2>1. "dropped" \in RowStates
    BY DEF RowStates
  <2>2. r \in MemoryRow
    BY <1>1
  <2> HIDE DEF r
  <2> QED BY <2>1, <2>2, RowGone
<1>3. memRows' = [memRows EXCEPT ![i] = new]
  BY DEF Forget
<1> HIDE DEF new
<1>4. memRows'[i] = new /\ \A j \in (DOMAIN memRows) \ {i} : memRows'[j] = memRows[j]
  BY <1>3
<1>5. memRows' = [j \in DOMAIN memRows |-> memRows'[j]]
  BY <1>3
<1>6. \A j \in DOMAIN memRows : Ages(memRows[j], memRows'[j])
  BY <1>1, <1>2, <1>4 DEF Ages
<1> QED BY <1>2, <1>4, <1>5, <1>6, RowsAge

LEMMA SpanAges ==
  ASSUME AgentTypes, SpanPasses
  PROVE  /\ Aged
         /\ \A i \in DOMAIN memRows : memRows'[i].state = "purged" => memRows[i].state = "purged"
<1>1. memRows' = [i \in DOMAIN memRows |->
                    [memRows[i] EXCEPT !.idle = IF @ < 2 THEN @ + 1 ELSE @,
                                       !.state = IF @ = "dropped" THEN "overdue" ELSE @]]
  BY DEF SpanPasses
<1>2. ASSUME NEW i \in DOMAIN memRows
      PROVE  /\ Ages(memRows[i], memRows'[i])
             /\ memRows'[i].state = "purged" => memRows[i].state = "purged"
  <2> DEFINE r == memRows[i]
             idle == IF r.idle < 2 THEN r.idle + 1 ELSE r.idle
             mark == IF r.state = "dropped" THEN "overdue" ELSE r.state
             new == [r EXCEPT !.idle = idle, !.state = mark]
  <2>1. r \in MemoryRow
    BY DEF AgentTypes
  <2>2. memRows'[i] = new
    BY <1>1, <2>1 DEF MemoryRow
  <2>3. idle \in 0..2 /\ mark \in RowStates /\ (mark = "kept" => r.state = "kept")
        /\ (mark = "purged" => r.state = "purged")
    <3>1. r.idle \in 0..2 /\ r.state \in RowStates
      BY <2>1 DEF MemoryRow
    <3> HIDE DEF r
    <3> QED BY <3>1 DEF RowStates
  <2>4. Ages(r, new) /\ new.state = mark
    <3> HIDE DEF r, idle, mark
    <3> QED BY <2>1, <2>3, RowOlder
  <2> HIDE DEF new
  <2> QED BY <2>2, <2>3, <2>4
<1>3. memRows' = [i \in DOMAIN memRows |-> memRows'[i]]
  BY <1>1
<1> QED BY <1>2, <1>3, RowsAge

LEMMA DecayAges ==
  ASSUME AgentTypes, Decay
  PROVE  /\ Aged
         /\ \A i \in DOMAIN memRows :
               memRows'[i].state = "purged" => memRows[i].state \in {"overdue", "purged"}
<1> DEFINE overdue == {i \in DOMAIN memRows : memRows[i].state = "overdue"}
           idle == {i \in DOMAIN memRows : Kept(i) /\ memRows[i].idle > 0}
           Lighter(row) ==
             [row EXCEPT !.weight = IF row.idle >= row.weight THEN 0 ELSE @ - row.idle]
<1>1. memRows' = [i \in DOMAIN memRows |->
                    IF i \in overdue THEN [memRows[i] EXCEPT !.state = "purged"]
                    ELSE IF i \in idle THEN Lighter(memRows[i]) ELSE memRows[i]]
  BY DEF Decay
<1>2. ASSUME NEW i \in DOMAIN memRows
      PROVE  /\ Ages(memRows[i], memRows'[i])
             /\ memRows'[i].state = "purged" => memRows[i].state \in {"overdue", "purged"}
  <2> DEFINE r == memRows[i]
             weight == IF r.idle >= r.weight THEN 0 ELSE r.weight - r.idle
             lighter == [r EXCEPT !.weight = weight]
             purged == [r EXCEPT !.state = "purged"]
  <2>1. r \in MemoryRow
    BY DEF AgentTypes
  <2>2. Lighter(r) = lighter
    BY <2>1 DEF MemoryRow
  <2>3. memRows'[i] = IF i \in overdue THEN purged ELSE IF i \in idle THEN lighter ELSE r
    BY <1>1, <2>2
  <2>4. weight \in 0..2
    <3>1. r.weight \in 0..2 /\ r.idle \in 0..2
      BY <2>1 DEF MemoryRow
    <3> HIDE DEF r
    <3> QED BY <3>1
  <2>5. Ages(r, lighter) /\ lighter.state = r.state
    <3> HIDE DEF r, weight
    <3> QED BY <2>1, <2>4, RowLighter
  <2>6. Ages(r, purged) /\ purged.state = "purged"
    <3>1. "purged" \in RowStates
      BY DEF RowStates
    <3> HIDE DEF r
    <3> QED BY <2>1, <3>1, RowGone
  <2>7. Ages(r, r) /\ (i \in overdue <=> r.state = "overdue")
    BY <2>1 DEF Ages
  <2> HIDE DEF lighter, purged, idle, overdue
  <2> QED BY <2>3, <2>5, <2>6, <2>7
<1>3. memRows' = [i \in DOMAIN memRows |-> memRows'[i]]
  BY <1>1
<1> QED BY <1>2, <1>3, RowsAge

\* A list of at most two facts: what is picked of it is of it, and as long as it should be.
LEMMA FactsPicked ==
  ASSUME NEW list \in Seq(MemFacts), Len(list) <= 2, NEW P \in SUBSET DOMAIN list
  PROVE  /\ FactsAt(list, P) \in Seq(MemFacts)
         /\ Len(FactsAt(list, P)) = Cardinality(P)
         /\ IsFiniteSet(P) /\ Cardinality(P) \in Nat /\ Cardinality(P) <= Len(list)
<1> DEFINE F == FactsAt(list, P)
<1>1. DOMAIN list = 1..Len(list) /\ Len(list) \in Nat
  OBVIOUS
<1>2. IsFiniteSet(1..Len(list)) /\ Cardinality(1..Len(list)) = Len(list)
  <2>1. 1 \in Int /\ Len(list) \in Int
    BY <1>1
  <2>2. Cardinality(1..Len(list)) = IF 1 > Len(list) THEN 0 ELSE Len(list) - 1 + 1
    BY <2>1, FS_Interval
  <2>3. IsFiniteSet(1..Len(list))
    BY <2>1, FS_Interval
  <2> QED BY <1>1, <2>2, <2>3
<1>3. IsFiniteSet(P) /\ Cardinality(P) \in Nat /\ Cardinality(P) <= Len(list)
  BY <1>1, <1>2, FS_Subset, FS_CardinalityType
<1>4. P = {} \/ P = {1} \/ P = {2} \/ P = {1, 2}
  BY <1>1
<1>5. \A n \in 1..Cardinality(P) :
        \E i \in P : Cardinality({j \in P : j < i}) = n - 1
  <2>1. Cardinality({}) = 0 /\ \A x : Cardinality({x}) = 1
    BY FS_EmptySet, FS_Singleton
  <2>2. CASE P = {}
    BY <2>1, <2>2
  <2>3. ASSUME NEW x \in {1, 2}, P = {x}
        PROVE  \A n \in 1..Cardinality(P) :
                  \E i \in P : Cardinality({j \in P : j < i}) = n - 1
    <3>1. {j \in P : j < x} = {}
      BY <2>3
    <3>2. x \in P /\ Cardinality(P) = 1
      BY <2>1, <2>3
    <3>3. \A n \in 1..1 : n - 1 = 0
      OBVIOUS
    <3>4. Cardinality({j \in P : j < x}) = 0
      BY <2>1, <3>1
    <3> QED BY <3>2, <3>3, <3>4
  <2>4. CASE P = {1, 2}
    <3>1. Cardinality(P) = 2
      <4>1. P = {1} \cup {2} /\ IsFiniteSet({1})
        BY <2>4, FS_Singleton
      <4>2. Cardinality({1} \cup {2}) = IF 2 \in {1} THEN Cardinality({1}) ELSE Cardinality({1}) + 1
        BY <4>1, FS_AddElement
      <4>3. Cardinality({1}) = 1
        BY <2>1, Zenon
      <4>4. 2 \notin {1}
        OBVIOUS
      <4>5. Cardinality({1} \cup {2}) = 1 + 1
        BY <4>2, <4>3, <4>4, Zenon
      <4>6. Cardinality(P) = 1 + 1
        BY <4>1, <4>5, Zenon
      <4> QED BY <4>6
    <3>2. {j \in P : j < 1} = {} /\ {j \in P : j < 2} = {1}
      BY <2>4
    <3>3. Cardinality({j \in P : j < 1}) = 0 /\ Cardinality({j \in P : j < 2}) = 1
      BY <2>1, <3>2
    <3>4. 1 \in P /\ 2 \in P
      BY <2>4
    <3>5. \A n \in 1..2 : n - 1 = 0 \/ n - 1 = 1
      OBVIOUS
    <3> QED BY <3>1, <3>3, <3>4, <3>5
  <2> QED BY <1>4, <2>2, <2>3, <2>4
<1>6. F = [n \in 1..Cardinality(P) |->
             list[CHOOSE i \in P : Cardinality({j \in P : j < i}) = n - 1]]
  BY DEF FactsAt
<1>7. \A n \in 1..Cardinality(P) : F[n] \in MemFacts
  <2> SUFFICES ASSUME NEW n \in 1..Cardinality(P) PROVE F[n] \in MemFacts
    OBVIOUS
  <2> DEFINE i == CHOOSE i \in P : Cardinality({j \in P : j < i}) = n - 1
  <2>1. i \in P
    BY <1>5
  <2>2. F[n] = list[i]
    BY <1>6
  <2> HIDE DEF i
  <2> QED BY <2>1, <2>2
<1> HIDE DEF F
<1>8. F \in [1..Cardinality(P) -> MemFacts]
  BY <1>6, <1>7
<1>9. F \in Seq(MemFacts)
  BY <1>3, <1>8, SeqDef
<1>10. Len(F) = Cardinality(P)
  BY <1>3, <1>8, <1>9, LenProperties
<1> QED BY <1>3, <1>9, <1>10 DEF F

-----------------------------------------------------------------------------
(* Each step leaves the types and goes on from where it was.               *)

GoesOn ==
    /\ RunsOn /\ RowsOn /\ memFaults' \in Nat /\ (memFaults' = 0 => memFaults = 0)
    /\ memoryOn' = memoryOn /\ agentAlone' = agentAlone

Settled ==
    /\ memVectors' \subseteq DOMAIN memRows'
    /\ memPrefs' \subseteq {o.user : o \in Owners} \X {About[f] : f \in MemFacts}
    /\ memJobs' \in Seq(MemoryJob) /\ Len(memJobs') = Len(agentRuns') /\ memTold' \in Told
    /\ toolWrites' \subseteq (DOMAIN agentRuns') \X (DOMAIN Toolbox)

LEMMA TypesGoOn == AgentTypes /\ GoesOn /\ Settled => AgentTypes'
BY DEF AgentTypes, GoesOn, RunsOn, RowsOn, Settled

LEMMA DomainsGrow ==
  AgentTypes /\ RunsOn /\ RowsOn =>
    DOMAIN agentRuns \subseteq DOMAIN agentRuns' /\ DOMAIN memRows \subseteq DOMAIN memRows'
BY DEF AgentTypes, RunsOn, RowsOn

LEMMA FaultCounts == AgentTypes /\ MemFault => memFaults' \in Nat /\ memFaults' # 0
BY DEF AgentTypes, MemFault

LEMMA JobChanges ==
  ASSUME AgentTypes, NEW a \in DOMAIN memJobs, NEW batch \in MemoryJob,
         memJobs' = [memJobs EXCEPT ![a] = batch]
  PROVE  /\ memJobs' \in Seq(MemoryJob) /\ Len(memJobs') = Len(memJobs)
         /\ DOMAIN memJobs' = DOMAIN memJobs /\ memJobs'[a] = batch
         /\ \A b \in (DOMAIN memJobs) \ {a} : memJobs'[b] = memJobs[b]
<1>1. memJobs' \in Seq(MemoryJob) /\ Len(memJobs') = Len(memJobs)
  BY ExceptSeq DEF AgentTypes
<1> QED BY <1>1 DEF AgentTypes

LEMMA StartStep ==
  ASSUME AgentTypes, StartAgent
  PROVE  AgentTypes' /\ GoesOn
<1>1. PICK call \in AgentCalls :
        LET recalls == call.ctx /\ "enable" \in memoryOn /\ Reads(call) IN
        /\ agentRuns' = Append(agentRuns, [call |-> call, turn |-> 0, asked |-> <<>>,
                                           steps |-> <<>>,
                                           pc |-> IF recalls THEN "recall" ELSE "think"])
        /\ memTold' = IF recalls THEN [NothingTold EXCEPT !.pc = "asked",
                                            !.gone = {i \in DOMAIN memRows : ~Kept(i)}]
                      ELSE NothingTold
  BY DEF StartAgent
<1> DEFINE recalls == call.ctx /\ "enable" \in memoryOn /\ Reads(call)
           begun == [call |-> call, turn |-> 0, asked |-> <<>>, steps |-> <<>>,
                   pc |-> IF recalls THEN "recall" ELSE "think"]
           gone == {i \in DOMAIN memRows : ~Kept(i)}
<1>2. begun \in AgentRun
  BY DEF AgentRun
<1>3. RunsOn /\ Len(agentRuns') = Len(agentRuns) + 1
  <2> HIDE DEF begun
  <2> QED BY <1>1, <1>2, RunBegins DEF begun, recalls
<1>4. memTold' \in Told
  <2>1. gone \in SUBSET Nat
    BY DEF AgentTypes
  <2>2. NothingTold \in Told /\ [NothingTold EXCEPT !.pc = "asked", !.gone = gone] \in Told
    <3> HIDE DEF gone
    <3> QED BY <2>1 DEF NothingTold, Told
  <2> QED BY <1>1, <2>2
<1>5. memJobs' \in Seq(MemoryJob) /\ Len(memJobs') = Len(agentRuns')
  <2>1. memJobs' = Append(memJobs, NoJobs) /\ memJobs \in Seq(MemoryJob) /\ NoJobs \in MemoryJob
    BY DEF StartAgent, AgentTypes
  <2> QED BY <1>3, <2>1, AppendProperties DEF AgentTypes
<1>6. GoesOn
  BY <1>3, RowsRest DEF StartAgent, GoesOn, MemStep, Aged, AgentTypes
<1>7. Settled
  <2>1. /\ memVectors' = memVectors /\ memPrefs' = memPrefs /\ memRows' = memRows
        /\ toolWrites' = toolWrites
    BY DEF StartAgent, MemStores, MemStep
  <2>2. DOMAIN agentRuns \subseteq DOMAIN agentRuns'
    BY <1>6, DomainsGrow DEF GoesOn
  <2> QED BY <1>4, <1>5, <2>1, <2>2 DEF Settled, AgentTypes
<1> QED BY <1>6, <1>7, TypesGoOn

LEMMA ToldMore ==
  ASSUME AgentTypes, NEW place \in {"recent", "similar", "told"}, NEW found \in SUBSET Nat,
         NEW prefs \in SUBSET {About[f] : f \in MemFacts}, TellMore(place, found, prefs)
  PROVE  /\ memTold' \in Told /\ memTold'.pc = place /\ memTold'.gone = memTold.gone
         /\ memTold'.rows = memTold.rows \cup found
<1>1. memTold' = [memTold EXCEPT !.pc = place, !.rows = memTold.rows \cup found,
                                 !.prefs = memTold.prefs \cup prefs]
  BY DEF TellMore
<1>2. /\ memTold \in Told /\ memTold.rows \cup found \in SUBSET Nat
      /\ memTold.prefs \cup prefs \in SUBSET {About[f] : f \in MemFacts}
  BY DEF AgentTypes, Told
<1> QED BY <1>1, <1>2 DEF Told

\* What may be told is kept, the asker's, and was remembered with consent.
LEMMA TellableRows ==
  ASSUME AgentTypes, NEW owner, NEW agent
  PROVE  /\ Tellable(owner, agent) \subseteq DOMAIN memRows
         /\ Tellable(owner, agent) \in SUBSET Nat
         /\ \A i \in Tellable(owner, agent) :
               /\ Kept(i) /\ memRows[i].owner = owner /\ memRows[i].mode \in Explicit
               /\ memRows[i].agent \in {agent, ""}
<1>1. DOMAIN memRows \subseteq Nat
  BY DEF AgentTypes
<1> QED BY <1>1 DEF Tellable, KeptOf, RowsOf

LEMMA RecallStep ==
  ASSUME AgentTypes, NEW a \in DOMAIN agentRuns, Recall(a)
  PROVE  /\ AgentTypes' /\ GoesOn /\ Len(memRows') = Len(memRows)
         /\ \A i \in DOMAIN memRows : memRows'[i].state = memRows[i].state
         /\ memJobs' = memJobs /\ Len(agentRuns') = Len(agentRuns) /\ memVectors' = memVectors
<1> DEFINE call == agentRuns[a].call
<1>1. /\ memVectors' = memVectors /\ memJobs' = memJobs /\ toolWrites' = toolWrites
      /\ memoryOn' = memoryOn /\ agentAlone' = agentAlone /\ memPrefs' = memPrefs
      /\ memFaults' = memFaults
  BY DEF Recall, RecallRecent, RecallSimilar, RecallPreferences, MemStores, MemStep
<1>2. Aged /\ \A i \in DOMAIN memRows : memRows'[i].state = memRows[i].state
  <2>1. CASE RecallSimilar(call.owner, call.persona)
    BY <2>1, RecallAges
  <2>2. CASE UNCHANGED memRows
    BY <2>2, RowsRest
  <2> QED BY <2>1, <2>2 DEF Recall, RecallRecent, RecallPreferences
<1>3. RunsOn /\ Len(agentRuns') = Len(agentRuns)
  <2>1. CASE UNCHANGED agentRuns
    BY <2>1, RunsRest
  <2>2. CASE agentRuns' = [agentRuns EXCEPT ![a].pc = "think"]
    <3> DEFINE r == agentRuns[a]
               new == [r EXCEPT !.pc = "think"]
    <3>1. r \in AgentRun
      BY DEF AgentTypes
    <3>2. new \in AgentRun /\ new.call = r.call
      <4> HIDE DEF r
      <4> QED BY <3>1 DEF AgentRun
    <3>3. ~LoopEnded(a)
      BY DEF Recall, AgentAt, LoopEnded
    <3>4. agentRuns' = [agentRuns EXCEPT ![a] = new]
      BY <2>2
    <3> HIDE DEF new
    <3> QED BY <3>2, <3>3, <3>4, RunGoesOn
  <2> QED BY <2>1, <2>2 DEF Recall
<1>4. memTold' \in Told
  <2>1. CASE RecallRecent(call.owner, call.persona)
    <3>1. TellMore("recent", memHot \cap Tellable(call.owner, call.persona), {})
      BY <2>1 DEF RecallRecent
    <3>2. memHot \cap Tellable(call.owner, call.persona) \in SUBSET Nat
      BY TellableRows
    <3> HIDE DEF call
    <3> QED BY <3>1, <3>2, ToldMore
  <2>2. CASE RecallSimilar(call.owner, call.persona)
    <3>1. PICK hits \in SUBSET (memVectors \cap Tellable(call.owner, call.persona)) :
            TellMore("similar", hits, {})
      BY <2>2 DEF RecallSimilar
    <3>2. hits \in SUBSET Nat
      BY <3>1, TellableRows
    <3> QED BY <3>1, <3>2, ToldMore
  <2>3. CASE RecallPreferences(call.owner)
    <3> DEFINE prefs == {p[2] : p \in {q \in memPrefs : q[1] = call.owner.user}}
    <3>1. TellMore("told", {}, prefs)
      BY <2>3 DEF RecallPreferences
    <3>2. prefs \in SUBSET {About[f] : f \in MemFacts}
      BY DEF AgentTypes
    <3> HIDE DEF prefs
    <3> QED BY <3>1, <3>2, ToldMore
  <2> QED BY <2>1, <2>2, <2>3 DEF Recall
<1>5. GoesOn
  BY <1>1, <1>2, <1>3 DEF GoesOn, Aged, AgentTypes
<1>6. Settled
  BY <1>1, <1>2, <1>3, <1>4, <1>5, DomainsGrow DEF Settled, AgentTypes, GoesOn
<1> QED BY <1>1, <1>2, <1>3, <1>5, <1>6, TypesGoOn DEF Aged

\* A run that goes a step further, in the loop or to its end.
LEMMA LoopGoesOn ==
  ASSUME AgentTypes, NEW a \in DOMAIN agentRuns, ~LoopEnded(a),
         NEW new \in AgentRun, new.call = agentRuns[a].call,
         agentRuns' = [agentRuns EXCEPT ![a] = new],
         NEW batch \in MemoryJob, memJobs' = [memJobs EXCEPT ![a] = batch],
         toolWrites' \subseteq (DOMAIN agentRuns) \X (DOMAIN Toolbox),
         memFaults' = memFaults \/ MemFault, LoopStep
  PROVE  AgentTypes' /\ GoesOn
<1>1. RunsOn /\ Len(agentRuns') = Len(agentRuns) /\ DOMAIN agentRuns' = DOMAIN agentRuns
  BY RunGoesOn
<1>2. memRows' = memRows /\ memVectors' = memVectors /\ memPrefs' = memPrefs /\ memTold' = memTold
      /\ memoryOn' = memoryOn /\ agentAlone' = agentAlone
  BY DEF LoopStep, MemStores
<1>3. memJobs' \in Seq(MemoryJob) /\ Len(memJobs') = Len(memJobs)
  BY JobChanges DEF AgentTypes
<1>4. RowsOn
  BY <1>2, RowsRest DEF Aged
<1>5. memFaults' \in Nat /\ (memFaults' = 0 => memFaults = 0)
  BY FaultCounts DEF AgentTypes
<1>6. GoesOn
  BY <1>1, <1>2, <1>4, <1>5 DEF GoesOn
<1>7. Settled
  BY <1>1, <1>2, <1>3 DEF Settled, AgentTypes
<1> QED BY <1>6, <1>7, TypesGoOn

LEMMA JobRests ==
  ASSUME AgentTypes, NEW a \in DOMAIN agentRuns
  PROVE  memJobs[a] \in MemoryJob /\ memJobs = [memJobs EXCEPT ![a] = memJobs[a]]
BY DEF AgentTypes

\* The facts that are asked to be remembered are the caller's, who consented.
AskedOf(batch, call) ==
    /\ "auto_save" \in memoryOn /\ call.writes /\ batch.pc = "asked"
    /\ batch.owner = call.owner /\ batch.agent = call.persona /\ Len(batch.facts) <= 2

LEMMA CallOfRun ==
  ASSUME AgentTypes, NEW a \in DOMAIN agentRuns
  PROVE  /\ agentRuns[a] \in AgentRun /\ agentRuns[a].call \in AgentCalls
         /\ agentRuns[a].call.owner \in Owners /\ agentRuns[a].call.persona \in DOMAIN Personas
<1> DEFINE r == agentRuns[a]
           call == r.call
<1>1. r \in AgentRun
  BY DEF AgentTypes
<1>2. call \in AgentCalls
  <2> HIDE DEF r
  <2> QED BY <1>1 DEF AgentRun
<1>3. call.owner \in Owners /\ call.persona \in DOMAIN Personas
  <2> HIDE DEF call
  <2> QED BY <1>2, AgentAssumption
<1> QED BY <1>1, <1>2, <1>3

LEMMA Asking ==
  ASSUME AgentTypes, NEW a \in DOMAIN agentRuns, AskToRemember(a)
  PROVE  \E batch \in MemoryJob :
            /\ memJobs' = [memJobs EXCEPT ![a] = batch]
            /\ batch = memJobs[a] \/ batch = NoJobs \/ AskedOf(batch, agentRuns[a].call)
<1> DEFINE call == agentRuns[a].call
<1>1. CASE ~(call.ctx /\ "auto_save" \in memoryOn /\ call.writes)
  <2>1. memJobs' = memJobs
    BY <1>1, Zenon DEF AskToRemember
  <2>2. memJobs[a] \in MemoryJob /\ memJobs' = [memJobs EXCEPT ![a] = memJobs[a]]
    BY <2>1, JobRests
  <2> QED BY <2>2
<1>2. CASE call.ctx /\ "auto_save" \in memoryOn /\ call.writes
  <2> DEFINE Asks(facts) ==
               memJobs' = [memJobs EXCEPT ![a] =
                             IF facts = <<>> THEN NoJobs
                             ELSE [NoJobs EXCEPT !.pc = "asked", !.owner = call.owner,
                                                 !.agent = call.persona, !.facts = facts]]
  <2>1. PICK count \in 0..2 : \E facts \in [1..count -> MemFacts] : Asks(facts)
    BY <1>2, Zenon DEF AskToRemember
  <2>2. PICK facts \in [1..count -> MemFacts] : Asks(facts)
    BY <2>1
  <2>3. facts \in Seq(MemFacts) /\ Len(facts) <= 2
    <3>1. facts \in Seq(MemFacts)
      BY SeqDef
    <3>2. Len(facts) = count
      BY <3>1, LenProperties
    <3> QED BY <3>1, <3>2
  <2> DEFINE owner == call.owner
             persona == call.persona
  <2>4. owner \in Owners /\ persona \in DOMAIN Personas \cup {""}
    BY CallOfRun
  <2> DEFINE place == "asked"
             asked == [NoJobs EXCEPT !.pc = place, !.owner = owner, !.agent = persona,
                                 !.facts = facts]
  <2>5. NoJobs \in MemoryJob
    BY DEF AgentTypes
  <2>6. asked \in MemoryJob /\ AskedOf(asked, call)
    <3>1. "auto_save" \in memoryOn /\ call.writes
      BY <1>2
    <3>2. place \in {"none", "asked", "admitted"}
      OBVIOUS
    <3>3. /\ asked \in MemoryJob /\ asked.pc = place /\ asked.facts = facts
          /\ asked.owner = owner /\ asked.agent = persona
      <4>1. facts \in Seq(MemFacts)
        BY <2>3
      <4> HIDE DEF owner, persona, place
      <4> QED BY <2>4, <2>5, <3>2, <4>1 DEF MemoryJob
    <3> HIDE DEF asked
    <3> QED BY <2>3, <3>1, <3>3 DEF AskedOf
  <2> HIDE DEF asked
  <2> QED BY <2>2, <2>5, <2>6 DEF asked
<1> QED BY <1>1, <1>2

\* The turn of a model: another run, and at its end the facts that are asked for.
LEMMA ThinkStep ==
  ASSUME AgentTypes, NEW a \in DOMAIN agentRuns, Think(a)
  PROVE  /\ AgentTypes' /\ GoesOn
         /\ \E new \in AgentRun, batch \in MemoryJob :
               /\ agentRuns' = [agentRuns EXCEPT ![a] = new]
               /\ memJobs' = [memJobs EXCEPT ![a] = batch]
               /\ new.call = agentRuns[a].call /\ new.steps = agentRuns[a].steps
               /\ new.pc = "tools" => new.asked # <<>>
               /\ \/ batch = memJobs[a] \/ batch = NoJobs
                  \/ AskedOf(batch, agentRuns[a].call) /\ new.pc = "answered"
<1> DEFINE r == agentRuns[a]
           turn == r.turn + 1
<1>1. r \in AgentRun /\ ~LoopEnded(a) /\ turn \in Nat
  <2>1. r \in AgentRun
    BY DEF AgentTypes
  <2>2. turn \in Nat
    <3> HIDE DEF r
    <3> QED BY <2>1 DEF AgentRun
  <2>3. ~LoopEnded(a)
    BY DEF Think, AgentAt, LoopEnded
  <2> QED BY <2>1, <2>2, <2>3
<1>2. /\ toolWrites' = toolWrites /\ LoopStep
      /\ (memFaults' = memFaults \/ MemFault)
  BY DEF Think
<1>3. \E new \in AgentRun, batch \in MemoryJob :
        /\ agentRuns' = [agentRuns EXCEPT ![a] = new]
        /\ memJobs' = [memJobs EXCEPT ![a] = batch]
        /\ new.call = r.call /\ new.steps = r.steps
        /\ new.pc = "tools" => new.asked # <<>>
        /\ \/ batch = memJobs[a] \/ batch = NoJobs
           \/ AskedOf(batch, r.call) /\ new.pc = "answered"
  <2> DEFINE Goes(new, batch) ==
               /\ agentRuns' = [agentRuns EXCEPT ![a] = new]
               /\ memJobs' = [memJobs EXCEPT ![a] = batch]
               /\ new.call = r.call /\ new.steps = r.steps
               /\ new.pc = "tools" => new.asked # <<>>
               /\ \/ batch = memJobs[a] \/ batch = NoJobs
                  \/ AskedOf(batch, r.call) /\ new.pc = "answered"
  <2>1. ASSUME NEW asked \in {<<t>> : t \in DOMAIN Toolbox \cup {"unknown"}}
                                \cup {<<"unknown", t>> : t \in DOMAIN Toolbox},
               agentRuns' = [agentRuns EXCEPT ![a].turn = turn, ![a].pc = "tools",
                                              ![a].asked = asked],
               UNCHANGED memJobs
        PROVE  \E new \in AgentRun, batch \in MemoryJob : Goes(new, batch)
    <3> DEFINE new == [r EXCEPT !.turn = turn, !.pc = "tools", !.asked = asked]
    <3>1. asked \in Seq(Tools) /\ asked # <<>>
      <4>1. CASE asked \in {<<t>> : t \in DOMAIN Toolbox \cup {"unknown"}}
        <5>1. PICK t \in Tools : asked = <<t>>
          BY <4>1 DEF Tools
        <5> QED BY <5>1
      <4>2. CASE asked \in {<<"unknown", t>> : t \in DOMAIN Toolbox}
        <5>1. PICK t \in Tools, u \in Tools : asked = <<t, u>>
          BY <4>2 DEF Tools
        <5> QED BY <5>1
      <4> QED BY <4>1, <4>2
    <3>2. new \in AgentRun /\ new.call = r.call /\ new.steps = r.steps /\ new.asked # <<>>
      <4> HIDE DEF r, turn
      <4> QED BY <1>1, <3>1 DEF AgentRun
    <3>3. agentRuns' = [agentRuns EXCEPT ![a] = new]
      BY <2>1, <1>1 DEF AgentRun
    <3> HIDE DEF new
    <3>4. memJobs[a] \in MemoryJob /\ memJobs' = [memJobs EXCEPT ![a] = memJobs[a]]
      BY <2>1, JobRests
    <3>5. Goes(new, memJobs[a])
      BY <3>2, <3>3, <3>4
    <3> HIDE DEF Goes
    <3> QED BY <3>2, <3>4, <3>5
  <2>2. ASSUME agentRuns' = [agentRuns EXCEPT ![a].turn = turn, ![a].pc = "answered"],
               AskToRemember(a)
        PROVE  \E new \in AgentRun, batch \in MemoryJob : Goes(new, batch)
    <3> DEFINE new == [r EXCEPT !.turn = turn, !.pc = "answered"]
    <3>2. /\ new \in AgentRun /\ new.call = r.call /\ new.steps = r.steps
          /\ new.pc = "answered"
      <4> HIDE DEF r, turn
      <4> QED BY <1>1 DEF AgentRun
    <3>3. agentRuns' = [agentRuns EXCEPT ![a] = new]
      BY <2>2, <1>1 DEF AgentRun
    <3> HIDE DEF new
    <3>4. PICK batch \in MemoryJob :
            /\ memJobs' = [memJobs EXCEPT ![a] = batch]
            /\ batch = memJobs[a] \/ batch = NoJobs \/ AskedOf(batch, r.call)
      BY <2>2, Asking
    <3>5. Goes(new, batch)
      BY <3>2, <3>3, <3>4
    <3> HIDE DEF Goes
    <3> QED BY <3>2, <3>4, <3>5
  <2>3. ASSUME agentRuns' = [agentRuns EXCEPT ![a].turn = turn, ![a].pc = "fallback"],
               UNCHANGED memJobs
        PROVE  \E new \in AgentRun, batch \in MemoryJob : Goes(new, batch)
    <3> DEFINE new == [r EXCEPT !.turn = turn, !.pc = "fallback"]
    <3>2. /\ new \in AgentRun /\ new.call = r.call /\ new.steps = r.steps
          /\ new.pc = "fallback"
      <4> HIDE DEF r, turn
      <4> QED BY <1>1 DEF AgentRun
    <3>3. agentRuns' = [agentRuns EXCEPT ![a] = new]
      BY <2>3, <1>1 DEF AgentRun
    <3> HIDE DEF new
    <3>4. memJobs[a] \in MemoryJob /\ memJobs' = [memJobs EXCEPT ![a] = memJobs[a]]
      BY <2>3, JobRests
    <3>5. Goes(new, memJobs[a])
      BY <3>2, <3>3, <3>4
    <3> HIDE DEF Goes
    <3> QED BY <3>2, <3>4, <3>5
  <2> HIDE DEF Goes
  <2>4. \E new \in AgentRun, batch \in MemoryJob : Goes(new, batch)
    BY <2>1, <2>2, <2>3 DEF Think
  <2> QED BY <2>4 DEF Goes
<1>4. AgentTypes' /\ GoesOn
  BY <1>1, <1>2, <1>3, LoopGoesOn DEF AgentTypes
<1> QED BY <1>3, <1>4

LEMMA FallbackStep ==
  ASSUME AgentTypes, NEW a \in DOMAIN agentRuns, OutOfTurns(a) \/ Fallback(a)
  PROVE  /\ AgentTypes' /\ GoesOn /\ memJobs' = memJobs
         /\ \E new \in AgentRun :
               /\ agentRuns' = [agentRuns EXCEPT ![a] = new]
               /\ new.call = agentRuns[a].call /\ new.steps = agentRuns[a].steps
               /\ new.pc \in {"fallback", "degraded"}
<1> DEFINE r == agentRuns[a]
<1>1. r \in AgentRun /\ ~LoopEnded(a)
  BY DEF AgentTypes, OutOfTurns, Fallback, AgentAt, LoopEnded
<1>2. /\ toolWrites' = toolWrites /\ LoopStep /\ memFaults' = memFaults /\ memJobs' = memJobs
  BY DEF OutOfTurns, Fallback
<1>3. PICK place \in {"fallback", "degraded"} : agentRuns' = [agentRuns EXCEPT ![a].pc = place]
  BY DEF OutOfTurns, Fallback
<1> DEFINE new == [r EXCEPT !.pc = place]
<1>4. agentRuns' = [agentRuns EXCEPT ![a] = new]
  BY <1>3
<1>5. new \in AgentRun /\ new.call = r.call /\ new.steps = r.steps /\ new.pc = place
  <2> HIDE DEF r
  <2> QED BY <1>1 DEF AgentRun
<1> HIDE DEF new
<1>6. AgentTypes' /\ GoesOn
  BY <1>1, <1>2, <1>4, <1>5, JobRests, LoopGoesOn DEF AgentTypes
<1> QED BY <1>2, <1>4, <1>5, <1>6

\* A call of a tool: one step more on the run's list, which is written down.
LEMMA ToolStep ==
  ASSUME AgentTypes, LoopInv, NEW a \in DOMAIN agentRuns, RunTool(a)
  PROVE  /\ AgentTypes' /\ GoesOn /\ memJobs' = memJobs
         /\ LET tool == Head(agentRuns[a].asked)
                step == Len(agentRuns[a].steps) + 1
            IN /\ \E new \in AgentRun, did \in [tool : Tools, turn : Nat, error : BOOLEAN] :
                     /\ agentRuns' = [agentRuns EXCEPT ![a] = new]
                     /\ new.call = agentRuns[a].call /\ new.pc \in {"think", "tools"}
                     /\ new.steps = Append(agentRuns[a].steps, did) /\ did.tool = tool
                     /\ new.pc = "tools" => new.asked # <<>>
               /\ toolAudits \subseteq toolAudits'
               /\ memFaults' = 0 /\ tool # "unknown" => <<a, step>> \in toolAudits'
               /\ \/ toolWrites' = toolWrites
                  \/ /\ toolWrites' = toolWrites \cup {<<a, tool>>}
                     /\ ~Denied(agentRuns[a].call, tool)
<1> DEFINE r == agentRuns[a]
           tool == Head(r.asked)
           step == Len(r.steps) + 1
           runs == tool # "unknown" /\ ~Denied(r.call, tool)
           Did(fails) == [tool |-> tool, turn |-> r.turn, error |-> fails \/ ~runs]
           place == IF Tail(r.asked) = <<>> THEN "think" ELSE "tools"
           New(fails) == [r EXCEPT !.steps = Append(r.steps, Did(fails)), !.asked = Tail(r.asked),
                                   !.pc = place]
<1>1. r \in AgentRun /\ ~LoopEnded(a) /\ r.asked # <<>>
  BY DEF AgentTypes, RunTool, AgentAt, LoopEnded, LoopInv
<1>2. /\ LoopStep /\ (memFaults' = memFaults \/ MemFault)
      /\ memJobs' = memJobs
  BY DEF RunTool
<1>3. tool \in Tools /\ Tail(r.asked) \in Seq(Tools)
  <2>1. r.asked \in Seq(Tools)
    BY <1>1 DEF AgentRun
  <2> QED BY <1>1, <2>1, HeadTailProperties
<1>4. ASSUME NEW fails \in BOOLEAN
      PROVE  /\ Did(fails) \in [tool : Tools, turn : Nat, error : BOOLEAN]
             /\ Did(fails).tool = tool
             /\ New(fails) \in AgentRun /\ New(fails).call = r.call
             /\ New(fails).pc \in {"think", "tools"}
             /\ New(fails).steps = Append(r.steps, Did(fails))
             /\ New(fails).pc = "tools" => New(fails).asked # <<>>
  <2> DEFINE did == Did(fails)
             steps == Append(r.steps, did)
             rest == Tail(r.asked)
  <2>1. r.turn \in Nat /\ (fails \/ ~runs) \in BOOLEAN
    BY <1>1 DEF AgentRun
  <2>2. did \in [tool : Tools, turn : Nat, error : BOOLEAN] /\ did.tool = tool
    <3> HIDE DEF runs, tool
    <3> QED BY <1>3, <2>1
  <2>3. steps \in Seq([tool : Tools, turn : Nat, error : BOOLEAN])
    <3>1. r.steps \in Seq([tool : Tools, turn : Nat, error : BOOLEAN])
      BY <1>1 DEF AgentRun
    <3> HIDE DEF did
    <3> QED BY <2>2, <3>1, AppendProperties
  <2>4. rest \in Seq(Tools) /\ place \in {"think", "tools"} /\ (place = "tools" => rest # <<>>)
    BY <1>3
  <2>5. LET new == [r EXCEPT !.steps = steps, !.asked = rest, !.pc = place] IN
        /\ new \in AgentRun /\ new.call = r.call /\ new.pc = place /\ new.steps = steps
        /\ new.asked = rest
    <3> HIDE DEF r, steps, rest, place
    <3> QED BY <1>1, <2>3, <2>4 DEF AgentRun
  <2> QED BY <2>2, <2>4, <2>5
<1>5. PICK fails \in BOOLEAN :
        /\ agentRuns' = [agentRuns EXCEPT ![a] = New(fails)]
        /\ \/ toolWrites' = toolWrites
           \/ toolWrites' = toolWrites \cup {<<a, tool>>} /\ runs
        /\ \/ toolAudits' = Audited(a, step, tool)
           \/ MemFault /\ UNCHANGED toolAudits
  BY <1>1 DEF RunTool, AgentRun
<1>6. /\ toolAudits \subseteq toolAudits'
      /\ memFaults' = 0 /\ tool # "unknown" => <<a, step>> \in toolAudits'
  BY <1>5, FaultCounts DEF Audited
<1>7. toolWrites' \subseteq (DOMAIN agentRuns) \X (DOMAIN Toolbox)
  <2>1. runs => tool \in DOMAIN Toolbox
    BY <1>3 DEF Tools
  <2> HIDE DEF tool
  <2> QED BY <1>5, <2>1 DEF AgentTypes
<1> DEFINE new == New(fails)
           did == Did(fails)
<1>8. /\ did \in [tool : Tools, turn : Nat, error : BOOLEAN] /\ did.tool = tool
      /\ new \in AgentRun /\ new.call = r.call /\ new.pc \in {"think", "tools"}
      /\ new.steps = Append(r.steps, did) /\ (new.pc = "tools" => new.asked # <<>>)
  BY <1>4
<1>9. agentRuns' = [agentRuns EXCEPT ![a] = new]
  BY <1>5
<1> HIDE DEF new, did
<1>10. AgentTypes' /\ GoesOn
  BY <1>1, <1>2, <1>7, <1>8, <1>9, JobRests, LoopGoesOn
<1>11. /\ \/ toolWrites' = toolWrites
          \/ /\ toolWrites' = toolWrites \cup {<<a, tool>>}
             /\ ~Denied(r.call, tool)
  BY <1>5
<1> QED BY <1>2, <1>6, <1>8, <1>9, <1>10, <1>11

\* A step of the memory: no run goes on, and one job at most changes.
LEMMA MemoryGoesOn ==
  ASSUME AgentTypes, RowsOn, UNCHANGED <<agentRuns, memTold>>, MemStep,
         memFaults' = memFaults \/ MemFault, memVectors' \subseteq DOMAIN memRows',
         memPrefs' \subseteq {o.user : o \in Owners} \X {About[f] : f \in MemFacts},
         memJobs' \in Seq(MemoryJob), Len(memJobs') = Len(memJobs)
  PROVE  AgentTypes' /\ GoesOn
<1>1. memFaults' \in Nat /\ (memFaults' = 0 => memFaults = 0)
  BY FaultCounts DEF AgentTypes
<1>2. GoesOn
  BY <1>1, RunsRest DEF GoesOn, MemStep
<1>3. Settled
  BY DEF Settled, MemStep, AgentTypes
<1> QED BY <1>2, <1>3, TypesGoOn

LEMMA AgingGoesOn ==
  ASSUME AgentTypes, Aged, UNCHANGED <<agentRuns, memTold, memPrefs>>, MemStep,
         memFaults' = memFaults \/ MemFault, memVectors' \subseteq memVectors,
         memJobs' \in Seq(MemoryJob), Len(memJobs') = Len(memJobs)
  PROVE  AgentTypes' /\ GoesOn
<1>1. DOMAIN memRows' = DOMAIN memRows /\ RowsOn
  BY DEF Aged, RowsOn, AgentTypes
<1>2. /\ memVectors' \subseteq DOMAIN memRows'
      /\ memPrefs' \subseteq {o.user : o \in Owners} \X {About[f] : f \in MemFacts}
  BY <1>1 DEF AgentTypes
<1> QED BY <1>1, <1>2, MemoryGoesOn

\* Rows that are evicted grow no younger.
LEMMA EvictionAges ==
  ASSUME AgentTypes, NEW S, memRows' = Evicted(memRows, S)
  PROVE  /\ Aged
         /\ \A i \in DOMAIN memRows :
               memRows'[i].state = IF i \in S THEN "dropped" ELSE memRows[i].state
<1>1. memRows' = [i \in DOMAIN memRows |->
                    IF i \in S THEN [memRows[i] EXCEPT !.state = "dropped"] ELSE memRows[i]]
  BY DEF Evicted
<1>2. ASSUME NEW i \in DOMAIN memRows
      PROVE  /\ Ages(memRows[i], memRows'[i])
             /\ memRows'[i].state = IF i \in S THEN "dropped" ELSE memRows[i].state
  <2> DEFINE r == memRows[i]
             new == [r EXCEPT !.state = "dropped"]
  <2>1. r \in MemoryRow /\ "dropped" \in RowStates
    BY DEF AgentTypes, RowStates
  <2>2. memRows'[i] = IF i \in S THEN new ELSE r
    BY <1>1
  <2>3. Ages(r, new) /\ new.state = "dropped"
    <3> HIDE DEF r
    <3> QED BY <2>1, RowGone
  <2> HIDE DEF new
  <2> QED BY <2>1, <2>2, <2>3 DEF Ages
<1>3. memRows' = [i \in DOMAIN memRows |-> memRows'[i]]
  BY <1>1
<1> QED BY <1>2, <1>3, RowsAge

LEMMA JobParts ==
  ASSUME AgentTypes, NEW a \in DOMAIN memJobs
  PROVE  /\ memJobs[a] \in MemoryJob /\ memJobs[a].owner \in Owners
         /\ memJobs[a].agent \in DOMAIN Personas \cup {""}
         /\ memJobs[a].facts \in Seq(MemFacts) /\ a \in DOMAIN agentRuns /\ a \in Nat
<1>1. memJobs[a] \in MemoryJob /\ a \in DOMAIN agentRuns /\ a \in Nat
  BY DEF AgentTypes
<1> DEFINE batch == memJobs[a]
<1> HIDE DEF batch
<1>2. batch \in MemoryJob
  BY <1>1 DEF batch
<1>3. batch.owner \in Owners /\ batch.agent \in DOMAIN Personas \cup {""}
      /\ batch.facts \in Seq(MemFacts)
  BY <1>2 DEF MemoryJob
<1> QED BY <1>1, <1>3 DEF batch

LEMMA KeptFinite ==
  ASSUME AgentTypes, NEW o
  PROVE  /\ KeptOf(o) \subseteq DOMAIN memRows /\ KeptOf(o) \in SUBSET Nat
         /\ IsFiniteSet(KeptOf(o)) /\ Cardinality(KeptOf(o)) \in Nat
<1>1. DOMAIN memRows = 1..Len(memRows) /\ Len(memRows) \in Nat
  BY DEF AgentTypes
<1>2. KeptOf(o) \subseteq DOMAIN memRows
  BY DEF KeptOf, RowsOf
<1>3. IsFiniteSet(1..Len(memRows))
  BY <1>1, FS_Interval
<1>4. IsFiniteSet(KeptOf(o))
  BY <1>1, <1>2, <1>3, FS_Subset
<1>5. Cardinality(KeptOf(o)) \in Nat
  BY <1>4, FS_CardinalityType
<1> QED BY <1>1, <1>2, <1>4, <1>5

\* What is admitted: rows go only when there is no room, and then as many as there are facts,
\* or all; of the facts, no more are left than there is room for.
LEMMA AdmitStep ==
  ASSUME AgentTypes, JobsInv, NEW a \in DOMAIN memJobs, Admit(a), UNCHANGED agentRuns, MemStep
  PROVE  /\ AgentTypes' /\ GoesOn /\ Aged /\ UNCHANGED <<agentRuns, memTold, memVectors>>
         /\ \A i \in DOMAIN memRows : memRows'[i].state = "purged" => memRows[i].state = "purged"
         /\ LET batch == memJobs[a]
                K == KeptOf(batch.owner)
            IN \E S \in SUBSET K, new \in MemoryJob :
                  /\ memJobs' = [memJobs EXCEPT ![a] = new]
                  /\ \A i \in DOMAIN memRows :
                        memRows'[i].state = IF i \in S THEN "dropped" ELSE memRows[i].state
                  /\ \/ new = NoJobs
                     \/ /\ new.pc = "admitted" /\ new.owner = batch.owner /\ new.agent = batch.agent
                        /\ Len(new.facts) <= Len(batch.facts)
                        /\ Cardinality(K) < Capacity => Len(new.facts) <= Capacity - Cardinality(K)
                  /\ \/ Cardinality(K) < Capacity
                     \/ S \in Evictions(batch.owner, Len(batch.facts))
<1> DEFINE batch == memJobs[a]
           K == KeptOf(batch.owner)
           free == Cardinality(K) < Capacity
           slots == IF free THEN Capacity - Cardinality(K) ELSE Len(batch.facts)
           New(left) == {i \in DOMAIN batch.facts :
                            i <= slots /\ batch.facts[i] \notin FactsOf(batch.owner, left)}
<1>1. /\ batch.pc = "asked"
      /\ \E S \in IF free THEN {{}} ELSE Evictions(batch.owner, Len(batch.facts)) :
            LET left == Evicted(memRows, S)
                new == New(left)
            IN /\ memRows' = left
               /\ memJobs' = [memJobs EXCEPT ![a] =
                                IF new = {} THEN NoJobs
                                ELSE [@ EXCEPT !.pc = "admitted", !.evicted = S,
                                               !.facts = FactsAt(batch.facts, new)]]
      /\ UNCHANGED <<MemStores, memTold, memSpans, memForgets, memFaults>>
  BY Zenon DEF Admit
<1> HIDE DEF New
<1>2. PICK S \in IF free THEN {{}} ELSE Evictions(batch.owner, Len(batch.facts)) :
        /\ memRows' = Evicted(memRows, S)
        /\ memJobs' = [memJobs EXCEPT ![a] =
                         IF New(Evicted(memRows, S)) = {} THEN NoJobs
                         ELSE [@ EXCEPT !.pc = "admitted", !.evicted = S,
                                        !.facts = FactsAt(batch.facts, New(Evicted(memRows, S)))]]
  BY <1>1
<1> DEFINE left == Evicted(memRows, S)
           new == New(left)
           facts == FactsAt(batch.facts, new)
           place == "admitted"
           next == IF new = {} THEN NoJobs
                   ELSE [batch EXCEPT !.pc = place, !.evicted = S, !.facts = facts]
<1>3. memJobs' = [memJobs EXCEPT ![a] = next]
  BY <1>2
<1>4. /\ batch \in MemoryJob /\ batch.owner \in Owners /\ batch.facts \in Seq(MemFacts)
      /\ Len(batch.facts) <= 2 /\ Len(batch.facts) \in Nat /\ NoJobs \in MemoryJob
  <2>1. batch.facts \in Seq(MemFacts) /\ Len(batch.facts) <= 2
    BY <1>1, JobParts DEF JobsInv
  <2>2. Len(batch.facts) \in Nat
    <3> HIDE DEF batch
    <3> QED BY <2>1
  <2>3. NoJobs \in MemoryJob
    BY DEF AgentTypes
  <2> QED BY <2>1, <2>2, <2>3, JobParts
<1>5. /\ K \subseteq DOMAIN memRows /\ K \in SUBSET Nat /\ Cardinality(K) \in Nat
      /\ Capacity \in Nat
  BY KeptFinite, MemoryAssumption
<1>6. S \in SUBSET K /\ S \in SUBSET Nat /\ (free \/ S \in Evictions(batch.owner, Len(batch.facts)))
  <2>1. Evictions(batch.owner, Len(batch.facts)) \subseteq SUBSET K
    BY DEF Evictions
  <2> HIDE DEF K
  <2> QED BY <1>2, <1>5, <2>1
<1>7. /\ facts \in Seq(MemFacts) /\ Len(facts) <= Len(batch.facts)
      /\ free => Len(facts) <= Capacity - Cardinality(K)
  <2>1. new \subseteq DOMAIN batch.facts /\ \A i \in new : i <= slots
    BY DEF New
  <2>2. facts \in Seq(MemFacts) /\ Len(facts) = Cardinality(new) /\ Len(facts) <= Len(batch.facts)
    <3> HIDE DEF new, batch
    <3> QED BY <1>4, <2>1, FactsPicked
  <2>3. ASSUME free PROVE Cardinality(new) <= Capacity - Cardinality(K)
    <3> DEFINE n == Capacity - Cardinality(K)
    <3>1. n \in Nat /\ slots = n
      BY <1>5, <2>3
    <3>2. new \subseteq 1..n
      <4> HIDE DEF n, new
      <4> QED BY <1>4, <2>1, <3>1
    <3>3. IsFiniteSet(1..n) /\ Cardinality(1..n) = n
      <4> HIDE DEF n
      <4>1. 1 \in Int /\ n \in Int
        BY <3>1
      <4>2. Cardinality(1..n) = IF 1 > n THEN 0 ELSE n - 1 + 1
        BY <4>1, FS_Interval
      <4>3. IsFiniteSet(1..n)
        BY <4>1, FS_Interval
      <4> QED BY <3>1, <4>2, <4>3
    <3>4. Cardinality(new) <= Cardinality(1..n)
      <4> HIDE DEF n, new
      <4> QED BY <3>2, <3>3, FS_Subset
    <3> QED BY <3>3, <3>4
  <2> QED BY <2>2, <2>3
<1>8. /\ next \in MemoryJob
      /\ \/ next = NoJobs
         \/ /\ next.pc = "admitted" /\ next.owner = batch.owner /\ next.agent = batch.agent
            /\ next.facts = facts
  <2>1. CASE new = {}
    BY <1>4, <2>1
  <2>2. CASE new # {}
    <3>1. place \in {"none", "asked", "admitted"} /\ place = "admitted"
      OBVIOUS
    <3> DEFINE admitted == [batch EXCEPT !.pc = place, !.evicted = S, !.facts = facts]
    <3>2. /\ admitted \in MemoryJob /\ admitted.pc = place /\ admitted.owner = batch.owner
          /\ admitted.agent = batch.agent /\ admitted.facts = facts
      <4> HIDE DEF batch, facts, place
      <4> QED BY <1>4, <1>6, <1>7, <3>1 DEF MemoryJob
    <3>3. next = admitted
      BY <2>2
    <3> HIDE DEF admitted, next, place
    <3> QED BY <3>1, <3>2, <3>3
  <2> QED BY <2>1, <2>2
<1> HIDE DEF next, facts, new, left
<1>9. /\ Aged
      /\ \A i \in DOMAIN memRows :
            memRows'[i].state = IF i \in S THEN "dropped" ELSE memRows[i].state
  BY <1>2, EvictionAges
<1>10. memJobs' \in Seq(MemoryJob) /\ Len(memJobs') = Len(memJobs)
  BY <1>3, <1>8, JobChanges
<1>11. /\ UNCHANGED <<agentRuns, memTold, memVectors, memPrefs, memFaults>> /\ MemStep
  BY <1>1 DEF MemStores
<1>12. AgentTypes' /\ GoesOn
  BY <1>9, <1>10, <1>11, AgingGoesOn
<1> QED BY <1>3, <1>6, <1>7, <1>8, <1>9, <1>11, <1>12

LEMMA EmbeddingStep ==
  ASSUME AgentTypes, NEW a \in DOMAIN memJobs, EmbeddingFails(a), UNCHANGED agentRuns, MemStep
  PROVE  /\ AgentTypes' /\ GoesOn
         /\ memJobs' = [memJobs EXCEPT ![a] = NoJobs]
         /\ UNCHANGED <<memRows, memVectors, agentRuns, memTold>>
<1>1. /\ memJobs' = [memJobs EXCEPT ![a] = NoJobs] /\ MemFault
      /\ UNCHANGED <<memRows, memVectors, memPrefs, memTold>>
  BY DEF EmbeddingFails, MemStores
<1>2. memJobs' \in Seq(MemoryJob) /\ Len(memJobs') = Len(memJobs)
  BY <1>1, JobChanges DEF AgentTypes
<1>3. AgentTypes' /\ GoesOn
  BY <1>1, <1>2, RowsRest, AgingGoesOn
<1> QED BY <1>1, <1>3

\* What is written: a row for every fact that was admitted, behind the rows there are.
LEMMA ConsolidateStep ==
  ASSUME AgentTypes, NEW a \in DOMAIN memJobs, Consolidate(a), UNCHANGED agentRuns, MemStep
  PROVE  LET batch == memJobs[a]
             n == Len(memRows)
         IN /\ AgentTypes' /\ GoesOn /\ batch.pc = "admitted"
            /\ memJobs' = [memJobs EXCEPT ![a] = NoJobs] /\ UNCHANGED <<agentRuns, memTold>>
            /\ DOMAIN memRows' = 1..(n + Len(batch.facts))
            /\ \A i \in DOMAIN memRows : memRows'[i] = memRows[i]
            /\ \A i \in (DOMAIN memRows') \ DOMAIN memRows :
                  /\ memRows'[i].owner = batch.owner /\ memRows'[i].agent = batch.agent
                  /\ memRows'[i].by = a /\ memRows'[i].state = "kept"
<1> DEFINE batch == memJobs[a]
           n == Len(memRows)
           k == Len(batch.facts)
           written == [i \in DOMAIN batch.facts |->
                         [owner |-> batch.owner, agent |-> batch.agent, by |-> a,
                          fact |-> batch.facts[i], mode |-> "explicit_opt_in", weight |-> 2,
                          idle |-> 0, state |-> "kept"]]
<1>1. /\ batch.pc = "admitted" /\ memRows' = memRows \o written
      /\ memJobs' = [memJobs EXCEPT ![a] = NoJobs]
      /\ UNCHANGED <<memTold, MemPast>>
      /\ \E failed \in {{}, {"vectors"}, {"prefs"}, {"hot"}} :
            /\ IF failed = {} THEN UNCHANGED memFaults ELSE MemFault
            /\ memVectors' = IF "vectors" \in failed THEN memVectors
                             ELSE memVectors \cup NewIds(a)
            /\ memHot' = IF "hot" \in failed THEN memHot ELSE memHot \cup NewIds(a)
            /\ memPrefs' = IF "prefs" \in failed THEN memPrefs
                           ELSE memPrefs \cup
                                   UNION {PrefOf(batch.owner, f) : f \in ToSet(batch.facts)}
  BY DEF Consolidate
<1>2. /\ batch.owner \in Owners /\ batch.agent \in DOMAIN Personas \cup {""} /\ a \in Nat
      /\ batch.facts \in Seq(MemFacts)
  BY JobParts
<1>3. k \in Nat /\ DOMAIN batch.facts = 1..k /\ \A i \in 1..k : batch.facts[i] \in MemFacts
  <2> DEFINE facts == batch.facts
  <2>1. facts \in Seq(MemFacts)
    BY <1>2
  <2> HIDE DEF facts
  <2>2. Len(facts) \in Nat /\ DOMAIN facts = 1..Len(facts)
        /\ \A i \in 1..Len(facts) : facts[i] \in MemFacts
    BY <2>1
  <2> QED BY <2>2 DEF facts
<1>4. n \in Nat /\ DOMAIN memRows = 1..n /\ memRows \in Seq(MemoryRow)
  BY DEF AgentTypes
<1>5. \A i \in 1..k : written[i] \in MemoryRow
  <2> SUFFICES ASSUME NEW i \in 1..k PROVE written[i] \in MemoryRow
    OBVIOUS
  <2> DEFINE fact == batch.facts[i]
             owner == batch.owner
             agent == batch.agent
  <2>1. fact \in MemFacts /\ owner \in Owners /\ agent \in DOMAIN Personas \cup {""}
    BY <1>2, <1>3
  <2>2. written[i] = [owner |-> owner, agent |-> agent, by |-> a, fact |-> fact,
                      mode |-> "explicit_opt_in", weight |-> 2, idle |-> 0, state |-> "kept"]
    BY <1>3
  <2> DEFINE mode == "explicit_opt_in"
             weight == 2
             idle == 0
             mark == "kept"
  <2>3. /\ mode \in {"legacy", "explicit_opt_in"} /\ weight \in 0..2 /\ idle \in 0..2
        /\ mark \in RowStates
    BY DEF RowStates
  <2>4. written[i] = [owner |-> owner, agent |-> agent, by |-> a, fact |-> fact,
                      mode |-> mode, weight |-> weight, idle |-> idle, state |-> mark]
    BY <2>2
  <2>5. [owner |-> owner, agent |-> agent, by |-> a, fact |-> fact, mode |-> mode,
         weight |-> weight, idle |-> idle, state |-> mark] \in MemoryRow
    <3> HIDE DEF fact, owner, agent, mode, weight, idle, mark
    <3> QED BY <1>2, <2>1, <2>3 DEF MemoryRow
  <2> QED BY <2>4, <2>5
<1>6. \A i \in 1..k : /\ written[i].owner = batch.owner /\ written[i].agent = batch.agent
                      /\ written[i].by = a /\ written[i].state = "kept"
  BY <1>3
<1>7. written = [i \in 1..k |-> written[i]]
  BY <1>3
<1> HIDE DEF written
<1>8. written \in Seq(MemoryRow) /\ Len(written) = k
  <2>1. written \in [1..k -> MemoryRow]
    BY <1>5, <1>7
  <2>2. written \in Seq(MemoryRow)
    BY <1>3, <2>1, SeqDef
  <2> HIDE DEF k
  <2> QED BY <1>3, <2>1, <2>2, LenProperties
<1>9. /\ memRows' \in Seq(MemoryRow) /\ Len(memRows') = n + k /\ DOMAIN memRows' = 1..(n + k)
      /\ \A i \in 1..n : memRows'[i] = memRows[i]
      /\ \A i \in (n + 1)..(n + k) : memRows'[i] = written[i - n]
  <2> HIDE DEF k
  <2>1. /\ memRows' \in Seq(MemoryRow) /\ Len(memRows') = n + k
    BY <1>1, <1>4, <1>8, ConcatProperties
  <2>2. \A i \in 1..(n + k) :
          memRows'[i] = IF i <= n THEN memRows[i] ELSE written[i - n]
    BY <1>1, <1>4, <1>8, ConcatProperties
  <2>3. DOMAIN memRows' = 1..(n + k)
    BY <2>1
  <2> HIDE DEF n
  <2> QED BY <1>3, <1>4, <2>1, <2>2, <2>3
<1>10. \A i \in (DOMAIN memRows') \ DOMAIN memRows : i \in (n + 1)..(n + k) /\ i - n \in 1..k
  <2> HIDE DEF n, k
  <2> QED BY <1>3, <1>4, <1>9
<1>11. RowsOn
  <2>1. \A i \in DOMAIN memRows : memRows[i] \in MemoryRow
    BY <1>4
  <2>2. Len(memRows') >= Len(memRows)
    <3> HIDE DEF k
    <3> QED BY <1>3, <1>4, <1>9
  <2> QED BY <1>4, <1>9, <2>1, <2>2 DEF RowsOn, Ages
<1>12. memVectors' \subseteq DOMAIN memRows'
  <2>1. memVectors \subseteq 1..n
    BY <1>4 DEF AgentTypes
  <2>2. NewIds(a) \subseteq 1..(n + k)
    <3>1. \A i \in 1..k : n + i \in 1..(n + k)
      <4> HIDE DEF n, k
      <4> QED BY <1>3, <1>4
    <3> QED BY <1>3, <3>1 DEF NewIds
  <2>3. 1..n \subseteq 1..(n + k)
    <3> HIDE DEF n, k
    <3> QED BY <1>3, <1>4
  <2>4. memVectors' \subseteq memVectors \cup NewIds(a)
    BY <1>1
  <2> QED BY <1>9, <2>1, <2>2, <2>3, <2>4
<1>13. memPrefs' \subseteq {o.user : o \in Owners} \X {About[f] : f \in MemFacts}
  <2> DEFINE P == {o.user : o \in Owners} \X {About[f] : f \in MemFacts}
  <2>1. \A f \in ToSet(batch.facts) : PrefOf(batch.owner, f) \subseteq P
    <3> SUFFICES ASSUME NEW f \in ToSet(batch.facts) PROVE PrefOf(batch.owner, f) \subseteq P
      OBVIOUS
    <3>1. f \in MemFacts
      BY <1>3 DEF ToSet
    <3>2. batch.owner.user \in {o.user : o \in Owners} /\ About[f] \in {About[g] : g \in MemFacts}
      <4> HIDE DEF batch
      <4> QED BY <1>2, <3>1
    <3>3. <<batch.owner.user, About[f]>> \in P
      BY <3>2
    <3> QED BY <3>3 DEF PrefOf
  <2>2. UNION {PrefOf(batch.owner, f) : f \in ToSet(batch.facts)} \subseteq P
    <3> HIDE DEF P
    <3> QED BY <2>1
  <2>3. memPrefs \subseteq P
    BY DEF AgentTypes
  <2> HIDE DEF P
  <2>4. memPrefs' \subseteq P
    BY <1>1, <2>2, <2>3
  <2> QED BY <2>4 DEF P
<1>14. memJobs' \in Seq(MemoryJob) /\ Len(memJobs') = Len(memJobs)
  BY <1>1, JobChanges DEF AgentTypes
<1>15. memFaults' = memFaults \/ MemFault
  BY <1>1
<1>16. AgentTypes' /\ GoesOn
  BY <1>1, <1>11, <1>12, <1>13, <1>14, <1>15, MemoryGoesOn
<1> HIDE DEF k, n
<1>17. \A i \in (DOMAIN memRows') \ DOMAIN memRows :
         /\ memRows'[i].owner = batch.owner /\ memRows'[i].agent = batch.agent
         /\ memRows'[i].by = a /\ memRows'[i].state = "kept"
  BY <1>6, <1>9, <1>10
<1> QED BY <1>1, <1>4, <1>9, <1>16, <1>17 DEF k, n

\* What time and people do to the rows.
LEMMA AgingStep ==
  ASSUME AgentTypes, (\E i \in DOMAIN memRows : Forget(i)) \/ SpanPasses \/ Decay,
         UNCHANGED agentRuns, MemStep
  PROVE  /\ AgentTypes' /\ GoesOn /\ Aged /\ UNCHANGED <<agentRuns, memTold, memJobs>>
         /\ PurgedLeavesNoVector => PurgedLeavesNoVector'
<1>1. /\ UNCHANGED <<memTold, memJobs, memPrefs>> /\ (memFaults' = memFaults \/ MemFault)
      /\ memVectors' \subseteq memVectors
  BY DEF Forget, SpanPasses, Decay, MemStores
<1>2. Aged
  BY ForgetAges, SpanAges, DecayAges
<1>3. AgentTypes' /\ GoesOn
  BY <1>1, <1>2, AgingGoesOn DEF AgentTypes
<1>4. ASSUME PurgedLeavesNoVector, memFaults' = 0, NEW i \in memVectors'
      PROVE  memRows'[i].state # "purged"
  <2>1. i \in memVectors /\ i \in DOMAIN memRows /\ memRows[i].state # "purged"
    BY <1>1, <1>3, <1>4 DEF PurgedLeavesNoVector, GoesOn, AgentTypes
  <2>2. ASSUME NEW j \in DOMAIN memRows, Forget(j) PROVE memRows'[i].state # "purged"
    BY <2>1, <2>2, ForgetAges
  <2>3. CASE SpanPasses
    BY <2>1, <2>3, SpanAges
  <2>4. CASE Decay
    <3>1. ~MemFault
      BY <1>4, FaultCounts
    <3>2. i \notin {j \in DOMAIN memRows : memRows[j].state = "overdue"}
      BY <1>4, <2>4, <3>1 DEF Decay
    <3> QED BY <2>1, <2>4, <3>2, DecayAges
  <2> QED BY <2>2, <2>3, <2>4
<1> QED BY <1>1, <1>2, <1>3, <1>4 DEF PurgedLeavesNoVector

-----------------------------------------------------------------------------
(* What keeps each part of the invariant.                                  *)

LEMMA LastRun ==
  ASSUME AgentTypes, LoopInv, NEW a \in DOMAIN agentRuns, ~LoopEnded(a)
  PROVE  a = Len(agentRuns)
BY DEF LoopInv

LEMMA LoopRests ==
  ASSUME LoopInv, UNCHANGED agentRuns
  PROVE  LoopInv'
BY DEF LoopInv, LoopEnded, AgentAt

LEMMA LoopKept ==
  ASSUME AgentTypes, LoopInv, NEW a \in DOMAIN agentRuns, ~LoopEnded(a), NEW new \in AgentRun,
         new.call = agentRuns[a].call, agentRuns' = [agentRuns EXCEPT ![a] = new],
         new.pc = "tools" => new.asked # <<>>
  PROVE  LoopInv'
<1>1. /\ Len(agentRuns') = Len(agentRuns) /\ DOMAIN agentRuns' = DOMAIN agentRuns
      /\ agentRuns'[a] = new /\ \A b \in (DOMAIN agentRuns) \ {a} : agentRuns'[b] = agentRuns[b]
  BY RunGoesOn
<1>2. a = Len(agentRuns)
  BY LastRun
<1> QED BY <1>1, <1>2 DEF LoopInv, LoopEnded, AgentAt

\* Of a run whose loop has ended nothing changes; the call stays in any case.
LEMMA RunsStand ==
  ASSUME AgentTypes, GoesOn, NEW a \in DOMAIN agentRuns
  PROVE  /\ a \in DOMAIN agentRuns' /\ agentRuns'[a].call = agentRuns[a].call
         /\ AgentAt(a, "answered") => AgentAt(a, "answered")'
<1>1. a \in DOMAIN agentRuns'
  BY DomainsGrow DEF GoesOn
<1> QED BY <1>1 DEF GoesOn, RunsOn, LoopEnded, AgentAt

JobFits(a, batch) ==
    /\ batch.pc = "none" => batch = NoJobs
    /\ batch.pc # "none" =>
          /\ "auto_save" \in memoryOn /\ AgentAt(a, "answered") /\ agentRuns[a].call.writes
          /\ batch.owner = agentRuns[a].call.owner /\ batch.agent = agentRuns[a].call.persona
          /\ Len(batch.facts) <= 2

LEMMA FitsStill ==
  ASSUME AgentTypes, GoesOn, NEW a \in DOMAIN agentRuns, NEW batch, JobFits(a, batch)
  PROVE  JobFits(a, batch)'
BY RunsStand DEF JobFits, GoesOn

LEMMA JobsRest ==
  ASSUME AgentTypes, GoesOn, JobsInv, memJobs' = memJobs
  PROVE  JobsInv'
<1> SUFFICES ASSUME NEW a \in DOMAIN memJobs PROVE JobFits(a, memJobs[a])'
  BY DEF JobsInv, JobFits
<1>1. JobFits(a, memJobs[a]) /\ a \in DOMAIN agentRuns
  BY JobParts DEF JobsInv, JobFits
<1> DEFINE batch == memJobs[a]
<1>2. JobFits(a, batch)
  BY <1>1
<1>3. \A j : JobFits(a, j) => JobFits(a, j)'
  BY <1>1, FitsStill
<1>4. memJobs'[a] = memJobs[a]
  OBVIOUS
<1> QED BY <1>1, <1>3, <1>4 DEF JobFits

LEMMA JobsKept ==
  ASSUME AgentTypes, GoesOn, JobsInv, NEW a \in DOMAIN memJobs, NEW batch \in MemoryJob,
         memJobs' = [memJobs EXCEPT ![a] = batch], JobFits(a, batch)'
  PROVE  JobsInv'
<1>1. /\ DOMAIN memJobs' = DOMAIN memJobs /\ memJobs'[a] = batch
      /\ \A b \in (DOMAIN memJobs) \ {a} : memJobs'[b] = memJobs[b]
  BY JobChanges
<1>2. ASSUME NEW b \in (DOMAIN memJobs) \ {a} PROVE JobFits(b, memJobs[b])'
  <2>1. JobFits(b, memJobs[b]) /\ b \in DOMAIN agentRuns
    BY JobParts DEF JobsInv, JobFits
  <2>2. \A j : JobFits(b, j) => JobFits(b, j)'
    BY <2>1, FitsStill
  <2>3. memJobs'[b] = memJobs[b]
    BY <1>1
  <2> QED BY <2>1, <2>2, <2>3 DEF JobFits
<1> QED BY <1>1, <1>2 DEF JobsInv, JobFits

LEMMA RowsKept ==
  ASSUME AgentTypes, GoesOn, RowsInv,
         \A i \in (DOMAIN memRows') \ DOMAIN memRows :
            LET row == memRows'[i] IN
            /\ row.by \in DOMAIN agentRuns /\ "auto_save" \in memoryOn
            /\ AgentAt(row.by, "answered") /\ agentRuns[row.by].call.writes
            /\ row.owner = agentRuns[row.by].call.owner
            /\ row.agent = agentRuns[row.by].call.persona
  PROVE  RowsInv'
<1> SUFFICES ASSUME NEW i \in DOMAIN memRows', memRows'[i].mode \in Explicit
             PROVE  /\ "auto_save" \in memoryOn' /\ memRows'[i].by \in DOMAIN agentRuns'
                    /\ agentRuns'[memRows'[i].by].pc = "answered"
                    /\ agentRuns'[memRows'[i].by].call.writes
                    /\ agentRuns'[memRows'[i].by].call.owner = memRows'[i].owner
                    /\ agentRuns'[memRows'[i].by].call.persona = memRows'[i].agent
  BY DEF RowsInv, RememberedWithConsent, Explicit, AgentAt
<1> DEFINE row == memRows'[i]
           a == row.by
<1>1. /\ a \in DOMAIN agentRuns /\ "auto_save" \in memoryOn
      /\ AgentAt(a, "answered") /\ agentRuns[a].call.writes
      /\ row.owner = agentRuns[a].call.owner /\ row.agent = agentRuns[a].call.persona
  <2>1. CASE i \in DOMAIN memRows
    <3>1. /\ row.by = memRows[i].by /\ row.mode = memRows[i].mode
          /\ row.owner = memRows[i].owner /\ row.agent = memRows[i].agent
      BY <2>1 DEF GoesOn, RowsOn, Ages
    <3> QED BY <2>1, <3>1 DEF RowsInv, RememberedWithConsent
  <2> QED BY <2>1
<1> HIDE DEF a, row
<1>2. /\ a \in DOMAIN agentRuns' /\ agentRuns'[a].call = agentRuns[a].call
      /\ agentRuns'[a].pc = "answered"
  <2>1. \A b \in DOMAIN agentRuns :
           /\ b \in DOMAIN agentRuns' /\ agentRuns'[b].call = agentRuns[b].call
           /\ agentRuns[b].pc = "answered" => agentRuns'[b].pc = "answered"
    BY RunsStand DEF AgentAt
  <2> QED BY <1>1, <2>1 DEF AgentAt
<1> QED BY <1>1, <1>2 DEF a, row, GoesOn, AgentAt

LEMMA ToldKept ==
  ASSUME AgentTypes, GoesOn, ToldInv, memTold' = memTold, Len(agentRuns') = Len(agentRuns)
  PROVE  ToldInv'
<1>1. /\ memTold.rows # {} => memTold.pc # "none"
  BY DEF ToldInv
<1>2. ASSUME memTold.pc # "none" PROVE ToldInv'
  <2> DEFINE n == Len(agentRuns)
             call == agentRuns[n].call
  <2>1. /\ n # 0 /\ "enable" \in memoryOn /\ call.ctx /\ Reads(call)
        /\ \A i \in memTold.rows :
              /\ i \in DOMAIN memRows
              /\ memRows[i].owner = call.owner /\ memRows[i].agent = call.persona
              /\ memRows[i].mode \in Explicit /\ i \notin memTold.gone
        /\ \A i \in memTold.gone : i \in DOMAIN memRows /\ ~Kept(i)
    BY <1>2 DEF ToldInv
  <2>2. n \in DOMAIN agentRuns /\ agentRuns'[n].call = call
    <3>1. n \in DOMAIN agentRuns
      BY <2>1 DEF AgentTypes
    <3> QED BY <3>1, RunsStand
  <2>3. \A i \in DOMAIN memRows :
          /\ i \in DOMAIN memRows' /\ memRows'[i].owner = memRows[i].owner
          /\ memRows'[i].agent = memRows[i].agent /\ memRows'[i].mode = memRows[i].mode
          /\ ~Kept(i) => memRows'[i].state # "kept"
    BY DomainsGrow DEF GoesOn, RowsOn, Ages, Kept
  <2> HIDE DEF n, call
  <2>4. /\ "enable" \in memoryOn' /\ Len(agentRuns') = n
    BY <2>1 DEF GoesOn, n
  <2> QED BY <1>2, <2>1, <2>2, <2>3, <2>4 DEF ToldInv, Kept, Explicit, Reads
<1> QED BY <1>1, <1>2 DEF ToldInv

LEMMA ToldRows ==
  ASSUME AgentTypes, RowsInv, NEW owner, NEW agent \in DOMAIN Personas,
         NEW i \in Tellable(owner, agent)
  PROVE  /\ i \in DOMAIN memRows /\ memRows[i].owner = owner /\ memRows[i].agent = agent
         /\ memRows[i].mode \in Explicit /\ Kept(i)
<1>1. /\ i \in DOMAIN memRows /\ Kept(i) /\ memRows[i].owner = owner
      /\ memRows[i].mode \in Explicit /\ memRows[i].agent \in {agent, ""}
  BY TellableRows
<1>2. /\ memRows[i].by \in DOMAIN agentRuns
      /\ agentRuns[memRows[i].by].call.persona = memRows[i].agent
  BY <1>1 DEF RowsInv, RememberedWithConsent
<1>3. memRows[i].agent \in DOMAIN Personas
  BY <1>2, CallOfRun
<1> QED BY <1>1, <1>3, AgentAssumption

\* More is told: rows that fit the asker, of which none was gone.
LEMMA ToldMoreKept ==
  ASSUME AgentTypes, LoopInv, RowsInv, ToldInv, NEW a \in DOMAIN agentRuns, Recall(a),
         AgentTypes', GoesOn, Len(agentRuns') = Len(agentRuns), Len(memRows') = Len(memRows),
         \A i \in DOMAIN memRows : memRows'[i].state = memRows[i].state
  PROVE  ToldInv'
<1> DEFINE call == agentRuns[a].call
           told == Tellable(call.owner, call.persona)
<1>1. a = Len(agentRuns)
  BY LastRun DEF Recall, AgentAt, LoopEnded
<1>2. PICK found \in SUBSET told :
        /\ memTold.pc \in {"asked", "recent", "similar"} /\ memTold'.pc # "none"
        /\ memTold'.gone = memTold.gone /\ memTold'.rows = memTold.rows \cup found
  <2>1. told \in SUBSET Nat
    BY TellableRows
  <2>2. CASE RecallRecent(call.owner, call.persona)
    <3> DEFINE found == memHot \cap told
    <3>1. TellMore("recent", found, {}) /\ memTold.pc = "asked"
      BY <2>2 DEF RecallRecent
    <3>2. found \in SUBSET Nat /\ found \in SUBSET told
      BY <2>1
    <3> HIDE DEF found, told
    <3>3. /\ memTold'.pc = "recent" /\ memTold'.gone = memTold.gone
          /\ memTold'.rows = memTold.rows \cup found
      BY <3>1, <3>2, ToldMore
    <3> QED BY <3>1, <3>2, <3>3
  <2>3. CASE RecallSimilar(call.owner, call.persona)
    <3>1. PICK found \in SUBSET (memVectors \cap told) :
            TellMore("similar", found, {}) /\ memTold.pc = "recent"
      BY <2>3 DEF RecallSimilar
    <3>2. found \in SUBSET Nat /\ found \in SUBSET told
      BY <2>1, <3>1
    <3> HIDE DEF told
    <3>3. /\ memTold'.pc = "similar" /\ memTold'.gone = memTold.gone
          /\ memTold'.rows = memTold.rows \cup found
      BY <3>1, <3>2, ToldMore
    <3> QED BY <3>1, <3>2, <3>3
  <2>4. CASE RecallPreferences(call.owner)
    <3> DEFINE prefs == {p[2] : p \in {q \in memPrefs : q[1] = call.owner.user}}
    <3>1. TellMore("told", {}, prefs) /\ memTold.pc = "similar"
      BY <2>4 DEF RecallPreferences
    <3>2. prefs \in SUBSET {About[f] : f \in MemFacts}
      BY DEF AgentTypes
    <3> HIDE DEF prefs
    <3>3. /\ memTold'.pc = "told" /\ memTold'.gone = memTold.gone
          /\ memTold'.rows = memTold.rows \cup {}
      BY <3>1, <3>2, ToldMore
    <3> QED BY <3>1, <3>3
  <2> HIDE DEF told
  <2> QED BY <2>2, <2>3, <2>4 DEF Recall
<1>3. /\ "enable" \in memoryOn /\ call.ctx /\ Reads(call)
      /\ \A i \in memTold.rows :
            /\ i \in DOMAIN memRows
            /\ memRows[i].owner = call.owner /\ memRows[i].agent = call.persona
            /\ memRows[i].mode \in Explicit /\ i \notin memTold.gone
      /\ \A i \in memTold.gone : i \in DOMAIN memRows /\ ~Kept(i)
  BY <1>1, <1>2 DEF ToldInv
<1>4. \A i \in found :
        /\ i \in DOMAIN memRows /\ memRows[i].owner = call.owner
        /\ memRows[i].agent = call.persona /\ memRows[i].mode \in Explicit /\ Kept(i)
  BY <1>2, CallOfRun, ToldRows
<1>5. \A i \in memTold'.rows :
        /\ i \in DOMAIN memRows
        /\ memRows[i].owner = call.owner /\ memRows[i].agent = call.persona
        /\ memRows[i].mode \in Explicit /\ i \notin memTold.gone
  <2> HIDE DEF told, call
  <2> QED BY <1>2, <1>3, <1>4
<1>6. \A i \in DOMAIN memRows :
        /\ i \in DOMAIN memRows' /\ memRows'[i].owner = memRows[i].owner
        /\ memRows'[i].agent = memRows[i].agent /\ memRows'[i].mode = memRows[i].mode
        /\ ~Kept(i) => memRows'[i].state # "kept"
  BY DomainsGrow DEF GoesOn, RowsOn, Ages, Kept
<1>7. /\ agentRuns'[Len(agentRuns')].call = call /\ Len(agentRuns') # 0
      /\ "enable" \in memoryOn'
  BY <1>1, <1>3, RunsStand DEF GoesOn, AgentTypes
<1> HIDE DEF call, told
<1> QED BY <1>2, <1>3, <1>5, <1>6, <1>7 DEF ToldInv, Kept, Explicit, Reads

LEMMA KeptShrinks ==
  ASSUME AgentTypes, Aged, NEW o
  PROVE  /\ KeptOf(o)' \subseteq KeptOf(o) /\ IsFiniteSet(KeptOf(o)')
         /\ Cardinality(KeptOf(o)') \in Nat
         /\ Cardinality(KeptOf(o)') <= Cardinality(KeptOf(o))
<1>1. DOMAIN memRows' = DOMAIN memRows
  BY DEF Aged, RowsOn, AgentTypes
<1>2. KeptOf(o)' \subseteq KeptOf(o)
  BY <1>1 DEF KeptOf, RowsOf, Kept, Aged, RowsOn, Ages
<1>3. IsFiniteSet(KeptOf(o))
  BY KeptFinite
<1>4. IsFiniteSet(KeptOf(o)') /\ Cardinality(KeptOf(o)') <= Cardinality(KeptOf(o))
  BY <1>2, <1>3, FS_Subset
<1>5. Cardinality(KeptOf(o)') \in Nat
  BY <1>4, FS_CardinalityType
<1> QED BY <1>2, <1>4, <1>5

LEMMA RoomRests ==
  ASSUME AgentTypes, Aged, GoesOn, RoomInv, memJobs' = memJobs, Len(agentRuns') = Len(agentRuns)
  PROVE  RoomInv'
<1> SUFFICES ASSUME agentAlone
             PROVE  /\ \A a \in DOMAIN memJobs : memJobs[a].pc # "none" => a = Len(agentRuns)
                    /\ \A o \in Owners : Cardinality(KeptOf(o)') <= Capacity
                    /\ \A a \in DOMAIN memJobs : memJobs[a].pc = "admitted" =>
                          Cardinality(KeptOf(memJobs[a].owner)') + Len(memJobs[a].facts)
                             <= Capacity
  BY DEF RoomInv, GoesOn, KeptOf, RowsOf, Kept
<1>1. \A o \in Owners : Cardinality(KeptOf(o)') <= Capacity
  <2> SUFFICES ASSUME NEW o \in Owners PROVE Cardinality(KeptOf(o)') <= Capacity
    OBVIOUS
  <2>1. Cardinality(KeptOf(o)) <= Capacity
    BY DEF RoomInv
  <2> QED BY <2>1, KeptShrinks, KeptFinite, MemoryAssumption
<1>2. ASSUME NEW a \in DOMAIN memJobs, memJobs[a].pc = "admitted"
      PROVE  Cardinality(KeptOf(memJobs[a].owner)') + Len(memJobs[a].facts) <= Capacity
  <2> DEFINE o == memJobs[a].owner
             k == Len(memJobs[a].facts)
  <2>1. Cardinality(KeptOf(o)) + k <= Capacity
    BY <1>2 DEF RoomInv
  <2>2. k \in Nat
    BY JobParts, LenProperties
  <2>3. /\ Cardinality(KeptOf(o)') <= Cardinality(KeptOf(o)) /\ Cardinality(KeptOf(o)') \in Nat
        /\ Cardinality(KeptOf(o)) \in Nat
    BY KeptShrinks, KeptFinite
  <2> HIDE DEF k, o
  <2>4. Cardinality(KeptOf(o)') + k <= Capacity
    BY <2>1, <2>2, <2>3, MemoryAssumption
  <2> QED BY <2>4 DEF k, o
<1>3. \A a \in DOMAIN memJobs : memJobs[a].pc # "none" => a = Len(agentRuns)
  BY DEF RoomInv
<1> QED BY <1>1, <1>2, <1>3

\* A job that ends, or that is asked of the last run, takes no room.
LEMMA RoomFreed ==
  ASSUME AgentTypes, Aged, GoesOn, RoomInv, Len(agentRuns') = Len(agentRuns),
         NEW a \in DOMAIN memJobs, NEW batch \in MemoryJob, batch.pc # "admitted",
         agentAlone => a = Len(agentRuns), memJobs' = [memJobs EXCEPT ![a] = batch]
  PROVE  RoomInv'
<1>1. /\ DOMAIN memJobs' = DOMAIN memJobs /\ memJobs'[a] = batch
      /\ \A b \in (DOMAIN memJobs) \ {a} : memJobs'[b] = memJobs[b]
  BY JobChanges
<1> SUFFICES ASSUME agentAlone
             PROVE  /\ \A b \in DOMAIN memJobs' : memJobs'[b].pc # "none" => b = Len(agentRuns)
                    /\ \A o \in Owners : Cardinality(KeptOf(o)') <= Capacity
                    /\ \A b \in DOMAIN memJobs' : memJobs'[b].pc # "admitted"
  BY DEF RoomInv, GoesOn
<1>2. \A o \in Owners : Cardinality(KeptOf(o)') <= Capacity
  <2> SUFFICES ASSUME NEW o \in Owners PROVE Cardinality(KeptOf(o)') <= Capacity
    OBVIOUS
  <2>1. Cardinality(KeptOf(o)) <= Capacity
    BY DEF RoomInv
  <2> QED BY <2>1, KeptShrinks, KeptFinite, MemoryAssumption
<1>3. \A b \in (DOMAIN memJobs) \ {a} : memJobs[b].pc = "none"
  BY DEF RoomInv
<1> QED BY <1>1, <1>2, <1>3

\* What is admitted has room: what was there is fewer, or as many rows go as facts come.
LEMMA RoomAdmitted ==
  ASSUME AgentTypes, Aged, GoesOn, JobsInv, RoomInv, UNCHANGED agentRuns,
         NEW a \in DOMAIN memJobs, memJobs[a].pc = "asked",
         NEW S \in SUBSET KeptOf(memJobs[a].owner), NEW new \in MemoryJob,
         memJobs' = [memJobs EXCEPT ![a] = new], new.pc = "admitted",
         new.owner = memJobs[a].owner, Len(new.facts) <= Len(memJobs[a].facts),
         \A i \in DOMAIN memRows :
            memRows'[i].state = IF i \in S THEN "dropped" ELSE memRows[i].state,
         LET K == KeptOf(memJobs[a].owner) IN
         /\ Cardinality(K) < Capacity => Len(new.facts) <= Capacity - Cardinality(K)
         /\ \/ Cardinality(K) < Capacity
            \/ S \in Evictions(memJobs[a].owner, Len(memJobs[a].facts))
  PROVE  RoomInv'
<1> SUFFICES ASSUME agentAlone
             PROVE  /\ \A b \in DOMAIN memJobs' : memJobs'[b].pc # "none" => b = Len(agentRuns)
                    /\ \A o \in Owners : Cardinality(KeptOf(o)') <= Capacity
                    /\ \A b \in DOMAIN memJobs' : memJobs'[b].pc = "admitted" =>
                          Cardinality(KeptOf(memJobs[a].owner)') + Len(new.facts) <= Capacity
                          /\ b = a
  <2>1. memJobs'[a] = new /\ DOMAIN memJobs' = DOMAIN memJobs
    BY JobChanges
  <2> QED BY <2>1 DEF RoomInv, GoesOn, KeptOf, RowsOf, Kept
<1>1. /\ DOMAIN memJobs' = DOMAIN memJobs /\ memJobs'[a] = new
      /\ \A b \in (DOMAIN memJobs) \ {a} : memJobs'[b] = memJobs[b]
  BY JobChanges
<1>2. \A o \in Owners : Cardinality(KeptOf(o)') <= Capacity
  <2> SUFFICES ASSUME NEW o \in Owners PROVE Cardinality(KeptOf(o)') <= Capacity
    OBVIOUS
  <2>1. Cardinality(KeptOf(o)) <= Capacity
    BY DEF RoomInv
  <2> QED BY <2>1, KeptShrinks, KeptFinite, MemoryAssumption
<1>3. a = Len(agentRuns) /\ \A b \in (DOMAIN memJobs) \ {a} : memJobs[b].pc = "none"
  BY DEF RoomInv
<1> DEFINE o == memJobs[a].owner
           K == KeptOf(o)
           k == Len(memJobs[a].facts)
           n == Len(new.facts)
<1>4. o \in Owners /\ k \in Nat /\ k <= 2 /\ n \in Nat /\ n <= k
  <2>1. o \in Owners /\ memJobs[a].facts \in Seq(MemFacts)
    BY JobParts
  <2>2. k \in Nat /\ k <= 2
    BY <2>1, LenProperties DEF JobsInv
  <2>3. new.facts \in Seq(MemFacts)
    BY DEF MemoryJob
  <2>4. n \in Nat
    BY <2>3, LenProperties
  <2> QED BY <2>1, <2>2, <2>4
<1>5. /\ IsFiniteSet(K) /\ Cardinality(K) \in Nat /\ Cardinality(K) <= Capacity
      /\ Capacity \in Nat /\ Capacity >= 2
  BY <1>4, KeptFinite, MemoryAssumption DEF RoomInv
<1>6. /\ Cardinality(KeptOf(o)') \in Nat /\ Cardinality(KeptOf(o)') <= Cardinality(K)
  BY KeptShrinks
<1>7. KeptOf(o)' \subseteq K \ S
  <2>1. KeptOf(o)' \subseteq K
    BY KeptShrinks
  <2>2. DOMAIN memRows' = DOMAIN memRows
    BY DEF Aged, RowsOn, AgentTypes
  <2>3. \A i \in KeptOf(o)' : i \in DOMAIN memRows /\ memRows'[i].state = "kept"
    BY <2>2 DEF KeptOf, RowsOf, Kept
  <2>4. \A i \in S : i \in DOMAIN memRows => memRows'[i].state = "dropped"
    OBVIOUS
  <2> HIDE DEF o, K
  <2> QED BY <2>1, <2>3, <2>4
<1>8. Cardinality(KeptOf(o)') + n <= Capacity
  <2>1. CASE Cardinality(K) < Capacity
    <3>1. n <= Capacity - Cardinality(K)
      BY <2>1
    <3> HIDE DEF n, K, o
    <3> QED BY <1>4, <1>5, <1>6, <3>1
  <2>2. CASE ~(Cardinality(K) < Capacity)
    <3>1. Cardinality(S) = IF k < Cardinality(K) THEN k ELSE Cardinality(K)
      BY <2>2 DEF Evictions
    <3>2. S \subseteq K
      OBVIOUS
    <3>3. IsFiniteSet(K \ S) /\ Cardinality(K \ S) = Cardinality(K) - Cardinality(S)
      <4>1. K \cap S = S
        BY <3>2
      <4> HIDE DEF K
      <4> QED BY <1>5, <4>1, FS_Difference
    <3>4. Cardinality(KeptOf(o)') <= Cardinality(K \ S)
      <4> HIDE DEF K
      <4> QED BY <1>7, <3>3, FS_Subset
    <3> DEFINE c == Cardinality(K)
               d == Cardinality(S)
               e == Cardinality(K \ S)
               f == Cardinality(KeptOf(o)')
    <3>5. /\ c \in Nat /\ c <= Capacity /\ ~(c < Capacity) /\ e = c - d /\ f <= e /\ f \in Nat
          /\ d = IF k < c THEN k ELSE c
      BY <1>5, <1>6, <2>2, <3>1, <3>3, <3>4
    <3> HIDE DEF c, d, e, f, k, n, K
    <3>6. f + n <= Capacity
      BY <1>4, <1>5, <3>5
    <3> QED BY <3>6 DEF f
  <2> QED BY <2>1, <2>2
<1> QED BY <1>1, <1>2, <1>3, <1>8

\* What is written was given room.
LEMMA RoomWritten ==
  ASSUME AgentTypes, JobsInv, RoomInv, GoesOn, NEW a \in DOMAIN memJobs, UNCHANGED agentRuns,
         memJobs[a].pc = "admitted", memJobs' = [memJobs EXCEPT ![a] = NoJobs],
         DOMAIN memRows' = 1..(Len(memRows) + Len(memJobs[a].facts)),
         \A i \in DOMAIN memRows : memRows'[i] = memRows[i],
         \A i \in (DOMAIN memRows') \ DOMAIN memRows : memRows'[i].owner = memJobs[a].owner
  PROVE  RoomInv'
<1>0. PICK o \in Owners : o = memJobs[a].owner
  BY JobParts
<1> DEFINE K == KeptOf(o)
           m == Len(memRows)
           k == Len(memJobs[a].facts)
           new == (m + 1)..(m + k)
<1>1. /\ DOMAIN memJobs' = DOMAIN memJobs /\ memJobs'[a] = NoJobs
      /\ \A b \in (DOMAIN memJobs) \ {a} : memJobs'[b] = memJobs[b]
  BY JobChanges DEF AgentTypes
<1> SUFFICES ASSUME agentAlone
             PROVE  /\ \A b \in DOMAIN memJobs' : memJobs'[b].pc = "none"
                    /\ \A p \in Owners : Cardinality(KeptOf(p)') <= Capacity
  BY DEF RoomInv, GoesOn
<1>2. \A b \in DOMAIN memJobs' : memJobs'[b].pc = "none"
  <2>1. \A b \in (DOMAIN memJobs) \ {a} : memJobs[b].pc = "none"
    BY DEF RoomInv
  <2>2. NoJobs.pc = "none"
    BY DEF NoJobs
  <2> QED BY <1>1, <2>1, <2>2
<1>3. m \in Nat /\ DOMAIN memRows = 1..m /\ k \in Nat
  <2>1. memJobs[a].facts \in Seq(MemFacts)
    BY JobParts
  <2>2. k \in Nat
    BY <2>1, LenProperties
  <2>3. m \in Nat /\ DOMAIN memRows = 1..m
    BY DEF AgentTypes
  <2> QED BY <2>1, <2>2, <2>3
<1>4. DOMAIN memRows' = (DOMAIN memRows) \cup new /\ new \cap DOMAIN memRows = {}
  <2>1. 1..(m + k) = (1..m) \cup new /\ new \cap (1..m) = {}
    <3> HIDE DEF m, k
    <3> QED BY <1>3
  <2> QED BY <1>3, <2>1
<1>5. \A p : KeptOf(p)' \subseteq KeptOf(p) \cup {i \in new : p = o}
  <2> HIDE DEF new, m, k
  <2> QED BY <1>0, <1>4 DEF KeptOf, RowsOf, Kept
<1>6. ASSUME NEW p \in Owners PROVE Cardinality(KeptOf(p)') <= Capacity
  <2>1. /\ IsFiniteSet(KeptOf(p)) /\ Cardinality(KeptOf(p)) \in Nat
        /\ Cardinality(KeptOf(p)) <= Capacity /\ Capacity \in Nat
    BY KeptFinite, MemoryAssumption DEF RoomInv
  <2>2. CASE p # o
    <3>1. KeptOf(p)' \subseteq KeptOf(p)
      BY <1>5, <2>2
    <3>2. IsFiniteSet(KeptOf(p)') /\ Cardinality(KeptOf(p)') <= Cardinality(KeptOf(p))
      BY <2>1, <3>1, FS_Subset
    <3>3. Cardinality(KeptOf(p)') \in Nat
      BY <3>2, FS_CardinalityType
    <3> QED BY <2>1, <3>2, <3>3
  <2>3. CASE p = o
    <3>1. Cardinality(K) + k <= Capacity
      BY <1>0 DEF RoomInv
    <3>2. KeptOf(o)' \subseteq K \cup new
      <4>1. {i \in new : o = o} = new
        OBVIOUS
      <4> HIDE DEF new
      <4> QED BY <1>5, <4>1
    <3>3. IsFiniteSet(new) /\ Cardinality(new) = k
      <4> HIDE DEF m, k
      <4> DEFINE first == m + 1
                 last == m + k
      <4>1. first \in Int /\ last \in Int /\ new = first..last
        BY <1>3
      <4>2. (IF first > last THEN 0 ELSE last - first + 1) = k
        BY <1>3
      <4> HIDE DEF first, last, new
      <4>3. Cardinality(first..last) = IF first > last THEN 0 ELSE last - first + 1
        BY <4>1, FS_Interval
      <4>4. IsFiniteSet(first..last)
        BY <4>1, FS_Interval
      <4> QED BY <4>1, <4>2, <4>3, <4>4
    <3>4. /\ IsFiniteSet(K \cup new) /\ IsFiniteSet(K \cap new)
          /\ Cardinality(K \cup new) = Cardinality(K) + Cardinality(new) - Cardinality(K \cap new)
      <4>1. IsFiniteSet(K)
        BY KeptFinite
      <4> HIDE DEF K, new
      <4> QED BY <3>3, <4>1, FS_Union, FS_Intersection
    <3>5. Cardinality(K \cap new) \in Nat
      <4> HIDE DEF K, new
      <4> QED BY <3>4, FS_CardinalityType
    <3>6. IsFiniteSet(KeptOf(o)') /\ Cardinality(KeptOf(o)') <= Cardinality(K \cup new)
      <4> HIDE DEF K, new
      <4> QED BY <3>2, <3>4, FS_Subset
    <3>7. Cardinality(KeptOf(o)') \in Nat
      BY <3>6, FS_CardinalityType
    <3> DEFINE c == Cardinality(K)
               d == Cardinality(K \cap new)
               e == Cardinality(K \cup new)
               f == Cardinality(KeptOf(o)')
    <3>8. /\ c \in Nat /\ d \in Nat /\ f \in Nat /\ e = c + k - d /\ f <= e /\ c + k <= Capacity
      BY <2>1, <2>3, <3>1, <3>3, <3>4, <3>5, <3>6, <3>7
    <3> HIDE DEF c, d, e, f, k
    <3>9. f <= Capacity
      BY <1>3, <2>1, <3>8
    <3> QED BY <2>3, <3>9 DEF f
  <2> QED BY <2>2, <2>3
<1> QED BY <1>2, <1>6

LEMMA WritesStand ==
  ASSUME AgentTypes, GoesOn, WritesAreAuthorised, NEW more, toolWrites' = toolWrites \cup more,
         \A w \in more : /\ w[1] \in DOMAIN agentRuns
                         /\ ~Denied(agentRuns[w[1]].call, w[2])
  PROVE  WritesAreAuthorised'
<1>1. \A w \in toolWrites' :
        LET call == agentRuns[w[1]].call IN
        /\ w[1] \in DOMAIN agentRuns
        /\ call.ctx /\ Toolbox[w[2]].roles # {} => call.role \in Toolbox[w[2]].roles
  BY DEF WritesAreAuthorised, Denied, AgentTypes
<1>2. \A a \in DOMAIN agentRuns : agentRuns'[a].call = agentRuns[a].call
  BY RunsStand
<1> QED BY <1>1, <1>2 DEF WritesAreAuthorised

LEMMA WritesRest ==
  ASSUME AgentTypes, GoesOn, WritesAreAuthorised, toolWrites' = toolWrites
  PROVE  WritesAreAuthorised'
<1> DEFINE more == {}
<1>1. toolWrites' = toolWrites \cup more
  OBVIOUS
<1>2. \A w \in more : w[1] \in DOMAIN agentRuns /\ ~Denied(agentRuns[w[1]].call, w[2])
  OBVIOUS
<1> HIDE DEF more
<1> QED BY <1>1, <1>2, WritesStand

\* A run that calls no tool has the steps it had.
LEMMA RecordStands ==
  ASSUME AgentTypes, GoesOn, CallsAreOnRecord, toolAudits' = toolAudits,
         \A a \in DOMAIN agentRuns' :
            \/ a \in DOMAIN agentRuns /\ agentRuns'[a].steps = agentRuns[a].steps
            \/ agentRuns'[a].steps = <<>>
  PROVE  CallsAreOnRecord'
BY DEF CallsAreOnRecord, GoesOn

LEMMA VectorsStand ==
  ASSUME AgentTypes, GoesOn, PurgedLeavesNoVector, memVectors' \subseteq memVectors,
         \A i \in DOMAIN memRows : memRows'[i].state = "purged" => memRows[i].state = "purged"
  PROVE  PurgedLeavesNoVector'
BY DEF PurgedLeavesNoVector, GoesOn, AgentTypes

Quiet == RowsInv' /\ ToldInv' /\ JobsInv' /\ RoomInv'

\* A step that writes no row, tells nothing and leaves the jobs.
LEMMA QuietKept ==
  ASSUME AgentInv, Aged, GoesOn, Len(agentRuns') = Len(agentRuns), memTold' = memTold,
         memJobs' = memJobs
  PROVE  Quiet
<1>1. DOMAIN memRows' = DOMAIN memRows
  BY DEF Aged, RowsOn, AgentInv, AgentTypes
<1>2. RowsInv'
  BY <1>1, RowsKept DEF AgentInv
<1> QED BY <1>2, ToldKept, JobsRest, RoomRests DEF AgentInv, Quiet

LEMMA StartKeeps ==
  ASSUME AgentInv, StartAgent
  PROVE  AgentInv'
<1>1. AgentTypes' /\ GoesOn
  BY StartStep DEF AgentInv
<1>2. PICK call \in AgentCalls :
        LET recalls == call.ctx /\ "enable" \in memoryOn /\ Reads(call) IN
        /\ agentRuns' = Append(agentRuns, [call |-> call, turn |-> 0, asked |-> <<>>,
                                           steps |-> <<>>,
                                           pc |-> IF recalls THEN "recall" ELSE "think"])
        /\ memTold' = IF recalls THEN [NothingTold EXCEPT !.pc = "asked",
                                            !.gone = {i \in DOMAIN memRows : ~Kept(i)}]
                      ELSE NothingTold
  BY DEF StartAgent
<1> DEFINE n == Len(agentRuns)
           recalls == call.ctx /\ "enable" \in memoryOn /\ Reads(call)
           begun == [call |-> call, turn |-> 0, asked |-> <<>>, steps |-> <<>>,
                   pc |-> IF recalls THEN "recall" ELSE "think"]
           gone == {i \in DOMAIN memRows : ~Kept(i)}
<1>3. /\ Len(agentRuns') = n + 1 /\ DOMAIN agentRuns' = (DOMAIN agentRuns) \cup {n + 1}
      /\ agentRuns'[n + 1] = begun /\ \A a \in DOMAIN agentRuns : agentRuns'[a] = agentRuns[a]
  <2>1. begun \in AgentRun
    BY DEF AgentRun
  <2>2. agentRuns' = Append(agentRuns, begun)
    BY <1>2
  <2> HIDE DEF begun
  <2> QED BY <2>1, <2>2, RunBegins DEF AgentInv
<1>4. /\ begun.call = call /\ begun.steps = <<>> /\ begun.pc # "tools"
  OBVIOUS
<1>5. /\ memRows' = memRows /\ memVectors' = memVectors /\ toolWrites' = toolWrites
      /\ toolAudits' = toolAudits /\ memJobs' = Append(memJobs, NoJobs)
      /\ \A a \in DOMAIN agentRuns : LoopEnded(a)
      /\ agentAlone => \A a \in DOMAIN memJobs : memJobs[a] = NoJobs
  BY DEF StartAgent, MemStep, MemStores
<1> HIDE DEF begun
<1>6. LoopInv'
  BY <1>3, <1>4, <1>5 DEF LoopInv, LoopEnded, AgentAt
<1>7. /\ DOMAIN memJobs' = (DOMAIN memJobs) \cup {n + 1} /\ memJobs'[n + 1] = NoJobs
      /\ \A a \in DOMAIN memJobs : memJobs'[a] = memJobs[a]
      /\ NoJobs.pc = "none"
  <2>1. memJobs \in Seq(MemoryJob) /\ NoJobs \in MemoryJob /\ Len(memJobs) = n
    BY DEF AgentInv, AgentTypes
  <2>2. /\ memJobs' \in Seq(MemoryJob) /\ Len(memJobs') = n + 1
        /\ memJobs'[n + 1] = NoJobs /\ \A a \in 1..n : memJobs'[a] = memJobs[a]
    BY <1>5, <2>1, AppendProperties
  <2>3. n \in Nat /\ DOMAIN memJobs = 1..n
    BY <2>1
  <2>4. DOMAIN memJobs' = 1..(n + 1)
    BY <2>2
  <2>5. DOMAIN memJobs' = (DOMAIN memJobs) \cup {n + 1}
    <3> HIDE DEF n
    <3> QED BY <2>3, <2>4
  <2>6. NoJobs.pc = "none"
    BY DEF NoJobs
  <2> QED BY <2>2, <2>3, <2>5, <2>6
<1>8. JobsInv'
  <2>1. \A a \in DOMAIN memJobs : JobFits(a, memJobs[a]) /\ a \in DOMAIN agentRuns
    BY JobParts DEF AgentInv, JobsInv, JobFits
  <2>2. \A a \in DOMAIN memJobs : JobFits(a, memJobs[a])'
    <3> SUFFICES ASSUME NEW a \in DOMAIN memJobs PROVE JobFits(a, memJobs[a])'
      OBVIOUS
    <3>1. \A j : JobFits(a, j) => JobFits(a, j)'
      BY <1>1, <2>1, FitsStill DEF AgentInv
    <3>2. memJobs'[a] = memJobs[a]
      BY <1>7
    <3> QED BY <2>1, <3>1, <3>2 DEF JobFits
  <2> QED BY <1>7, <2>2 DEF JobsInv, JobFits
<1>9. RowsInv'
  BY <1>1, <1>5, RowsKept DEF AgentInv
<1>10. ToldInv'
  <2>1. CASE recalls
    <3>1. /\ memTold'.pc = "asked" /\ memTold'.rows = {} /\ memTold'.gone = gone
      BY <1>2, <2>1 DEF NothingTold
    <3>2. \A i \in gone : i \in DOMAIN memRows /\ ~Kept(i)
      OBVIOUS
    <3>3. /\ Len(agentRuns') = n + 1 /\ n + 1 # 0 /\ agentRuns'[n + 1].call = call
          /\ "enable" \in memoryOn' /\ call.ctx /\ Reads(call)
      BY <1>1, <1>3, <1>4, <2>1 DEF GoesOn, AgentInv, AgentTypes
    <3> HIDE DEF gone, n
    <3> QED BY <1>5, <3>1, <3>2, <3>3 DEF ToldInv, Kept, Reads
  <2>2. CASE ~recalls
    <3>1. memTold'.pc = "none" /\ memTold'.rows = {}
      BY <1>2, <2>2 DEF NothingTold
    <3> QED BY <3>1 DEF ToldInv
  <2> QED BY <2>1, <2>2
<1>11. RoomInv'
  <2> SUFFICES ASSUME agentAlone
               PROVE  /\ \A a \in DOMAIN memJobs' : memJobs'[a].pc = "none"
                      /\ \A o \in Owners : Cardinality(KeptOf(o)') <= Capacity
    BY <1>1 DEF RoomInv, GoesOn
  <2>1. \A o : KeptOf(o)' = KeptOf(o)
    BY <1>5 DEF KeptOf, RowsOf, Kept
  <2>2. \A o \in Owners : Cardinality(KeptOf(o)) <= Capacity
    BY DEF AgentInv, RoomInv
  <2> QED BY <1>5, <1>7, <2>1, <2>2
<1>12. WritesAreAuthorised'
  BY <1>1, <1>5, WritesStand DEF AgentInv
<1>13. CallsAreOnRecord'
  BY <1>1, <1>3, <1>4, <1>5, RecordStands DEF AgentInv
<1>14. PurgedLeavesNoVector'
  BY <1>1, <1>5, VectorsStand DEF AgentInv
<1> QED BY <1>1, <1>6, <1>8, <1>9, <1>10, <1>11, <1>12, <1>13, <1>14 DEF AgentInv

LEMMA RecallKeeps ==
  ASSUME AgentInv, NEW a \in DOMAIN agentRuns, Recall(a)
  PROVE  AgentInv'
<1>1. /\ AgentTypes' /\ GoesOn /\ Len(memRows') = Len(memRows)
      /\ \A i \in DOMAIN memRows : memRows'[i].state = memRows[i].state
      /\ memJobs' = memJobs /\ Len(agentRuns') = Len(agentRuns) /\ memVectors' = memVectors
  BY RecallStep DEF AgentInv
<1>2. toolWrites' = toolWrites /\ toolAudits' = toolAudits
  BY DEF Recall, MemStep
<1>3. /\ ~LoopEnded(a)
      /\ \/ UNCHANGED agentRuns
         \/ agentRuns' = [agentRuns EXCEPT ![a] = [agentRuns[a] EXCEPT !.pc = "think"]]
  BY DEF Recall, AgentAt, LoopEnded
<1> DEFINE r == agentRuns[a]
           new == [r EXCEPT !.pc = "think"]
<1>4. new \in AgentRun /\ new.call = r.call /\ new.steps = r.steps /\ new.pc = "think"
  <2>1. r \in AgentRun
    BY CallOfRun DEF AgentInv
  <2> HIDE DEF r
  <2> QED BY <2>1 DEF AgentRun
<1>5. UNCHANGED agentRuns \/ agentRuns' = [agentRuns EXCEPT ![a] = new]
  BY <1>3
<1> HIDE DEF new
<1>6. LoopInv'
  BY <1>3, <1>4, <1>5, LoopRests, LoopKept DEF AgentInv
<1>7. \A b \in DOMAIN agentRuns' :
        b \in DOMAIN agentRuns /\ agentRuns'[b].steps = agentRuns[b].steps
  BY <1>3, <1>4, <1>5, RunGoesOn DEF AgentInv
<1>8. ToldInv'
  BY <1>1, ToldMoreKept DEF AgentInv
<1>9. Aged
  BY <1>1 DEF Aged, GoesOn
<1>10. DOMAIN memRows' = DOMAIN memRows
  BY <1>1 DEF AgentInv, AgentTypes
<1>11. RowsInv' /\ JobsInv' /\ RoomInv'
  BY <1>1, <1>9, <1>10, RowsKept, JobsRest, RoomRests DEF AgentInv
<1>12. WritesAreAuthorised' /\ CallsAreOnRecord'
  BY <1>1, <1>2, <1>7, WritesRest, RecordStands DEF AgentInv
<1>13. PurgedLeavesNoVector'
  BY <1>1, VectorsStand DEF AgentInv
<1> QED BY <1>1, <1>6, <1>8, <1>11, <1>12, <1>13 DEF AgentInv

\* A run that goes a step further leaves what is remembered as it was.
LEMMA LoopKeeps ==
  ASSUME AgentInv, NEW a \in DOMAIN agentRuns, ~LoopEnded(a), AgentTypes', GoesOn, LoopStep,
         NEW new \in AgentRun, new.call = agentRuns[a].call,
         agentRuns' = [agentRuns EXCEPT ![a] = new], new.pc = "tools" => new.asked # <<>>
  PROVE  /\ LoopInv' /\ RowsInv' /\ ToldInv' /\ PurgedLeavesNoVector' /\ Aged
         /\ Len(agentRuns') = Len(agentRuns) /\ DOMAIN agentRuns' = DOMAIN agentRuns
         /\ agentRuns'[a] = new
         /\ \A b \in (DOMAIN agentRuns) \ {a} : agentRuns'[b] = agentRuns[b]
<1>1. memRows' = memRows /\ memVectors' = memVectors /\ memTold' = memTold
  BY DEF LoopStep, MemStores
<1>2. LoopInv'
  BY LoopKept DEF AgentInv
<1>3. /\ Len(agentRuns') = Len(agentRuns) /\ DOMAIN agentRuns' = DOMAIN agentRuns
      /\ agentRuns'[a] = new /\ \A b \in (DOMAIN agentRuns) \ {a} : agentRuns'[b] = agentRuns[b]
  BY RunGoesOn DEF AgentInv
<1>4. RowsInv'
  BY <1>1, RowsKept DEF AgentInv
<1>5. ToldInv'
  BY <1>1, <1>3, ToldKept DEF AgentInv
<1>6. PurgedLeavesNoVector'
  BY <1>1, VectorsStand DEF AgentInv
<1>7. Aged
  BY <1>1, RowsRest DEF AgentInv
<1> QED BY <1>2, <1>3, <1>4, <1>5, <1>6, <1>7

LEMMA ThinkKeeps ==
  ASSUME AgentInv, NEW a \in DOMAIN agentRuns, Think(a)
  PROVE  AgentInv'
<1>1. AgentTypes' /\ GoesOn
  BY ThinkStep DEF AgentInv
<1> DEFINE Goes(new, batch) ==
             /\ agentRuns' = [agentRuns EXCEPT ![a] = new]
             /\ memJobs' = [memJobs EXCEPT ![a] = batch]
             /\ new.call = agentRuns[a].call /\ new.steps = agentRuns[a].steps
             /\ new.pc = "tools" => new.asked # <<>>
             /\ \/ batch = memJobs[a] \/ batch = NoJobs
                \/ AskedOf(batch, agentRuns[a].call) /\ new.pc = "answered"
<1>2. \E new \in AgentRun, batch \in MemoryJob : Goes(new, batch)
  BY ThinkStep DEF AgentInv
<1>3. PICK new \in AgentRun : \E batch \in MemoryJob : Goes(new, batch)
  BY <1>2
<1>4. PICK batch \in MemoryJob : Goes(new, batch)
  BY <1>3
<1>5. ~LoopEnded(a) /\ LoopStep /\ toolWrites' = toolWrites /\ toolAudits' = toolAudits
  BY DEF Think, AgentAt, LoopEnded
<1>6. a \in DOMAIN memJobs /\ a = Len(agentRuns)
  BY <1>5, LastRun DEF AgentInv, AgentTypes
<1>7. memJobs[a] = NoJobs
  BY <1>5, <1>6 DEF AgentInv, JobsInv, AgentAt, LoopEnded
<1>8. NoJobs.pc = "none"
  BY DEF NoJobs
<1>9. /\ LoopInv' /\ RowsInv' /\ ToldInv' /\ PurgedLeavesNoVector' /\ Aged
      /\ Len(agentRuns') = Len(agentRuns) /\ DOMAIN agentRuns' = DOMAIN agentRuns
      /\ agentRuns'[a] = new
      /\ \A b \in (DOMAIN agentRuns) \ {a} : agentRuns'[b] = agentRuns[b]
  <2>1. /\ agentRuns' = [agentRuns EXCEPT ![a] = new] /\ new.call = agentRuns[a].call
        /\ new.pc = "tools" => new.asked # <<>>
    BY <1>4
  <2> QED BY <1>1, <1>5, <2>1, LoopKeeps
<1>10. batch = NoJobs \/ (AskedOf(batch, agentRuns[a].call) /\ new.pc = "answered")
  BY <1>4, <1>7
<1>11. new.call = agentRuns[a].call /\ new.steps = agentRuns[a].steps
       /\ memJobs' = [memJobs EXCEPT ![a] = batch]
  BY <1>4
<1> HIDE DEF Goes
<1>12. JobsInv'
  <2>1. JobFits(a, batch)'
    BY <1>1, <1>8, <1>9, <1>10, <1>11 DEF JobFits, AskedOf, AgentAt, GoesOn
  <2> QED BY <1>1, <1>6, <1>11, <2>1, JobsKept DEF AgentInv
<1>13. RoomInv'
  <2>1. batch.pc # "admitted"
    BY <1>8, <1>10 DEF AskedOf
  <2> QED BY <1>1, <1>6, <1>9, <1>11, <2>1, RoomFreed DEF AgentInv
<1>14. WritesAreAuthorised' /\ CallsAreOnRecord'
  <2>1. \A b \in DOMAIN agentRuns' :
          b \in DOMAIN agentRuns /\ agentRuns'[b].steps = agentRuns[b].steps
    BY <1>9, <1>11
  <2> QED BY <1>1, <1>5, <2>1, WritesRest, RecordStands DEF AgentInv
<1> QED BY <1>1, <1>9, <1>12, <1>13, <1>14 DEF AgentInv

LEMMA FallbackKeeps ==
  ASSUME AgentInv, NEW a \in DOMAIN agentRuns, OutOfTurns(a) \/ Fallback(a)
  PROVE  AgentInv'
<1>1. AgentTypes' /\ GoesOn /\ memJobs' = memJobs
  BY FallbackStep DEF AgentInv
<1>2. PICK new \in AgentRun :
        /\ agentRuns' = [agentRuns EXCEPT ![a] = new]
        /\ new.call = agentRuns[a].call /\ new.steps = agentRuns[a].steps
        /\ new.pc \in {"fallback", "degraded"}
  BY FallbackStep DEF AgentInv
<1>3. ~LoopEnded(a) /\ LoopStep /\ toolWrites' = toolWrites /\ toolAudits' = toolAudits
  BY DEF OutOfTurns, Fallback, AgentAt, LoopEnded
<1>4. /\ LoopInv' /\ RowsInv' /\ ToldInv' /\ PurgedLeavesNoVector' /\ Aged
      /\ Len(agentRuns') = Len(agentRuns) /\ DOMAIN agentRuns' = DOMAIN agentRuns
      /\ agentRuns'[a] = new
      /\ \A b \in (DOMAIN agentRuns) \ {a} : agentRuns'[b] = agentRuns[b]
  BY <1>1, <1>2, <1>3, LoopKeeps
<1>5. JobsInv' /\ RoomInv'
  BY <1>1, <1>4, JobsRest, RoomRests DEF AgentInv
<1>6. WritesAreAuthorised' /\ CallsAreOnRecord'
  <2>1. \A b \in DOMAIN agentRuns' :
          b \in DOMAIN agentRuns /\ agentRuns'[b].steps = agentRuns[b].steps
    BY <1>2, <1>4
  <2> QED BY <1>1, <1>3, <2>1, WritesRest, RecordStands DEF AgentInv
<1> QED BY <1>1, <1>4, <1>5, <1>6 DEF AgentInv

LEMMA ToolKeeps ==
  ASSUME AgentInv, NEW a \in DOMAIN agentRuns, RunTool(a)
  PROVE  AgentInv'
<1> DEFINE tool == Head(agentRuns[a].asked)
           steps == agentRuns[a].steps
           step == Len(steps) + 1
           Call == [tool : Tools, turn : Nat, error : BOOLEAN]
<1>1. /\ AgentTypes' /\ GoesOn /\ memJobs' = memJobs
      /\ toolAudits \subseteq toolAudits'
      /\ memFaults' = 0 /\ tool # "unknown" => <<a, step>> \in toolAudits'
      /\ \/ toolWrites' = toolWrites
         \/ toolWrites' = toolWrites \cup {<<a, tool>>} /\ ~Denied(agentRuns[a].call, tool)
  BY ToolStep DEF AgentInv
<1>2. \E new \in AgentRun, did \in Call :
        /\ agentRuns' = [agentRuns EXCEPT ![a] = new]
        /\ new.call = agentRuns[a].call /\ new.pc \in {"think", "tools"}
        /\ new.steps = Append(steps, did) /\ did.tool = tool
        /\ new.pc = "tools" => new.asked # <<>>
  BY ToolStep DEF AgentInv
<1>3. PICK new \in AgentRun : \E did \in Call :
        /\ agentRuns' = [agentRuns EXCEPT ![a] = new]
        /\ new.call = agentRuns[a].call /\ new.pc \in {"think", "tools"}
        /\ new.steps = Append(steps, did) /\ did.tool = tool
        /\ new.pc = "tools" => new.asked # <<>>
  BY <1>2
<1>4. PICK did \in Call :
        /\ agentRuns' = [agentRuns EXCEPT ![a] = new]
        /\ new.call = agentRuns[a].call
        /\ new.steps = Append(steps, did) /\ did.tool = tool
        /\ new.pc = "tools" => new.asked # <<>>
  BY <1>3
<1>5. ~LoopEnded(a) /\ LoopStep
  BY DEF RunTool, AgentAt, LoopEnded
<1>6. /\ LoopInv' /\ RowsInv' /\ ToldInv' /\ PurgedLeavesNoVector' /\ Aged
      /\ Len(agentRuns') = Len(agentRuns) /\ DOMAIN agentRuns' = DOMAIN agentRuns
      /\ agentRuns'[a] = new
      /\ \A b \in (DOMAIN agentRuns) \ {a} : agentRuns'[b] = agentRuns[b]
  BY <1>1, <1>4, <1>5, LoopKeeps
<1>7. JobsInv' /\ RoomInv'
  BY <1>1, <1>6, JobsRest, RoomRests DEF AgentInv
<1>8. WritesAreAuthorised'
  <2>1. CASE toolWrites' = toolWrites
    BY <1>1, <2>1, WritesRest DEF AgentInv
  <2>2. CASE toolWrites' = toolWrites \cup {<<a, tool>>} /\ ~Denied(agentRuns[a].call, tool)
    <3> DEFINE more == {<<a, tool>>}
    <3>1. \A w \in more : w[1] \in DOMAIN agentRuns /\ ~Denied(agentRuns[w[1]].call, w[2])
      <4> HIDE DEF tool
      <4> QED BY <2>2
    <3>2. toolWrites' = toolWrites \cup more
      BY <2>2
    <3> HIDE DEF more
    <3> QED BY <1>1, <3>1, <3>2, WritesStand DEF AgentInv
  <2> QED BY <1>1, <2>1, <2>2
<1>9. CallsAreOnRecord'
  <2> SUFFICES ASSUME memFaults' = 0, NEW b \in DOMAIN agentRuns',
                      NEW n \in DOMAIN agentRuns'[b].steps,
                      agentRuns'[b].steps[n].tool # "unknown"
               PROVE  <<b, n>> \in toolAudits'
    BY DEF CallsAreOnRecord
  <2>1. \A c \in DOMAIN agentRuns : \A m \in DOMAIN agentRuns[c].steps :
          agentRuns[c].steps[m].tool # "unknown" => <<c, m>> \in toolAudits'
    BY <1>1 DEF AgentInv, CallsAreOnRecord, GoesOn
  <2>2. CASE b # a
    BY <1>6, <2>1, <2>2
  <2>3. CASE b = a
    <3>1. steps \in Seq(Call)
      <4> DEFINE r == agentRuns[a]
      <4>1. r \in AgentRun
        BY CallOfRun DEF AgentInv
      <4> HIDE DEF r
      <4>2. r.steps \in Seq(Call)
        BY <4>1 DEF AgentRun
      <4> QED BY <4>2 DEF r
    <3>2. agentRuns'[b].steps = Append(steps, did)
      BY <1>4, <1>6, <2>3
    <3>3. n \in DOMAIN Append(steps, did)
      BY <3>2
    <3>4. CASE n = step
      <4>1. Append(steps, did)[step] = did
        <5> HIDE DEF steps
        <5> QED BY <3>1, AppendProperties DEF step
      <4>2. did.tool # "unknown"
        BY <3>2, <3>4, <4>1
      <4> QED BY <1>1, <1>4, <2>3, <3>4, <4>2
    <3>5. CASE n # step
      <4>1. n \in DOMAIN steps /\ Append(steps, did)[n] = steps[n]
        <5> HIDE DEF steps
        <5>1. n \in 1..(Len(steps) + 1) /\ Len(steps) \in Nat /\ DOMAIN steps = 1..Len(steps)
          BY <3>1, <3>3, AppendProperties
        <5> QED BY <3>1, <3>5, <5>1, AppendProperties DEF step
      <4>2. steps[n].tool # "unknown"
        BY <3>2, <4>1
      <4> QED BY <2>1, <2>3, <4>1, <4>2
    <3> QED BY <3>4, <3>5
  <2> QED BY <2>2, <2>3
<1> QED BY <1>1, <1>6, <1>7, <1>8, <1>9 DEF AgentInv

-----------------------------------------------------------------------------
(* The memory's own steps.                                                 *)

\* No run goes on: the loop, its writes and its record are as they were.
LEMMA RunsKept ==
  ASSUME AgentInv, AgentTypes', GoesOn, UNCHANGED <<agentRuns, memTold>>, MemStep
  PROVE  LoopInv' /\ ToldInv' /\ WritesAreAuthorised' /\ CallsAreOnRecord'
<1>1. agentRuns' = agentRuns /\ memTold' = memTold /\ toolWrites' = toolWrites
      /\ toolAudits' = toolAudits
  BY DEF MemStep
<1>2. LoopInv'
  BY LoopRests DEF AgentInv
<1>3. ToldInv'
  BY <1>1, ToldKept DEF AgentInv
<1>4. WritesAreAuthorised' /\ CallsAreOnRecord'
  BY <1>1, WritesRest, RecordStands DEF AgentInv
<1> QED BY <1>2, <1>3, <1>4

\* A job that ends fits any run.
LEMMA JobEnds ==
  ASSUME AgentInv, GoesOn, NEW a \in DOMAIN memJobs, memJobs' = [memJobs EXCEPT ![a] = NoJobs]
  PROVE  JobsInv'
<1>1. NoJobs.pc = "none" /\ NoJobs \in MemoryJob
  BY DEF NoJobs, AgentInv, AgentTypes
<1>2. JobFits(a, NoJobs)'
  BY <1>1 DEF JobFits, NoJobs
<1> QED BY <1>1, <1>2, JobsKept DEF AgentInv

\* Alone, only the last run has a job.
LEMMA LastJob ==
  ASSUME AgentInv, NEW a \in DOMAIN memJobs, memJobs[a].pc # "none"
  PROVE  agentAlone => a = Len(agentRuns)
BY DEF AgentInv, RoomInv

LEMMA AdmitKeeps ==
  ASSUME AgentInv, NEW a \in DOMAIN memJobs, Admit(a), UNCHANGED agentRuns, MemStep
  PROVE  AgentInv'
<1> DEFINE batch == memJobs[a]
           K == KeptOf(batch.owner)
<1>1. /\ AgentTypes' /\ GoesOn /\ Aged /\ UNCHANGED <<agentRuns, memTold, memVectors>>
      /\ \A i \in DOMAIN memRows : memRows'[i].state = "purged" => memRows[i].state = "purged"
  BY AdmitStep DEF AgentInv
<1> DEFINE Admits(S, new) ==
             /\ memJobs' = [memJobs EXCEPT ![a] = new]
             /\ \A i \in DOMAIN memRows :
                   memRows'[i].state = IF i \in S THEN "dropped" ELSE memRows[i].state
             /\ \/ new = NoJobs
                \/ /\ new.pc = "admitted" /\ new.owner = batch.owner /\ new.agent = batch.agent
                   /\ Len(new.facts) <= Len(batch.facts)
                   /\ Cardinality(K) < Capacity => Len(new.facts) <= Capacity - Cardinality(K)
             /\ \/ Cardinality(K) < Capacity
                \/ S \in Evictions(batch.owner, Len(batch.facts))
<1>2. \E S \in SUBSET K, new \in MemoryJob : Admits(S, new)
  BY AdmitStep DEF AgentInv
<1>3. PICK S \in SUBSET K : \E new \in MemoryJob : Admits(S, new)
  BY <1>2
<1>4. PICK new \in MemoryJob : Admits(S, new)
  BY <1>3
<1>5. batch.pc = "asked" /\ a \in DOMAIN agentRuns /\ (agentAlone => a = Len(agentRuns))
  BY LastJob, JobParts DEF Admit, AgentInv
<1>6. JobFits(a, batch)
  BY DEF AgentInv, JobsInv, JobFits
<1>7. LoopInv' /\ ToldInv' /\ WritesAreAuthorised' /\ CallsAreOnRecord'
  BY <1>1, RunsKept
<1>8. RowsInv'
  <2>1. DOMAIN memRows' = DOMAIN memRows
    BY <1>1 DEF Aged, RowsOn, AgentInv, AgentTypes
  <2> QED BY <1>1, <2>1, RowsKept DEF AgentInv
<1>9. PurgedLeavesNoVector'
  BY <1>1, VectorsStand DEF AgentInv
<1>10. CASE new = NoJobs
  <2>1. memJobs' = [memJobs EXCEPT ![a] = NoJobs] /\ NoJobs \in MemoryJob
        /\ NoJobs.pc # "admitted"
    BY <1>4, <1>10 DEF NoJobs
  <2>2. JobsInv'
    BY <1>1, <2>1, JobEnds
  <2>3. RoomInv'
    BY <1>1, <1>5, <2>1, RoomFreed DEF AgentInv
  <2> QED BY <1>1, <1>7, <1>8, <1>9, <2>2, <2>3 DEF AgentInv
<1>11. CASE new # NoJobs
  <2>1. /\ memJobs' = [memJobs EXCEPT ![a] = new]
        /\ \A i \in DOMAIN memRows :
              memRows'[i].state = IF i \in S THEN "dropped" ELSE memRows[i].state
        /\ new.pc = "admitted" /\ new.owner = batch.owner /\ new.agent = batch.agent
        /\ Len(new.facts) <= Len(batch.facts)
        /\ Cardinality(K) < Capacity => Len(new.facts) <= Capacity - Cardinality(K)
        /\ \/ Cardinality(K) < Capacity
           \/ S \in Evictions(batch.owner, Len(batch.facts))
    BY <1>4, <1>11
  <2> HIDE DEF Admits
  <2>2. Len(new.facts) <= 2
    <3>1. new.facts \in Seq(MemFacts) /\ batch.facts \in Seq(MemFacts)
      BY JobParts DEF MemoryJob, AgentInv
    <3>2. Len(new.facts) \in Nat /\ Len(batch.facts) \in Nat
      BY <3>1, LenProperties
    <3>3. Len(batch.facts) <= 2
      BY <1>5, <1>6 DEF JobFits
    <3> QED BY <2>1, <3>2, <3>3
  <2>3. JobFits(a, new)
    BY <1>5, <1>6, <2>1, <2>2 DEF JobFits
  <2>4. JobFits(a, new)'
    BY <1>1, <1>5, <2>3, FitsStill DEF AgentInv
  <2>5. JobsInv'
    BY <1>1, <2>1, <2>4, JobsKept DEF AgentInv
  <2>6. RoomInv'
    BY <1>1, <1>5, <2>1, RoomAdmitted DEF AgentInv
  <2> QED BY <1>1, <1>7, <1>8, <1>9, <2>5, <2>6 DEF AgentInv
<1> QED BY <1>10, <1>11

LEMMA EmbeddingKeeps ==
  ASSUME AgentInv, NEW a \in DOMAIN memJobs, EmbeddingFails(a), UNCHANGED agentRuns, MemStep
  PROVE  AgentInv'
<1>1. /\ AgentTypes' /\ GoesOn
      /\ memJobs' = [memJobs EXCEPT ![a] = NoJobs]
      /\ UNCHANGED <<memRows, memVectors, agentRuns, memTold>>
  BY EmbeddingStep DEF AgentInv
<1>2. agentAlone => a = Len(agentRuns)
  BY LastJob DEF EmbeddingFails
<1>3. Aged
  BY <1>1, RowsRest DEF AgentInv
<1>4. LoopInv' /\ ToldInv' /\ WritesAreAuthorised' /\ CallsAreOnRecord'
  BY <1>1, RunsKept
<1>5. RowsInv'
  BY <1>1, RowsKept DEF AgentInv
<1>6. PurgedLeavesNoVector'
  BY <1>1, VectorsStand DEF AgentInv
<1>7. JobsInv'
  BY <1>1, JobEnds
<1>8. RoomInv'
  <2>1. NoJobs \in MemoryJob /\ NoJobs.pc # "admitted"
    BY DEF NoJobs, AgentInv, AgentTypes
  <2> QED BY <1>1, <1>2, <1>3, <2>1, RoomFreed DEF AgentInv
<1> QED BY <1>1, <1>4, <1>5, <1>6, <1>7, <1>8 DEF AgentInv

LEMMA ConsolidateKeeps ==
  ASSUME AgentInv, NEW a \in DOMAIN memJobs, Consolidate(a), UNCHANGED agentRuns, MemStep
  PROVE  AgentInv'
<1> DEFINE batch == memJobs[a]
<1>1. /\ AgentTypes' /\ GoesOn /\ batch.pc = "admitted"
      /\ memJobs' = [memJobs EXCEPT ![a] = NoJobs] /\ UNCHANGED <<agentRuns, memTold>>
      /\ DOMAIN memRows' = 1..(Len(memRows) + Len(batch.facts))
      /\ \A i \in DOMAIN memRows : memRows'[i] = memRows[i]
      /\ \A i \in (DOMAIN memRows') \ DOMAIN memRows :
            /\ memRows'[i].owner = batch.owner /\ memRows'[i].agent = batch.agent
            /\ memRows'[i].by = a /\ memRows'[i].state = "kept"
  BY ConsolidateStep DEF AgentInv
<1>2. LoopInv' /\ ToldInv' /\ WritesAreAuthorised' /\ CallsAreOnRecord'
  BY <1>1, RunsKept
<1>3. RowsInv'
  <2>1. /\ a \in DOMAIN agentRuns /\ "auto_save" \in memoryOn /\ AgentAt(a, "answered")
        /\ agentRuns[a].call.writes /\ batch.owner = agentRuns[a].call.owner
        /\ batch.agent = agentRuns[a].call.persona
    BY <1>1, JobParts DEF AgentInv, JobsInv
  <2>2. \A i \in (DOMAIN memRows') \ DOMAIN memRows :
          LET row == memRows'[i] IN
          /\ row.by \in DOMAIN agentRuns /\ "auto_save" \in memoryOn
          /\ AgentAt(row.by, "answered") /\ agentRuns[row.by].call.writes
          /\ row.owner = agentRuns[row.by].call.owner
          /\ row.agent = agentRuns[row.by].call.persona
    BY <1>1, <2>1
  <2> QED BY <1>1, <2>2, RowsKept DEF AgentInv
<1>4. JobsInv'
  BY <1>1, JobEnds
<1>5. RoomInv'
  BY <1>1, RoomWritten DEF AgentInv
<1>6. PurgedLeavesNoVector'
  <2> SUFFICES ASSUME memFaults' = 0, NEW i \in memVectors'
               PROVE  memRows'[i].state # "purged"
    BY DEF PurgedLeavesNoVector
  <2>1. i \in DOMAIN memRows'
    BY <1>1 DEF AgentTypes
  <2>2. CASE i \notin DOMAIN memRows
    BY <1>1, <2>1, <2>2
  <2>3. CASE i \in DOMAIN memRows
    <3>1. i \in memVectors
      <4>1. memVectors' \subseteq memVectors \cup NewIds(a)
        BY DEF Consolidate
      <4>2. i \notin NewIds(a)
        <5>1. DOMAIN memRows = 1..Len(memRows) /\ Len(memRows) \in Nat
          BY DEF AgentInv, AgentTypes
        <5>2. DOMAIN batch.facts = 1..Len(batch.facts) /\ Len(batch.facts) \in Nat
          <6> DEFINE facts == batch.facts
          <6>1. facts \in Seq(MemFacts)
            BY JobParts DEF AgentInv
          <6> HIDE DEF facts
          <6>2. DOMAIN facts = 1..Len(facts) /\ Len(facts) \in Nat
            BY <6>1
          <6> QED BY <6>2 DEF facts
        <5>3. \A k \in 1..Len(batch.facts) : Len(memRows) + k > Len(memRows)
          BY <5>1, <5>2
        <5> QED BY <2>3, <5>1, <5>2, <5>3 DEF NewIds
      <4> QED BY <4>1, <4>2
    <3>2. memFaults = 0 /\ memRows'[i] = memRows[i]
      BY <1>1, <2>3 DEF GoesOn
    <3> QED BY <3>1, <3>2 DEF AgentInv, PurgedLeavesNoVector
  <2> QED BY <2>2, <2>3
<1> QED BY <1>1, <1>2, <1>3, <1>4, <1>5, <1>6 DEF AgentInv

LEMMA AgingKeeps ==
  ASSUME AgentInv, (\E i \in DOMAIN memRows : Forget(i)) \/ SpanPasses \/ Decay,
         UNCHANGED agentRuns, MemStep
  PROVE  AgentInv'
<1>1. /\ AgentTypes' /\ GoesOn /\ Aged /\ UNCHANGED <<agentRuns, memTold, memJobs>>
      /\ PurgedLeavesNoVector'
  BY AgingStep DEF AgentInv
<1>2. LoopInv' /\ ToldInv' /\ WritesAreAuthorised' /\ CallsAreOnRecord'
  BY <1>1, RunsKept
<1>3. Quiet
  BY <1>1, QuietKept
<1> QED BY <1>1, <1>2, <1>3 DEF AgentInv, Quiet

LEMMA AgentsBegin ==
  ASSUME AgentInit
  PROVE  AgentInv
<1>1. PICK owner \in Owners : \E f \in MemFacts :
        memRows = <<[owner |-> owner, agent |-> "", by |-> 0, fact |-> f, mode |-> "legacy",
                     weight |-> 2, idle |-> 0, state |-> "kept"]>>
  BY DEF AgentInit, MemoryInit
<1>2. PICK f \in MemFacts :
        memRows = <<[owner |-> owner, agent |-> "", by |-> 0, fact |-> f, mode |-> "legacy",
                     weight |-> 2, idle |-> 0, state |-> "kept"]>>
  BY <1>1
<1> DEFINE row == [owner |-> owner, agent |-> "", by |-> 0, fact |-> f, mode |-> "legacy",
                   weight |-> 2, idle |-> 0, state |-> "kept"]
<1>3. /\ memVectors = {1} /\ memPrefs = {} /\ memJobs = <<>> /\ memTold = NothingTold
      /\ memFaults = 0 /\ agentRuns = <<>> /\ toolWrites = {}
  BY DEF AgentInit, MemoryInit
<1>4. row \in MemoryRow /\ row.mode = "legacy" /\ row.state = "kept"
  BY DEF MemoryRow, RowStates
<1>5. memRows = <<row>>
  BY <1>2
<1> HIDE DEF row
<1>6. memRows \in Seq(MemoryRow) /\ DOMAIN memRows = {1} /\ memRows[1] = row
  BY <1>4, <1>5
<1>7. NoJobs \in MemoryJob
  <2> DEFINE first == CHOOSE o \in Owners : TRUE
  <2>1. first \in Owners
    BY <1>1
  <2>2. NoJobs = [pc |-> "none", owner |-> first, agent |-> "", facts |-> <<>>, evicted |-> {}]
    BY DEF NoJobs
  <2> DEFINE facts == <<>>
             evicted == {}
  <2>3. facts \in Seq(MemFacts) /\ evicted \in SUBSET Nat
    OBVIOUS
  <2> HIDE DEF first, facts, evicted
  <2>4. [pc |-> "none", owner |-> first, agent |-> "", facts |-> facts, evicted |-> evicted]
          \in MemoryJob
    BY <2>1, <2>3 DEF MemoryJob
  <2> QED BY <2>2, <2>4 DEF facts, evicted
<1>8. NothingTold \in Told /\ NothingTold.pc = "none" /\ NothingTold.rows = {}
  BY DEF NothingTold, Told
<1>9. AgentTypes
  BY <1>3, <1>6, <1>7, <1>8 DEF AgentTypes
<1>10. LoopInv /\ JobsInv /\ ToldInv /\ WritesAreAuthorised /\ CallsAreOnRecord
  BY <1>3, <1>8 DEF LoopInv, JobsInv, ToldInv, WritesAreAuthorised, CallsAreOnRecord
<1>11. RowsInv /\ PurgedLeavesNoVector
  BY <1>3, <1>4, <1>6 DEF RowsInv, RememberedWithConsent, PurgedLeavesNoVector, Explicit
<1>12. RoomInv
  <2>1. ASSUME NEW o \in Owners PROVE Cardinality(KeptOf(o)) <= Capacity
    <3>1. KeptOf(o) \subseteq {1}
      BY <1>6 DEF KeptOf, RowsOf
    <3>2. IsFiniteSet({1}) /\ Cardinality({1}) = 1
      BY FS_Singleton
    <3>3. Cardinality(KeptOf(o)) <= 1 /\ Cardinality(KeptOf(o)) \in Nat
      BY <1>9, <3>1, <3>2, FS_Subset, KeptFinite
    <3> QED BY <3>3, MemoryAssumption
  <2> QED BY <1>3, <2>1 DEF RoomInv
<1> QED BY <1>9, <1>10, <1>11, <1>12 DEF AgentInv

LEMMA AgentsRest == AgentInv /\ UNCHANGED agentVars => AgentInv'
<1> SUFFICES ASSUME AgentInv, UNCHANGED agentVars PROVE AgentInv'
  OBVIOUS
<1>1. /\ UNCHANGED <<memRows, memVectors, memPrefs, memJobs, memTold, memFaults, agentRuns>>
      /\ UNCHANGED <<toolWrites, toolAudits, memoryOn, agentAlone>>
  BY DEF agentVars, memVars
<1>2. AgentTypes' /\ LoopInv' /\ JobsInv'
  BY <1>1 DEF AgentInv, AgentTypes, LoopInv, JobsInv, LoopEnded, AgentAt
<1>3. RowsInv' /\ ToldInv'
  BY <1>1 DEF AgentInv, RowsInv, RememberedWithConsent, ToldInv, AgentAt, Kept
<1>4. RoomInv'
  BY <1>1 DEF AgentInv, RoomInv, KeptOf, RowsOf, Kept
<1>5. WritesAreAuthorised' /\ CallsAreOnRecord' /\ PurgedLeavesNoVector'
  BY <1>1 DEF AgentInv, WritesAreAuthorised, CallsAreOnRecord, PurgedLeavesNoVector
<1> QED BY <1>2, <1>3, <1>4, <1>5 DEF AgentInv

LEMMA AgentsGoOn == AgentInv /\ [AgentNext]_agentVars => AgentInv'
<1> SUFFICES ASSUME AgentInv, AgentNext PROVE AgentInv'
  BY AgentsRest
<1>1. CASE StartAgent
  BY <1>1, StartKeeps
<1>2. ASSUME NEW a \in DOMAIN agentRuns,
             Recall(a) \/ Think(a) \/ OutOfTurns(a) \/ RunTool(a) \/ Fallback(a)
      PROVE  AgentInv'
  BY <1>2, RecallKeeps, ThinkKeeps, FallbackKeeps, ToolKeeps
<1>3. CASE MemoryStep
  <2>1. UNCHANGED agentRuns /\ MemStep /\ MemoryNext
    BY <1>3 DEF MemoryStep
  <2>2. ASSUME NEW a \in DOMAIN memJobs, Admit(a) \/ EmbeddingFails(a) \/ Consolidate(a)
        PROVE  AgentInv'
    BY <2>1, <2>2, AdmitKeeps, EmbeddingKeeps, ConsolidateKeeps
  <2>3. CASE (\E i \in DOMAIN memRows : Forget(i)) \/ SpanPasses \/ Decay
    BY <2>1, <2>3, AgingKeeps
  <2> QED BY <2>1, <2>2, <2>3 DEF MemoryNext
<1> QED BY <1>1, <1>2, <1>3 DEF AgentNext

LEMMA AgentsAreRight == AgentInv => AgentsHold
<1> SUFFICES ASSUME AgentInv PROVE AgentsHold
  OBVIOUS
<1>1. WritesAreAuthorised /\ CallsAreOnRecord /\ PurgedLeavesNoVector
  BY DEF AgentInv
<1>2. RememberedWithConsent
  BY DEF AgentInv, RowsInv
<1>3. ToldIsOwned
  BY DEF AgentInv, ToldInv, ToldIsOwned, Last
<1>4. CapacityKept
  BY DEF AgentInv, RoomInv, CapacityKept
<1> QED BY <1>1, <1>2, <1>3, <1>4 DEF AgentsHold

\* Whatever a model asks for and however recalls, consolidations and forgetting interleave: a tool
\* that writes runs for its roles and leaves its trace, what is remembered was consented to, a run
\* is told what is its caller's, and a user keeps to the capacity.
THEOREM AgentsAuthorised == AgentSpec => []AgentsHold
<1> QED BY AgentsBegin, AgentsGoOn, AgentsAreRight, PTL DEF AgentSpec
=============================================================================
