----------------------------- MODULE TaskQueue ------------------------------
(***************************************************************************)
(* The persistent task queue: the rows of persistent_tasks, the workers    *)
(* that poll them and the operators of the task API.                       *)
(*                                                                         *)
(* A row is changed by transactions that lock it (SELECT ... FOR UPDATE),  *)
(* so each of them is one action; only the claim is cut in two, because    *)
(* its SKIP LOCKED lets another claim pass over the row it holds.  A       *)
(* worker id is one incarnation of a worker loop: make_worker_id draws a   *)
(* new one at every start, so a restarted worker is another element of     *)
(* Workers.  Wall-clock comparisons are kept as their outcome: `due' is    *)
(* run_after <= now, `beat' is the age of heartbeat_at.                    *)
(***************************************************************************)
EXTENDS Integers

CONSTANTS
    Tasks,        \* ids of rows
    Workers,      \* worker ids, one per incarnation of a worker loop
    Queues,       \* queue names
    QueueOf,      \* QueueOf[t]: the row's queue_name
    Serves,       \* Serves[w]: the queue the worker polls
    Priority,     \* Priority[t]: the row's priority
    NoWorker,     \* locked_by = ""
    NoTask,       \* a worker between two tasks
    AttemptCap,   \* bound: largest max_attempts an enqueue asks for (100 in the code)
    MaxRetries,   \* bound: operator retries per task
    MaxFaults     \* bound: crashes, cancellations and lost or failed commits

ASSUME ConstantAssumption ==
    /\ NoWorker \notin Workers
    /\ NoTask \notin Tasks
    /\ QueueOf \in [Tasks -> Queues]
    /\ Serves \in [Workers -> Queues]
    /\ Priority \in [Tasks -> Int]
    /\ AttemptCap \in Nat \ {0}
    /\ MaxRetries \in Nat
    /\ MaxFaults \in Nat

VARIABLES
    status,       \* status[t]: "absent" before the row is inserted
    attempts,     \* attempts[t]
    maxAttempts,  \* maxAttempts[t]
    lockedBy,     \* lockedBy[t]: the lease
    beat,         \* beat[t]: "none" (NULL), "fresh" or "stale" (older than the cutoff)
    due,          \* due[t]: run_after <= now
    created,      \* created[t]: created_at, in seconds that saw an insert
    result,       \* result[t]: the attempt whose result is stored, 0 for NULL
    rowLock,      \* rowLock[t]: the claim transaction that holds the row
    pc,           \* pc[w]: where the worker is in run_task_once
    job,          \* job[w]: the row it selected or executes
    token,        \* token[w]: the attempt it executes (TaskContext.attempt)
    retries,      \* retries[t]: operator retries so far
    faults        \* faults injected so far

rowVars == <<status, attempts, maxAttempts, lockedBy, beat, due, created, result>>
workerVars == <<pc, job, token>>
vars == <<rowVars, rowLock, workerVars, retries, faults>>

Statuses == {"absent", "queued", "running", "succeeded", "failed", "dead"}
CLAIMABLE_STATUSES == {"queued", "failed"}
FINAL_STATUSES == {"succeeded", "dead"}

TypeOK ==
    /\ status \in [Tasks -> Statuses]
    /\ attempts \in [Tasks -> Nat]
    /\ maxAttempts \in [Tasks -> Nat]
    /\ lockedBy \in [Tasks -> Workers \cup {NoWorker}]
    /\ beat \in [Tasks -> {"none", "fresh", "stale"}]
    /\ due \in [Tasks -> BOOLEAN]
    /\ created \in [Tasks -> Nat]
    /\ result \in [Tasks -> Nat]
    /\ rowLock \in [Tasks -> Workers \cup {NoWorker}]
    /\ pc \in [Workers -> {"idle", "claiming", "handling", "failing", "gone"}]
    /\ job \in [Workers -> Tasks \cup {NoTask}]
    /\ token \in [Workers -> Nat]
    /\ retries \in [Tasks -> Nat]
    /\ faults \in Nat

Init ==
    /\ status = [t \in Tasks |-> "absent"]
    /\ attempts = [t \in Tasks |-> 0]
    /\ maxAttempts = [t \in Tasks |-> 0]
    /\ lockedBy = [t \in Tasks |-> NoWorker]
    /\ beat = [t \in Tasks |-> "none"]
    /\ due = [t \in Tasks |-> FALSE]
    /\ created = [t \in Tasks |-> 0]
    /\ result = [t \in Tasks |-> 0]
    /\ rowLock = [t \in Tasks |-> NoWorker]
    /\ pc = [w \in Workers |-> "idle"]
    /\ job = [w \in Workers |-> NoTask]
    /\ token = [w \in Workers |-> 0]
    /\ retries = [t \in Tasks |-> 0]
    /\ faults = 0

-----------------------------------------------------------------------------
(* The rows.                                                               *)

\* Mutant: a claim that does not lock the row it reads.
UnlockedAlways(t) == TRUE

Unlocked(t) == rowLock[t] = NoWorker

\* The attempt budget decides between another try and the dead-letter state.
Exhausted(t) == attempts[t] >= maxAttempts[t]

\* Mutant: the test forgets locked_by.
HoldsAnyLease(w, t) == status[t] = "running"

\* Mutant: no test at all, the worker trusts what it claimed.
TrustsItsClaim(w, t) == job[w] = t

\* The ownership test of heartbeat_task, complete_task and fail_task.
HoldsLease(w, t) == status[t] = "running" /\ lockedBy[t] = w

\* enqueue_task_record: the clamp of max_attempts, and a run_after that is now
\* or later.  Rows inserted in the same second have the same created_at.
Enqueue(t) ==
    /\ status[t] = "absent"
    /\ status' = [status EXCEPT ![t] = "queued"]
    /\ \E m \in 1..AttemptCap : maxAttempts' = [maxAttempts EXCEPT ![t] = m]
    /\ \E d \in BOOLEAN : due' = [due EXCEPT ![t] = d]
    /\ \E u \in Tasks :
        /\ \A v \in Tasks : created[v] <= created[u]
        /\ \E n \in {created[u], created[u] + 1} :
              created' = [created EXCEPT ![t] = n]
    /\ UNCHANGED <<attempts, lockedBy, beat, result, rowLock, workerVars,
                   retries, faults>>

Claimable(q, t) ==
    /\ QueueOf[t] = q
    /\ status[t] \in CLAIMABLE_STATUSES
    /\ due[t]
    /\ attempts[t] < maxAttempts[t]

\* ORDER BY priority DESC, created_at ASC.
Before(t, u) ==
    \/ Priority[t] > Priority[u]
    \/ Priority[t] = Priority[u] /\ created[t] < created[u]

\* claim_next_task, the SELECT: the first claimable row no transaction holds.
ClaimSelect(w, t) ==
    /\ pc[w] = "idle"
    /\ Claimable(Serves[w], t)
    /\ Unlocked(t)
    /\ \A u \in Tasks : Claimable(Serves[w], u) /\ Unlocked(u) => ~Before(u, t)
    /\ rowLock' = [rowLock EXCEPT ![t] = w]
    /\ pc' = [pc EXCEPT ![w] = "claiming"]
    /\ job' = [job EXCEPT ![w] = t]
    /\ UNCHANGED <<rowVars, token, retries, faults>>

\* Mutant: the claim leaves the counter to the failure path.
GrantLeaseUncounted(w, t) ==
    /\ status' = [status EXCEPT ![t] = "running"]
    /\ lockedBy' = [lockedBy EXCEPT ![t] = w]
    /\ beat' = [beat EXCEPT ![t] = "fresh"]
    /\ rowLock' = [rowLock EXCEPT ![t] = NoWorker]
    /\ UNCHANGED <<attempts, maxAttempts, due, created, result>>

\* The row's part of the claim.
GrantLease(w, t) ==
    /\ status' = [status EXCEPT ![t] = "running"]
    /\ attempts' = [attempts EXCEPT ![t] = attempts[t] + 1]
    /\ lockedBy' = [lockedBy EXCEPT ![t] = w]
    /\ beat' = [beat EXCEPT ![t] = "fresh"]
    /\ rowLock' = [rowLock EXCEPT ![t] = NoWorker]
    /\ UNCHANGED <<maxAttempts, due, created, result>>

BackToPolling(w) ==
    /\ pc' = [pc EXCEPT ![w] = "idle"]
    /\ job' = [job EXCEPT ![w] = NoTask]
    /\ token' = [token EXCEPT ![w] = 0]

Fault ==
    /\ faults < MaxFaults
    /\ faults' = faults + 1

\* claim_next_task, the commit.  run_task_once goes on to the handler with the
\* attempt number it read back.
ClaimCommit(w) ==
    LET t == job[w] IN
    /\ pc[w] = "claiming"
    /\ GrantLease(w, t)
    /\ pc' = [pc EXCEPT ![w] = "handling"]
    /\ token' = [token EXCEPT ![w] = attempts'[t]]
    /\ UNCHANGED <<job, retries, faults>>

\* The commit is applied but the connection breaks before the reply or the
\* refresh: the loop degrades, and the row is leased to an idle worker.
ClaimReplyLost(w) ==
    /\ pc[w] = "claiming"
    /\ GrantLease(w, job[w])
    /\ BackToPolling(w)
    /\ Fault
    /\ UNCHANGED retries

\* The claim's transaction fails before its commit.
ClaimAborts(w) ==
    /\ pc[w] = "claiming"
    /\ rowLock' = [rowLock EXCEPT ![job[w]] = NoWorker]
    /\ BackToPolling(w)
    /\ Fault
    /\ UNCHANGED <<rowVars, retries>>

-----------------------------------------------------------------------------
(* The worker that executes a row.                                         *)

\* _heartbeat_loop, one round: it runs beside the handler until the outcome is
\* written, and renews nothing once the lease is lost.
Heartbeat(w) ==
    /\ pc[w] \in {"handling", "failing"}
    /\ HoldsLease(w, job[w])
    /\ beat[job[w]] = "stale"
    /\ beat' = [beat EXCEPT ![job[w]] = "fresh"]
    /\ UNCHANGED <<status, attempts, maxAttempts, lockedBy, due, created, result,
                   rowLock, workerVars, retries, faults>>

\* complete_task, when the lease is still the worker's.
StoreResult(w) ==
    LET t == job[w] IN
    /\ pc[w] = "handling"
    /\ HoldsLease(w, t)
    /\ status' = [status EXCEPT ![t] = "succeeded"]
    /\ result' = [result EXCEPT ![t] = token[w]]
    /\ lockedBy' = [lockedBy EXCEPT ![t] = NoWorker]
    /\ beat' = [beat EXCEPT ![t] = "none"]
    /\ UNCHANGED <<attempts, maxAttempts, due, created, rowLock, retries>>

\* The handler returns and complete_task commits.
Complete(w) ==
    /\ StoreResult(w)
    /\ BackToPolling(w)
    /\ UNCHANGED faults

\* complete_task commits but its reply is lost: run_task_once takes the
\* exception for a failure of the handler.
CompleteReplyLost(w) ==
    /\ StoreResult(w)
    /\ pc' = [pc EXCEPT ![w] = "failing"]
    /\ Fault
    /\ UNCHANGED <<job, token>>

\* The handler returns but the lease is gone: complete_task returns False and
\* nothing looks at it.
CompleteRefused(w) ==
    /\ pc[w] = "handling"
    /\ ~HoldsLease(w, job[w])
    /\ BackToPolling(w)
    /\ UNCHANGED <<rowVars, rowLock, retries, faults>>

\* The handler raises, is not registered, or complete_task fails before its
\* commit.
HandlerRaises(w) ==
    /\ pc[w] = "handling"
    /\ pc' = [pc EXCEPT ![w] = "failing"]
    /\ UNCHANGED <<rowVars, rowLock, job, token, retries, faults>>

\* fail_task, when the lease is still the worker's: another try after a
\* back-off of at least a second, or the dead-letter state.
Fail(w) ==
    LET t == job[w] IN
    /\ pc[w] = "failing"
    /\ HoldsLease(w, t)
    /\ lockedBy' = [lockedBy EXCEPT ![t] = NoWorker]
    /\ beat' = [beat EXCEPT ![t] = "none"]
    /\ \/ /\ Exhausted(t)
          /\ status' = [status EXCEPT ![t] = "dead"]
          /\ UNCHANGED due
       \/ /\ ~Exhausted(t)
          /\ status' = [status EXCEPT ![t] = "failed"]
          /\ due' = [due EXCEPT ![t] = FALSE]
    /\ BackToPolling(w)
    /\ UNCHANGED <<attempts, maxAttempts, created, result, rowLock, retries, faults>>

\* fail_task finds the lease gone and returns None.
FailRefused(w) ==
    /\ pc[w] = "failing"
    /\ ~HoldsLease(w, job[w])
    /\ BackToPolling(w)
    /\ UNCHANGED <<rowVars, rowLock, retries, faults>>

\* fail_task itself fails: the exception leaves run_task_once, the loop degrades
\* and the row stays leased to a worker that no longer executes it.
FailAborts(w) ==
    /\ pc[w] = "failing"
    /\ BackToPolling(w)
    /\ Fault
    /\ UNCHANGED <<rowVars, rowLock, retries>>

\* The process dies or stop_background_workers cancels the loop: a running row
\* is left as it is, an open claim is rolled back by the server.
Crash(w) ==
    /\ pc[w] # "gone"
    /\ pc' = [pc EXCEPT ![w] = "gone"]
    /\ job' = [job EXCEPT ![w] = NoTask]
    /\ token' = [token EXCEPT ![w] = 0]
    /\ rowLock' = [t \in Tasks |-> IF rowLock[t] = w THEN NoWorker ELSE rowLock[t]]
    /\ Fault
    /\ UNCHANGED <<rowVars, retries>>

-----------------------------------------------------------------------------
(* Recovery and the operators.                                             *)

\* Mutant: only rows without a heartbeat.
TasksWithoutBeat == {t \in Tasks : status[t] = "running" /\ beat[t] = "none"}

StaleTasks == {t \in Tasks : status[t] = "running" /\ beat[t] \in {"none", "stale"}}

\* recover_stale_tasks, called by a polling worker of any queue: SKIP LOCKED may
\* leave some of the stale rows for the next round.
RecoverStale(w, S) ==
    /\ pc[w] = "idle"
    /\ S # {} /\ S \subseteq StaleTasks
    /\ status' = [t \in Tasks |-> IF t \notin S THEN status[t]
                                  ELSE IF Exhausted(t) THEN "dead" ELSE "failed"]
    /\ lockedBy' = [t \in Tasks |-> IF t \in S THEN NoWorker ELSE lockedBy[t]]
    /\ beat' = [t \in Tasks |-> IF t \in S THEN "none" ELSE beat[t]]
    /\ due' = [t \in Tasks |-> due[t] \/ (t \in S /\ ~Exhausted(t))]
    /\ UNCHANGED <<attempts, maxAttempts, created, result, rowLock, workerVars,
                   retries, faults>>

\* Mutant: the budget is left as it is.
SameBudget(t) == maxAttempts[t]

\* Room for one more attempt than were used, at least.
RaisedBudget(t) ==
    IF maxAttempts[t] > attempts[t] THEN maxAttempts[t] ELSE attempts[t] + 1

\* retry_task.
RetryTask(t) ==
    /\ status[t] \in {"failed", "dead"}
    /\ Unlocked(t)
    /\ retries[t] < MaxRetries
    /\ retries' = [retries EXCEPT ![t] = retries[t] + 1]
    /\ status' = [status EXCEPT ![t] = "queued"]
    /\ maxAttempts' = [maxAttempts EXCEPT ![t] = RaisedBudget(t)]
    /\ due' = [due EXCEPT ![t] = TRUE]
    /\ lockedBy' = [lockedBy EXCEPT ![t] = NoWorker]
    /\ UNCHANGED <<attempts, beat, created, result, rowLock, workerVars, faults>>

\* Mutant: a state of its own for rows an operator ends.
MoveToCancelled(t) ==
    /\ status[t] \in CLAIMABLE_STATUSES
    /\ status' = [status EXCEPT ![t] = "cancelled"]
    /\ UNCHANGED <<attempts, maxAttempts, lockedBy, beat, due, created, result,
                   rowLock, workerVars, retries, faults>>

\* move_task_to_dead.
MoveToDead(t) ==
    /\ status[t] \notin FINAL_STATUSES \cup {"running", "absent"}
    /\ Unlocked(t)
    /\ status' = [status EXCEPT ![t] = "dead"]
    /\ lockedBy' = [lockedBy EXCEPT ![t] = NoWorker]
    /\ beat' = [beat EXCEPT ![t] = "none"]
    /\ UNCHANGED <<attempts, maxAttempts, due, created, result, rowLock, workerVars,
                   retries, faults>>

\* Time passes: a back-off ends, a heartbeat becomes older than the cutoff.
BackoffElapses(t) ==
    /\ status[t] \in CLAIMABLE_STATUSES
    /\ ~due[t]
    /\ due' = [due EXCEPT ![t] = TRUE]
    /\ UNCHANGED <<status, attempts, maxAttempts, lockedBy, beat, created, result,
                   rowLock, workerVars, retries, faults>>

BeatAges(t) ==
    /\ beat[t] = "fresh"
    /\ beat' = [beat EXCEPT ![t] = "stale"]
    /\ UNCHANGED <<status, attempts, maxAttempts, lockedBy, due, created, result,
                   rowLock, workerVars, retries, faults>>

-----------------------------------------------------------------------------
WorkerStep(w) ==
    \/ \E t \in Tasks : ClaimSelect(w, t)
    \/ ClaimCommit(w) \/ ClaimReplyLost(w) \/ ClaimAborts(w)
    \/ Heartbeat(w)
    \/ Complete(w) \/ CompleteReplyLost(w) \/ CompleteRefused(w)
    \/ HandlerRaises(w)
    \/ Fail(w) \/ FailRefused(w) \/ FailAborts(w)
    \/ Crash(w)
    \/ \E S \in SUBSET Tasks : RecoverStale(w, S)

RowStep(t) ==
    Enqueue(t) \/ RetryTask(t) \/ MoveToDead(t) \/ BackoffElapses(t) \/ BeatAges(t)

Next == (\E w \in Workers : WorkerStep(w)) \/ (\E t \in Tasks : RowStep(t))

Spec == Init /\ [][Next]_vars

\* The handler of a row ends, one way or another; it has no timeout in the code.
HandlerEnds(w) == Complete(w) \/ CompleteRefused(w) \/ HandlerRaises(w)

\* A worker loop polls, commits, ends its handler, records the outcome and runs
\* the stale scan; time passes.  Faults, operators and inserts owe nothing.
Fairness ==
    /\ \A w \in Workers :
        /\ WF_vars(\E t \in Tasks : ClaimSelect(w, t))
        /\ WF_vars(ClaimCommit(w))
        /\ WF_vars(HandlerEnds(w))
        /\ WF_vars(Fail(w) \/ FailRefused(w))
        /\ SF_vars(RecoverStale(w, StaleTasks))
    /\ \A t \in Tasks : WF_vars(BackoffElapses(t)) /\ WF_vars(BeatAges(t))

FairSpec == Spec /\ Fairness

-----------------------------------------------------------------------------
(* Properties.                                                             *)

\* A row that waits for a worker has an attempt left: claim_next_task never
\* takes a row without one and nothing would ever move it on.
NeverStranded ==
    \A t \in Tasks : status[t] \in CLAIMABLE_STATUSES => attempts[t] < maxAttempts[t]

\* A row is claimed at most max_attempts times, whatever workers crash, lose
\* their lease or lose the reply to a commit.
WithinBudget == \A t \in Tasks : attempts[t] <= maxAttempts[t]

Executing(w, t) == pc[w] \in {"handling", "failing"} /\ job[w] = t

\* The attempt number fences executions: two workers that execute the same row
\* (one of them lost its lease) have different attempts, and the row's lease
\* can only be that of the latest one.
FencedExecutions ==
    /\ \A v, w \in Workers : \A t \in Tasks :
        v # w /\ Executing(v, t) /\ Executing(w, t) => token[v] # token[w]
    /\ \A w \in Workers : \A t \in Tasks :
        Executing(w, t) /\ HoldsLease(w, t) => token[w] = attempts[t]

\* The result kept is that of the last attempt: no worker that lost its lease
\* stores an older one over it, or after it.
ResultOfLastAttempt ==
    \A t \in Tasks : /\ status[t] = "succeeded" => result[t] = attempts[t]
                     /\ status[t] # "succeeded" => result[t] = 0

\* A stale lease is renewed only by the worker that executes the row's latest
\* attempt, so the lease of a dead worker is never kept alive by another one.
RenewedByItsExecution ==
    [][\A t \in Tasks : beat[t] = "stale" /\ beat'[t] = "fresh" =>
          \E w \in Workers : Executing(w, t) /\ token[w] = attempts[t]]_vars

\* A worker that lost its lease changes nothing: when the lease of a row ends
\* it was its holder that settled it, or the lease was stale.
OnlyHolderOrStaleEnds ==
    [][\A t \in Tasks : status[t] = "running" /\ status'[t] # "running" =>
          \/ beat[t] = "stale" /\ status'[t] \in {"failed", "dead"}
          \/ \E w \in Workers : /\ Executing(w, t) /\ lockedBy[t] = w
                                /\ token[w] = attempts[t]
                                /\ pc'[w] # pc[w]]_vars

\* Leases are respected: only the execution of the latest attempt renews or ends one,
\* and the stale scan takes what nobody renews.
LeaseRespected == RenewedByItsExecution /\ OnlyHolderOrStaleEnds

\* Every row that was inserted is settled: executed to success, or given up.
EveryTaskSettles == []<>(\A t \in Tasks : status[t] \in FINAL_STATUSES \cup {"absent"})

-----------------------------------------------------------------------------
(* The queue implements a store of leased jobs.                            *)

JobState ==
    [t \in Tasks |-> CASE status[t] = "absent" -> "none"
                       [] status[t] \in CLAIMABLE_STATUSES -> "waiting"
                       [] status[t] = "running" -> "leased"
                       [] status[t] = "succeeded" -> "done"
                       [] OTHER -> "buried"]

LJ == INSTANCE LeasedJobs WITH
        Jobs <- Tasks, Holders <- Workers, Nobody <- NoWorker,
        state <- JobState, epoch <- attempts, holder <- lockedBy, outcome <- result

\* The queue, its workers and its operators only do what a store of leased jobs
\* does: one holder and one epoch per lease, the result of the last epoch kept.
ImplementsLeasedJobs == LJ!JobSpec
=============================================================================
