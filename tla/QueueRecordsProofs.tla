------------------------- MODULE QueueRecordsProofs -------------------------
(***************************************************************************)
(* The queue, and the records of five parts that share nothing but this    *)
(* module.                                                                 *)
(*                                                                         *)
(* What holds of TaskQueue for any number of rows, workers, queues,        *)
(* attempts, retries and faults. Of the insertion of a row by its          *)
(* idempotency key: what any number of concurrent calls may rely on, under *)
(* either isolation level.                                                 *)
(*                                                                         *)
(* What the accounts and their log, the debate of the experts, the door    *)
(* for events and the backups keep: AccountsKept, DebateKept, IngressKept  *)
(* and BackupKept, the parts of RecordsKept that are about them.           *)
(***************************************************************************)
EXTENDS TaskQueue, IdempotentInsert, Accounts, ExpertDebate, Ingress, Backups,
        FiniteSetTheorems, TLAPS

-----------------------------------------------------------------------------
(* The queue.                                                              *)

\* Only a running row names a worker, and it alone has a heartbeat.
LeaseOfRunning ==
    \A t \in Tasks : /\ status[t] # "running" => lockedBy[t] = NoWorker
                     /\ status[t] = "running" <=> beat[t] # "none"

\* A row that is not inserted yet was never claimed.
UnbornUncounted == \A t \in Tasks : status[t] = "absent" => attempts[t] = 0

\* A claim under way holds the lock of the row it selected, which therefore
\* still waits: retry_task, move_task_to_dead and other claims need that lock.
ClaimHoldsRow ==
    \A w \in Workers : pc[w] = "claiming" =>
        /\ job[w] \in Tasks
        /\ rowLock[job[w]] = w
        /\ status[job[w]] \in CLAIMABLE_STATUSES

\* An execution belongs to an attempt the row has counted.
TokenCounted ==
    \A w \in Workers : pc[w] \in {"handling", "failing"} =>
        job[w] \in Tasks /\ token[w] \in 1..attempts[job[w]]

\* What the rows owe to the transactions alone, and what the executions owe to
\* the attempt numbers.
RowInv ==
    /\ NeverStranded /\ WithinBudget /\ UnbornUncounted
    /\ LeaseOfRunning /\ ResultOfLastAttempt
ExecInv == TokenCounted /\ FencedExecutions

IInv == TypeOK /\ RowInv /\ ClaimHoldsRow /\ ExecInv

-----------------------------------------------------------------------------
\* Every step of the queue, its workers and its operators keeps the types.
LEMMA TypeStep == IInv /\ [Next]_vars => TypeOK'
<1> SUFFICES ASSUME IInv, [Next]_vars PROVE TypeOK'
  OBVIOUS
<1>a. TypeOK /\ ClaimHoldsRow
  BY DEF IInv
<1> USE <1>a, ConstantAssumption DEF TypeOK, Statuses
<1>1. ASSUME NEW w \in Workers, WorkerStep(w) PROVE TypeOK'
  <2>1. ASSUME NEW t \in Tasks, ClaimSelect(w, t) PROVE TypeOK'
    BY <2>1 DEF ClaimSelect, rowVars
  <2>2. CASE ClaimCommit(w)
    BY <2>2 DEF ClaimCommit, GrantLease, ClaimHoldsRow
  <2>3. CASE ClaimReplyLost(w)
    BY <2>3 DEF ClaimReplyLost, ClaimHoldsRow, GrantLease, BackToPolling, Fault
  <2>4. CASE ClaimAborts(w)
    <3>1. /\ rowLock' \in [Tasks -> Workers \cup {NoWorker}]
          /\ UNCHANGED <<rowVars, retries>>
      BY <2>4 DEF ClaimAborts
    <3>2. pc' = [pc EXCEPT ![w] = "idle"] /\ job' = [job EXCEPT ![w] = NoTask]
      BY <2>4 DEF ClaimAborts, BackToPolling
    <3>3. token' = [token EXCEPT ![w] = 0] /\ faults' = faults + 1
      BY <2>4 DEF ClaimAborts, BackToPolling, Fault
    <3> QED
      BY <3>1, <3>2, <3>3 DEF rowVars
  <2>5. CASE Heartbeat(w)
    BY <2>5 DEF Heartbeat, workerVars
  <2>6. CASE Complete(w)
    BY <2>6 DEF Complete, StoreResult, BackToPolling
  <2>7. CASE CompleteReplyLost(w)
    <3>1. UNCHANGED <<attempts, maxAttempts, due, created, rowLock, retries, job, token>>
      BY <2>7 DEF CompleteReplyLost, StoreResult
    <3>2. status' \in [Tasks -> Statuses] /\ result' \in [Tasks -> Nat]
      BY <2>7 DEF CompleteReplyLost, StoreResult
    <3>3. /\ lockedBy' \in [Tasks -> Workers \cup {NoWorker}]
          /\ beat' \in [Tasks -> {"none", "fresh", "stale"}]
      BY <2>7 DEF CompleteReplyLost, StoreResult
    <3>4. pc' = [pc EXCEPT ![w] = "failing"] /\ faults' = faults + 1
      BY <2>7 DEF CompleteReplyLost, Fault
    <3> QED
      BY <3>1, <3>2, <3>3, <3>4
  <2>8. CASE CompleteRefused(w) \/ FailRefused(w)
    BY <2>8 DEF CompleteRefused, FailRefused, BackToPolling, rowVars
  <2>9. CASE HandlerRaises(w)
    BY <2>9 DEF HandlerRaises, rowVars
  <2>10. CASE Fail(w)
    BY <2>10 DEF Fail, BackToPolling
  <2>11. CASE FailAborts(w)
    BY <2>11 DEF FailAborts, BackToPolling, Fault, rowVars
  <2>12. CASE Crash(w)
    BY <2>12 DEF Crash, Fault, rowVars
  <2>13. ASSUME NEW S \in SUBSET Tasks, RecoverStale(w, S) PROVE TypeOK'
    BY <2>13 DEF RecoverStale, workerVars
  <2> QED
    BY <1>1, <2>1, <2>2, <2>3, <2>4, <2>5, <2>6, <2>7, <2>8, <2>9, <2>10, <2>11,
       <2>12, <2>13 DEF WorkerStep
<1>2. ASSUME NEW t \in Tasks, RowStep(t) PROVE TypeOK'
  <2>1. CASE Enqueue(t)
    BY <2>1 DEF Enqueue, workerVars
  <2>2. CASE RetryTask(t)
    BY <2>2 DEF RetryTask, RaisedBudget, workerVars
  <2>3. CASE MoveToDead(t)
    BY <2>3 DEF MoveToDead, workerVars
  <2>4. CASE BackoffElapses(t) \/ BeatAges(t)
    BY <2>4 DEF BackoffElapses, BeatAges, workerVars
  <2> QED
    BY <1>2, <2>1, <2>2, <2>3, <2>4 DEF RowStep
<1>3. CASE UNCHANGED vars
  BY <1>3 DEF vars, rowVars, workerVars
<1> QED
  BY <1>1, <1>2, <1>3 DEF Next

-----------------------------------------------------------------------------
\* The transactions keep the budget, the lease and the result of a row right.
LEMMA RowInvStep == IInv /\ [Next]_vars => RowInv'
<1> SUFFICES ASSUME IInv, [Next]_vars PROVE RowInv'
  OBVIOUS
<1>a. TypeOK /\ RowInv /\ ClaimHoldsRow /\ ExecInv
  BY DEF IInv
<1> USE <1>a, ConstantAssumption
    DEF TypeOK, Statuses, CLAIMABLE_STATUSES, RowInv, NeverStranded, WithinBudget,
        UnbornUncounted, LeaseOfRunning, ResultOfLastAttempt
<1>1. ASSUME UNCHANGED rowVars PROVE RowInv'
  BY <1>1 DEF rowVars
<1>2. ASSUME NEW w \in Workers, pc[w] = "claiming", GrantLease(w, job[w]) PROVE RowInv'
  BY <1>2 DEF GrantLease, ClaimHoldsRow
<1>3. ASSUME NEW w \in Workers, StoreResult(w) PROVE RowInv'
  BY <1>3 DEF StoreResult, HoldsLease, ExecInv, TokenCounted, FencedExecutions, Executing
<1>4. ASSUME NEW w \in Workers, WorkerStep(w) PROVE RowInv'
  <2>1. CASE \/ \E t \in Tasks : ClaimSelect(w, t)
             \/ ClaimAborts(w) \/ CompleteRefused(w) \/ HandlerRaises(w)
             \/ FailRefused(w) \/ FailAborts(w) \/ Crash(w)
    BY <1>1, <2>1 DEF ClaimSelect, ClaimAborts, CompleteRefused, HandlerRaises,
                      FailRefused, FailAborts, Crash
  <2>2. CASE ClaimCommit(w) \/ ClaimReplyLost(w)
    BY <1>2, <2>2 DEF ClaimCommit, ClaimReplyLost
  <2>3. CASE Complete(w) \/ CompleteReplyLost(w)
    BY <1>3, <2>3 DEF Complete, CompleteReplyLost
  <2>4. CASE Heartbeat(w)
    BY <2>4 DEF Heartbeat, HoldsLease
  <2>5. CASE Fail(w)
    BY <2>5 DEF Fail, HoldsLease, Exhausted
  <2>6. ASSUME NEW S \in SUBSET Tasks, RecoverStale(w, S) PROVE RowInv'
    BY <2>6 DEF RecoverStale, StaleTasks, Exhausted
  <2> QED
    BY <1>4, <2>1, <2>2, <2>3, <2>4, <2>5, <2>6 DEF WorkerStep
<1>5. ASSUME NEW t \in Tasks, RowStep(t) PROVE RowInv'
  <2>1. CASE Enqueue(t)
    BY <2>1 DEF Enqueue
  <2>2. CASE RetryTask(t)
    BY <2>2 DEF RetryTask, RaisedBudget
  <2>3. CASE MoveToDead(t)
    BY <2>3 DEF MoveToDead, FINAL_STATUSES
  <2>4. CASE BackoffElapses(t) \/ BeatAges(t)
    BY <2>4 DEF BackoffElapses, BeatAges
  <2> QED
    BY <1>5, <2>1, <2>2, <2>3, <2>4 DEF RowStep
<1>6. CASE UNCHANGED vars
  BY <1>1, <1>6 DEF vars
<1> QED
  BY <1>4, <1>5, <1>6 DEF Next

\* A claim keeps its row: nobody else changes a row that is locked.
LEMMA ClaimStep == IInv /\ [Next]_vars => ClaimHoldsRow'
<1> SUFFICES ASSUME IInv, [Next]_vars PROVE ClaimHoldsRow'
  OBVIOUS
<1>a. TypeOK /\ RowInv /\ ClaimHoldsRow /\ ExecInv
  BY DEF IInv
<1> USE <1>a, ConstantAssumption
    DEF TypeOK, Statuses, CLAIMABLE_STATUSES, ClaimHoldsRow
<1>1. ASSUME NEW w \in Workers, WorkerStep(w) PROVE ClaimHoldsRow'
  <2>1. ASSUME NEW t \in Tasks, ClaimSelect(w, t) PROVE ClaimHoldsRow'
    BY <2>1 DEF ClaimSelect, Claimable, Unlocked, rowVars
  <2>2. CASE ClaimCommit(w)
    BY <2>2 DEF ClaimCommit, GrantLease
  <2>3. CASE ClaimReplyLost(w)
    BY <2>3 DEF ClaimReplyLost, GrantLease, BackToPolling
  <2>4. CASE ClaimAborts(w)
    BY <2>4 DEF ClaimAborts, BackToPolling, rowVars
  <2>5. CASE Heartbeat(w)
    BY <2>5 DEF Heartbeat, workerVars
  <2>6. CASE Complete(w)
    BY <2>6 DEF Complete, StoreResult, HoldsLease, BackToPolling
  <2>7. CASE CompleteReplyLost(w)
    BY <2>7 DEF CompleteReplyLost, StoreResult, HoldsLease
  <2>8. CASE CompleteRefused(w) \/ FailRefused(w) \/ FailAborts(w)
    BY <2>8 DEF CompleteRefused, FailRefused, FailAborts, BackToPolling, rowVars
  <2>9. CASE HandlerRaises(w)
    BY <2>9 DEF HandlerRaises, rowVars
  <2>10. CASE Fail(w)
    BY <2>10 DEF Fail, HoldsLease, BackToPolling
  <2>11. CASE Crash(w)
    BY <2>11 DEF Crash, rowVars
  <2>12. ASSUME NEW S \in SUBSET Tasks, RecoverStale(w, S) PROVE ClaimHoldsRow'
    BY <2>12 DEF RecoverStale, StaleTasks, workerVars
  <2> QED
    BY <1>1, <2>1, <2>2, <2>3, <2>4, <2>5, <2>6, <2>7, <2>8, <2>9, <2>10, <2>11,
       <2>12 DEF WorkerStep
<1>2. ASSUME NEW t \in Tasks, RowStep(t) PROVE ClaimHoldsRow'
  BY <1>2 DEF RowStep, Enqueue, RetryTask, MoveToDead, BackoffElapses, BeatAges,
              Unlocked, FINAL_STATUSES, workerVars
<1>3. CASE UNCHANGED vars
  BY <1>3 DEF vars, rowVars, workerVars
<1> QED
  BY <1>1, <1>2, <1>3 DEF Next

\* The attempt number an execution carries stays below the row's, and is the
\* row's as long as the lease is the worker's.
LEMMA ExecStep == IInv /\ [Next]_vars => ExecInv'
<1> SUFFICES ASSUME IInv, [Next]_vars PROVE ExecInv'
  OBVIOUS
<1>a. TypeOK /\ RowInv /\ ClaimHoldsRow /\ ExecInv
  BY DEF IInv
<1> USE <1>a, ConstantAssumption
    DEF TypeOK, ExecInv, TokenCounted, FencedExecutions, Executing, HoldsLease
<1>1. ASSUME NEW w \in Workers, WorkerStep(w) PROVE ExecInv'
  <2>1. ASSUME NEW t \in Tasks, ClaimSelect(w, t) PROVE ExecInv'
    BY <2>1 DEF ClaimSelect, rowVars
  <2>2. CASE ClaimCommit(w)
    BY <2>2 DEF ClaimCommit, GrantLease, ClaimHoldsRow
  <2>3. CASE ClaimReplyLost(w)
    <3>1. PICK t \in Tasks : t = job[w] /\ status[t] # "running"
      BY <2>3 DEF ClaimReplyLost, ClaimHoldsRow, CLAIMABLE_STATUSES
    <3>2. attempts' = [attempts EXCEPT ![t] = attempts[t] + 1]
      BY <2>3, <3>1 DEF ClaimReplyLost, GrantLease
    <3>3. pc' = [pc EXCEPT ![w] = "idle"] /\ job' = [job EXCEPT ![w] = NoTask]
          /\ token' = [token EXCEPT ![w] = 0]
      BY <2>3 DEF ClaimReplyLost, BackToPolling
    <3>4. status' = [status EXCEPT ![t] = "running"] /\ lockedBy' = [lockedBy EXCEPT ![t] = w]
      BY <2>3, <3>1 DEF ClaimReplyLost, GrantLease
    <3>5. TokenCounted'
      BY <3>1, <3>2, <3>3
    <3>6. FencedExecutions'
      BY <3>1, <3>2, <3>3, <3>4
    <3> QED
      BY <3>5, <3>6
  <2>4. CASE ClaimAborts(w) \/ CompleteRefused(w) \/ FailRefused(w) \/ FailAborts(w)
    <3>1. pc' = [pc EXCEPT ![w] = "idle"] /\ UNCHANGED rowVars
      BY <2>4 DEF ClaimAborts, CompleteRefused, FailRefused, FailAborts, BackToPolling
    <3>2. job' = [job EXCEPT ![w] = NoTask] /\ token' = [token EXCEPT ![w] = 0]
      BY <2>4 DEF ClaimAborts, CompleteRefused, FailRefused, FailAborts, BackToPolling
    <3> QED
      BY <3>1, <3>2 DEF rowVars
  <2>5. CASE Heartbeat(w)
    BY <2>5 DEF Heartbeat, workerVars
  <2>6. CASE Complete(w)
    BY <2>6 DEF Complete, StoreResult, BackToPolling
  <2>7. CASE CompleteReplyLost(w)
    BY <2>7 DEF CompleteReplyLost, StoreResult
  <2>8. CASE HandlerRaises(w)
    BY <2>8 DEF HandlerRaises, rowVars
  <2>9. CASE Fail(w)
    BY <2>9 DEF Fail, BackToPolling
  <2>10. CASE Crash(w)
    BY <2>10 DEF Crash, rowVars
  <2>11. ASSUME NEW S \in SUBSET Tasks, RecoverStale(w, S) PROVE ExecInv'
    BY <2>11 DEF RecoverStale, workerVars
  <2> QED
    BY <1>1, <2>1, <2>2, <2>3, <2>4, <2>5, <2>6, <2>7, <2>8, <2>9, <2>10, <2>11
    DEF WorkerStep
<1>2. ASSUME NEW t \in Tasks, RowStep(t) PROVE ExecInv'
  BY <1>2 DEF RowStep, Enqueue, RetryTask, MoveToDead, BackoffElapses, BeatAges,
              workerVars
<1>3. CASE UNCHANGED vars
  BY <1>3 DEF vars, rowVars, workerVars
<1> QED
  BY <1>1, <1>2, <1>3 DEF Next

-----------------------------------------------------------------------------
\* The inductive invariant holds throughout.
LEMMA Inductive == Spec => []IInv
<1>1. Init => IInv
  BY ConstantAssumption DEF Init, IInv, TypeOK, Statuses, RowInv, NeverStranded,
     WithinBudget, UnbornUncounted, LeaseOfRunning, ResultOfLastAttempt, ClaimHoldsRow, ExecInv,
     TokenCounted, FencedExecutions, Executing, HoldsLease, CLAIMABLE_STATUSES
<1>2. IInv /\ [Next]_vars => IInv'
  BY TypeStep, RowInvStep, ClaimStep, ExecStep DEF IInv
<1> QED
  BY <1>1, <1>2, PTL DEF Spec

\* Every variable keeps its type; in particular no operation writes a status of
\* its own.
THEOREM TypeCorrect == Spec => []TypeOK
<1>1. IInv => TypeOK
  BY DEF IInv
<1> QED
  BY <1>1, Inductive, PTL

\* A row that waits for a worker always has an attempt left, and no row uses
\* more attempts than it has.
THEOREM BudgetKept == Spec => [](NeverStranded /\ WithinBudget)
<1>1. IInv => NeverStranded /\ WithinBudget
  BY DEF IInv, RowInv
<1> QED
  BY <1>1, Inductive, PTL

\* Executions of a row are told apart by their attempt numbers, and only the
\* latest can hold the lease, whatever workers stall, crash or lose replies.
THEOREM ExecutionsFenced == Spec => []FencedExecutions
<1>1. IInv => FencedExecutions
  BY DEF IInv, ExecInv
<1> QED
  BY <1>1, Inductive, PTL

\* The stored result is that of the row's last attempt.
THEOREM ResultFromLastAttempt == Spec => []ResultOfLastAttempt
<1>1. IInv => ResultOfLastAttempt
  BY DEF IInv, RowInv
<1> QED
  BY <1>1, Inductive, PTL

-----------------------------------------------------------------------------
\* The leases of a step: a stale one becomes fresh only through the execution of the latest
\* attempt, and a running row is left by its holder or because its lease was stale.
Renewed ==
    \A t \in Tasks : beat[t] = "stale" /\ beat'[t] = "fresh" =>
        \E w \in Workers : Executing(w, t) /\ token[w] = attempts[t]
Ended ==
    \A t \in Tasks : status[t] = "running" /\ status'[t] # "running" =>
        \/ beat[t] = "stale" /\ status'[t] \in {"failed", "dead"}
        \/ \E w \in Workers : /\ Executing(w, t) /\ lockedBy[t] = w
                              /\ token[w] = attempts[t]
                              /\ pc'[w] # pc[w]

\* A worker that holds the lease of the row it executes does so with the latest attempt.
LEMMA HolderIsLatest ==
  ASSUME IInv, NEW w \in Workers, pc[w] \in {"handling", "failing"}, HoldsLease(w, job[w])
  PROVE  job[w] \in Tasks /\ Executing(w, job[w]) /\ token[w] = attempts[job[w]]
  BY DEF IInv, ExecInv, TokenCounted, FencedExecutions, Executing

\* Every step of a worker respects the leases.
LEMMA WorkerRespects ==
  ASSUME IInv, NEW w \in Workers, WorkerStep(w)
  PROVE  Renewed /\ Ended
<1>a. TypeOK /\ LeaseOfRunning /\ ClaimHoldsRow
  BY DEF IInv, RowInv
<1> USE <1>a DEF TypeOK, Renewed, Ended
<1>1. ASSUME UNCHANGED <<status, beat>> PROVE Renewed /\ Ended
  BY <1>1
<1>2. ASSUME pc[w] = "claiming", GrantLease(w, job[w]) PROVE Renewed /\ Ended
  BY <1>2 DEF GrantLease, ClaimHoldsRow, LeaseOfRunning, CLAIMABLE_STATUSES
<1>3. ASSUME pc[w] \in {"handling", "failing"}, HoldsLease(w, job[w]), pc'[w] # pc[w],
             NEW s \in Statuses, status' = [status EXCEPT ![job[w]] = s],
             beat' = [beat EXCEPT ![job[w]] = "none"]
      PROVE  Renewed /\ Ended
  BY <1>3, HolderIsLatest DEF HoldsLease
<1>4. CASE \/ \E t \in Tasks : ClaimSelect(w, t)
           \/ ClaimAborts(w) \/ CompleteRefused(w) \/ HandlerRaises(w)
           \/ FailRefused(w) \/ FailAborts(w) \/ Crash(w)
  BY <1>1, <1>4 DEF ClaimSelect, ClaimAborts, CompleteRefused, HandlerRaises,
                    FailRefused, FailAborts, Crash, rowVars
<1>5. CASE ClaimCommit(w) \/ ClaimReplyLost(w)
  BY <1>2, <1>5 DEF ClaimCommit, ClaimReplyLost
<1>6. CASE Complete(w) \/ CompleteReplyLost(w)
  BY <1>3, <1>6 DEF Complete, CompleteReplyLost, StoreResult, BackToPolling, Statuses
<1>7. CASE Fail(w)
  BY <1>3, <1>7 DEF Fail, BackToPolling, Statuses
<1>8. CASE Heartbeat(w)
  BY <1>8, HolderIsLatest DEF Heartbeat
<1>9. ASSUME NEW S \in SUBSET Tasks, RecoverStale(w, S) PROVE Renewed /\ Ended
  BY <1>9 DEF RecoverStale, StaleTasks, LeaseOfRunning
<1> QED
  BY <1>4, <1>5, <1>6, <1>7, <1>8, <1>9 DEF WorkerStep

\* Only the execution of a row's latest attempt renews its lease or gives it up; what nobody
\* renews is taken by the stale scan.
THEOREM LeasesRespected == Spec => LeaseRespected
<1>1. ASSUME IInv, NEW t \in Tasks, RowStep(t) PROVE Renewed /\ Ended
  BY <1>1 DEF IInv, TypeOK, Renewed, Ended, RowStep, Enqueue, RetryTask, MoveToDead,
     BackoffElapses, BeatAges, FINAL_STATUSES, CLAIMABLE_STATUSES
<1>2. ASSUME UNCHANGED vars PROVE Renewed /\ Ended
  BY <1>2 DEF vars, rowVars, Renewed, Ended
<1>3. IInv /\ [Next]_vars => Renewed /\ Ended
  BY <1>1, <1>2, WorkerRespects DEF Next
<1>4. Spec => [][Renewed]_vars /\ [][Ended]_vars
  BY <1>3, Inductive, PTL DEF Spec
<1> QED
  BY <1>4 DEF LeaseRespected, RenewedByItsExecution, OnlyHolderOrStaleEnds, Renewed, Ended

-----------------------------------------------------------------------------
\* The store of leased jobs, step by step.
LEMMA LeaseIsStep ==
    ASSUME NEW t \in Tasks, NEW w \in Workers, LJ!Lease(t, w)
    PROVE  LJ!JobNext
BY DEF LJ!JobNext

\* Taking back leases is a step of the abstract store.
LEMMA RevokeIsStep ==
    ASSUME NEW S \in SUBSET Tasks, NEW B \in SUBSET S, LJ!Revoke(S, B)
    PROVE  LJ!JobNext
BY DEF LJ!JobNext

\* What happens to one row is a step of the abstract store or a stutter.
LEMMA RowRefines ==
    ASSUME IInv, NEW t \in Tasks, RowStep(t)
    PROVE  LJ!JobNext \/ UNCHANGED LJ!jobVars
<1>a. TypeOK /\ RowInv
  BY DEF IInv
<1> USE <1>a, ConstantAssumption
    DEF TypeOK, Statuses, CLAIMABLE_STATUSES, JobState, RowInv, LeaseOfRunning
<1>1. CASE Enqueue(t)
  <2>1. status[t] = "absent" /\ status' = [status EXCEPT ![t] = "queued"]
    BY <1>1 DEF Enqueue
  <2>2. JobState[t] = "none" /\ JobState' = [JobState EXCEPT ![t] = "waiting"]
    BY <2>1
  <2>3. UNCHANGED <<attempts, lockedBy, result>>
    BY <1>1 DEF Enqueue
  <2>4. LJ!Submit(t)
    BY <2>2, <2>3 DEF LJ!Submit
  <2> QED
    BY <2>4 DEF LJ!JobNext
<1>2. CASE RetryTask(t) /\ status[t] = "dead"
  <2>1. status[t] = "dead" /\ status' = [status EXCEPT ![t] = "queued"]
    BY <1>2 DEF RetryTask
  <2>2. JobState[t] = "buried" /\ JobState' = [JobState EXCEPT ![t] = "waiting"]
    BY <2>1
  <2>3. UNCHANGED <<attempts, result>> /\ lockedBy' = lockedBy
    BY <1>2 DEF RetryTask
  <2>4. LJ!Resubmit(t)
    BY <2>2, <2>3 DEF LJ!Resubmit
  <2> QED
    BY <2>4 DEF LJ!JobNext
<1>3. CASE RetryTask(t) /\ status[t] = "failed"
  BY <1>3 DEF RetryTask, LJ!jobVars
<1>4. CASE MoveToDead(t)
  <2>1. status[t] \in {"queued", "failed"} /\ status' = [status EXCEPT ![t] = "dead"]
    BY <1>4 DEF MoveToDead, FINAL_STATUSES
  <2>2. JobState[t] = "waiting" /\ JobState' = [JobState EXCEPT ![t] = "buried"]
    BY <2>1
  <2>3. UNCHANGED <<attempts, result>> /\ lockedBy' = lockedBy
    BY <1>4, <2>1 DEF MoveToDead
  <2>4. LJ!Bury(t)
    BY <2>2, <2>3 DEF LJ!Bury
  <2> QED
    BY <2>4 DEF LJ!JobNext
<1>5. CASE BackoffElapses(t) \/ BeatAges(t)
  BY <1>5 DEF BackoffElapses, BeatAges, LJ!jobVars
<1> QED
  BY <1>1, <1>2, <1>3, <1>4, <1>5 DEF RowStep, RetryTask

\* So is what a worker does.
LEMMA WorkerRefines ==
    ASSUME IInv, NEW w \in Workers, WorkerStep(w)
    PROVE  LJ!JobNext \/ UNCHANGED LJ!jobVars
<1>a. TypeOK /\ RowInv /\ ClaimHoldsRow /\ ExecInv
  BY DEF IInv
<1> USE <1>a, ConstantAssumption
    DEF TypeOK, Statuses, CLAIMABLE_STATUSES, JobState
<1>1. ASSUME UNCHANGED rowVars PROVE UNCHANGED LJ!jobVars
  BY <1>1 DEF rowVars, LJ!jobVars
<1>2. ASSUME pc[w] = "claiming", GrantLease(w, job[w]) PROVE LJ!JobNext
  <2>1. PICK t \in Tasks : t = job[w]
    BY <1>2 DEF ClaimHoldsRow
  <2>2. status[t] \in {"queued", "failed"}
    BY <1>2, <2>1 DEF ClaimHoldsRow
  <2>3. status' = [status EXCEPT ![t] = "running"]
    BY <1>2, <2>1 DEF GrantLease
  <2>4. JobState[t] = "waiting" /\ JobState' = [JobState EXCEPT ![t] = "leased"]
    BY <2>2, <2>3
  <2>5. LJ!Lease(t, w)
    BY <1>2, <2>1, <2>4 DEF GrantLease, LJ!Lease
  <2> QED
    BY <2>5, LeaseIsStep
<1>3. ASSUME StoreResult(w) PROVE LJ!JobNext
  <2>1. PICK t \in Tasks : t = job[w]
    BY <1>3 DEF StoreResult, ExecInv, TokenCounted
  <2>2. token[w] = attempts[t]
    BY <1>3, <2>1 DEF StoreResult, ExecInv, FencedExecutions, Executing
  <2>3. status[t] = "running" /\ status' = [status EXCEPT ![t] = "succeeded"]
    BY <1>3, <2>1 DEF StoreResult, HoldsLease
  <2>4. JobState[t] = "leased" /\ JobState' = [JobState EXCEPT ![t] = "done"]
    BY <2>3
  <2>5. LJ!Finish(t)
    BY <1>3, <2>1, <2>2, <2>4 DEF StoreResult, LJ!Finish
  <2> QED
    BY <2>5 DEF LJ!JobNext
<1>4. CASE \/ \E t \in Tasks : ClaimSelect(w, t)
           \/ ClaimAborts(w) \/ CompleteRefused(w) \/ HandlerRaises(w)
           \/ FailRefused(w) \/ FailAborts(w) \/ Crash(w)
  BY <1>1, <1>4 DEF ClaimSelect, ClaimAborts, CompleteRefused, HandlerRaises,
                    FailRefused, FailAborts, Crash
<1>5. CASE ClaimCommit(w) \/ ClaimReplyLost(w)
  BY <1>2, <1>5 DEF ClaimCommit, ClaimReplyLost
<1>6. CASE Complete(w) \/ CompleteReplyLost(w)
  BY <1>3, <1>6 DEF Complete, CompleteReplyLost
<1>7. CASE Heartbeat(w)
  BY <1>7 DEF Heartbeat, LJ!jobVars
<1>8. CASE Fail(w)
  <2>1. PICK t \in Tasks : t = job[w]
    BY <1>8 DEF Fail, ExecInv, TokenCounted
  <2>2. PICK B \in SUBSET {t} : B = IF Exhausted(t) THEN {t} ELSE {}
    OBVIOUS
  <2>3. LJ!Revoke({t}, B)
    <3>1. \A u \in {t} : JobState[u] = "leased"
      BY <1>8, <2>1 DEF Fail, HoldsLease
    <3>2. status' = [status EXCEPT ![t] = IF Exhausted(t) THEN "dead" ELSE "failed"]
      BY <1>8, <2>1 DEF Fail
    <3>3. JobState' = [u \in Tasks |-> IF u \in B THEN "buried"
                                      ELSE IF u \in {t} THEN "waiting" ELSE JobState[u]]
      BY <2>2, <3>2
    <3>4. lockedBy' = [u \in Tasks |-> IF u \in {t} THEN NoWorker ELSE lockedBy[u]]
      BY <1>8, <2>1 DEF Fail
    <3> QED
      BY <1>8, <3>1, <3>3, <3>4 DEF Fail, LJ!Revoke
  <2> QED
    BY <2>3, RevokeIsStep
<1>9. ASSUME NEW S \in SUBSET Tasks, RecoverStale(w, S) PROVE LJ!JobNext
  <2>1. PICK B \in SUBSET S : B = {t \in S : Exhausted(t)}
    OBVIOUS
  <2>2. \A t \in S : JobState[t] = "leased"
    BY <1>9 DEF RecoverStale, StaleTasks
  <2>3. JobState' = [t \in Tasks |-> IF t \in B THEN "buried"
                                    ELSE IF t \in S THEN "waiting" ELSE JobState[t]]
    BY <1>9, <2>1 DEF RecoverStale
  <2>4. lockedBy' = [t \in Tasks |-> IF t \in S THEN NoWorker ELSE lockedBy[t]]
    BY <1>9 DEF RecoverStale
  <2>5. LJ!Revoke(S, B)
    BY <1>9, <2>2, <2>3, <2>4 DEF RecoverStale, LJ!Revoke
  <2> QED
    BY <2>5, RevokeIsStep
<1> QED
  BY <1>4, <1>5, <1>6, <1>7, <1>8, <1>9 DEF WorkerStep

\* The queue implements a store of leased jobs: one holder and one epoch for a
\* lease, the result of the last epoch kept, what is done stays done.
THEOREM QueueImplementsLeasedJobs == Spec => ImplementsLeasedJobs
<1>1. Init => LJ!JobInit
  BY DEF Init, JobState, CLAIMABLE_STATUSES, LJ!JobInit
<1>2. IInv /\ [Next]_vars => [LJ!JobNext]_(LJ!jobVars)
  <2>1. ASSUME UNCHANGED vars PROVE UNCHANGED LJ!jobVars
    BY <2>1 DEF vars, rowVars, JobState, LJ!jobVars
  <2> QED
    BY <2>1, RowRefines, WorkerRefines DEF Next
<1> QED
  BY <1>1, <1>2, Inductive, PTL DEF Spec, ImplementsLeasedJobs, LJ!JobSpec

-----------------------------------------------------------------------------
(* The insertion by key.                                                   *)

\* No key has two rows, the undecided ones counted.
UniqueRows ==
    \A r, s \in committed \cup openRows : KeyOf[r] = KeyOf[s] /\ Keyed(r) => r = s

\* Where the call of a row is.
RowsHaveCalls ==
    /\ \A c \in committed : callPc[c] = "ended" /\ business[c] = "committed"
    /\ \A c \in Calls : c \in openRows <=> callPc[c] = "made"

\* A snapshot is a past of the committed rows, and a call returns its own row only
\* if it made it.
ReadsThePast ==
    /\ \A c \in Calls : snapshot[c] \subseteq committed
    /\ \A c \in Calls : answer[c] = c => callPc[c] \in {"made", "ended"}

InsertInv ==
    InsertTypeOK /\ UniqueRows /\ RowsHaveCalls /\ ReadsThePast /\ OutboxAtomic /\ HitIsCommitted

\* Before the first call the invariant holds.
LEMMA RowsAtFirst == InsertInit => InsertInv
<1> SUFFICES ASSUME InsertInit PROVE InsertInv
  OBVIOUS
<1> USE InsertAssumption DEF InsertInit
<1>1. InsertTypeOK
  BY DEF InsertTypeOK
<1>2. UniqueRows /\ RowsHaveCalls
  BY DEF UniqueRows, RowsHaveCalls
<1>3. ReadsThePast /\ OutboxAtomic /\ HitIsCommitted
  BY DEF ReadsThePast, OutboxAtomic, HitIsCommitted
<1>4. QED
  BY <1>1, <1>2, <1>3 DEF InsertInv

\* A look-up returns committed rows, other than the call's own.
LEMMA LookUpIsCommitted ==
  ASSUME InsertInv, NEW c \in Calls, NEW r \in LookUp(Visible(c), c)
  PROVE  r \in committed /\ r \in Calls /\ (callPc[c] # "ended" => r # c)
  BY DEF InsertInv, InsertTypeOK, LookUp, SameKey, Visible, ReadsThePast, RowsHaveCalls

\* A call that hits a row: the look-ups' common step.
LEMMA HitStep ==
  ASSUME InsertInv, NEW c \in Calls, callPc[c] \in {"lookup", "reselect"},
         NEW r \in LookUp(Visible(c), c),
         answer' = [answer EXCEPT ![c] = r], CallGoes(c, "hit"),
         UNCHANGED <<isolation, committed, openRows, snapshot, business>>
  PROVE  InsertInv'
<1> USE InsertAssumption DEF InsertInv, CallGoes
<1>0. r \in committed /\ r \in Calls /\ r # c
  BY LookUpIsCommitted
<1>1. InsertTypeOK'
  BY <1>0 DEF InsertTypeOK
<1>2. UniqueRows'
  BY DEF UniqueRows, Keyed
<1>3. RowsHaveCalls'
  BY DEF RowsHaveCalls, InsertTypeOK
<1>4. ReadsThePast'
  BY <1>0 DEF ReadsThePast, InsertTypeOK
<1>5. OutboxAtomic'
  BY <1>0 DEF OutboxAtomic, InsertTypeOK
<1>6. HitIsCommitted'
  BY <1>0 DEF HitIsCommitted, InsertTypeOK
<1>7. QED
  BY <1>1, <1>2, <1>3, <1>4, <1>5, <1>6

\* The other steps of a call that touch no row.
LEMMA QuietStep ==
  ASSUME InsertInv, NEW c \in Calls, NEW place, ~(callPc[c] \in {"made", "ended"}),
         place \in {"lookup", "insert", "reselect", "raised"}, CallGoes(c, place),
         NEW S \in {snapshot[c], committed}, snapshot' = [snapshot EXCEPT ![c] = S],
         NEW w \in {business[c], "lost"}, business' = [business EXCEPT ![c] = w],
         UNCHANGED <<isolation, committed, openRows, answer>>
  PROVE  InsertInv'
<1> USE InsertAssumption DEF InsertInv, CallGoes
<1>1. InsertTypeOK'
  BY DEF InsertTypeOK
<1>2. UniqueRows'
  BY DEF UniqueRows, Keyed
<1>3. RowsHaveCalls'
  BY DEF RowsHaveCalls, InsertTypeOK
<1>4. ReadsThePast'
  BY DEF ReadsThePast, InsertTypeOK
<1>5. OutboxAtomic' /\ HitIsCommitted'
  BY DEF OutboxAtomic, HitIsCommitted, InsertTypeOK
<1>6. QED
  BY <1>1, <1>2, <1>3, <1>4, <1>5

\* A call that inserts its row keeps it.
LEMMA InsertKeeps ==
  ASSUME InsertInv, NEW c \in Calls, Insert(c), UNCHANGED isolation
  PROVE  InsertInv'
<1> USE InsertAssumption DEF CallGoes
<1>0. InsertTypeOK /\ UniqueRows /\ RowsHaveCalls /\ ReadsThePast /\ OutboxAtomic /\ HitIsCommitted
  BY DEF InsertInv
<1>1. /\ callPc[c] = "insert"
      /\ answer' = [answer EXCEPT ![c] = c]
      /\ UNCHANGED snapshot
  BY DEF Insert
<1>2. c \notin committed \cup openRows
  BY <1>0, <1>1 DEF RowsHaveCalls
<1>3. UniqueRows'
  <2>1. \A r \in committed \cup openRows : Keyed(c) => KeyOf[r] # KeyOf[c]
    BY DEF Insert, Duplicate, SameKey
  <2>2. (committed \cup openRows)' = committed \cup openRows \cup {c}
    BY DEF Insert
  <2>3. QED
    BY <1>0, <2>1, <2>2 DEF UniqueRows, Keyed
<1>4. HitIsCommitted'
  <2>1. committed \subseteq committed'
    BY DEF Insert
  <2>2. \A d \in Calls : answer'[d] = IF d = c THEN c ELSE answer[d]
    BY <1>0, <1>1 DEF InsertTypeOK
  <2>3. QED
    BY <1>0, <2>1, <2>2 DEF HitIsCommitted
\* With commit=True the row and the business rows are committed.
<1>5. CASE c \in Own
  <2>1. /\ committed' = committed \cup {c} /\ UNCHANGED openRows
        /\ business' = [business EXCEPT ![c] = "committed"]
        /\ callPc' = [callPc EXCEPT ![c] = "ended"]
    BY <1>5 DEF Insert
  <2>2. /\ callPc'[c] = "ended" /\ business'[c] = "committed" /\ answer'[c] = c
        /\ \A d \in Calls \ {c} :
              callPc'[d] = callPc[d] /\ business'[d] = business[d] /\ answer'[d] = answer[d]
    BY <1>0, <1>1, <2>1 DEF InsertTypeOK
  <2>3. InsertTypeOK'
    BY <1>0, <1>1, <2>1 DEF InsertTypeOK
  <2>4. \A d \in committed' : callPc'[d] = "ended" /\ business'[d] = "committed"
    <3>1. committed \subseteq Calls
      BY <1>0 DEF InsertTypeOK
    <3>2. QED
      BY <1>0, <2>1, <2>2, <3>1 DEF RowsHaveCalls
  <2>5. ASSUME NEW d \in Calls PROVE d \in openRows' <=> callPc'[d] = "made"
    <3>1. CASE d = c
      BY <1>2, <2>1, <2>2, <3>1
    <3>2. CASE d # c
      BY <1>0, <2>1, <2>2, <3>2 DEF RowsHaveCalls
    <3>3. QED
      BY <3>1, <3>2
  <2>6. ReadsThePast'
    BY <1>0, <1>1, <2>1, <2>2 DEF ReadsThePast
  <2>7. OutboxAtomic'
    <3>1. ASSUME NEW d \in Calls \ {c}, callPc'[d] = "ended", answer'[d] = d
          PROVE  d \in committed' <=> business'[d] = "committed"
      BY <1>0, <2>1, <2>2, <3>1 DEF OutboxAtomic
    <3>2. QED
      BY <2>1, <2>2, <3>1 DEF OutboxAtomic
  <2>8. QED
    BY <1>3, <1>4, <2>3, <2>4, <2>5, <2>6, <2>7 DEF InsertInv, RowsHaveCalls
\* In a business transaction the row is not decided yet.
<1>6. CASE c \notin Own
  <2>1. /\ openRows' = openRows \cup {c} /\ UNCHANGED <<committed, business>>
        /\ callPc' = [callPc EXCEPT ![c] = "made"]
    BY <1>6 DEF Insert
  <2>2. /\ callPc'[c] = "made" /\ answer'[c] = c
        /\ \A d \in Calls \ {c} : callPc'[d] = callPc[d] /\ answer'[d] = answer[d]
    BY <1>0, <1>1, <2>1 DEF InsertTypeOK
  <2>3. InsertTypeOK'
    BY <1>0, <1>1, <2>1 DEF InsertTypeOK
  <2>4. \A d \in committed' : callPc'[d] = "ended" /\ business'[d] = "committed"
    <3>1. committed \subseteq Calls
      BY <1>0 DEF InsertTypeOK
    <3>2. QED
      BY <1>0, <1>2, <2>1, <2>2, <3>1 DEF RowsHaveCalls
  <2>5. ASSUME NEW d \in Calls PROVE d \in openRows' <=> callPc'[d] = "made"
    <3>1. CASE d = c
      BY <2>1, <2>2, <3>1
    <3>2. CASE d # c
      BY <1>0, <2>1, <2>2, <3>2 DEF RowsHaveCalls
    <3>3. QED
      BY <3>1, <3>2
  <2>6. ReadsThePast'
    BY <1>0, <1>1, <2>1, <2>2 DEF ReadsThePast
  <2>7. OutboxAtomic'
    <3>1. ASSUME NEW d \in Calls \ {c}, callPc'[d] = "ended", answer'[d] = d
          PROVE  d \in committed' <=> business'[d] = "committed"
      BY <1>0, <2>1, <2>2, <3>1 DEF OutboxAtomic
    <3>2. QED
      BY <2>1, <2>2, <3>1 DEF OutboxAtomic
  <2>8. QED
    BY <1>3, <1>4, <2>3, <2>4, <2>5, <2>6, <2>7 DEF InsertInv, RowsHaveCalls
<1>7. QED
  BY <1>5, <1>6

\* So does the caller that commits, or rolls back, what the call has left open.
LEMMA CallerEnds ==
  ASSUME InsertInv, NEW c \in Calls, CallerCommits(c) \/ CallerRollsBack(c),
         UNCHANGED isolation
  PROVE  InsertInv'
<1> USE InsertAssumption DEF InsertInv, CallGoes
<1>1. /\ callPc[c] \in {"made", "hit"}
      /\ openRows' = openRows \ {c}
      /\ callPc' = [callPc EXCEPT ![c] = "ended"]
      /\ UNCHANGED <<snapshot, answer>>
      /\ \/ /\ committed' = committed \cup (openRows \cap {c})
            /\ business' = [business EXCEPT ![c] = "committed"]
         \/ /\ business' = [business EXCEPT ![c] = "lost"]
            /\ UNCHANGED committed
  BY DEF CallerCommits, CallerRollsBack
<1>2. c \notin committed
  BY <1>1 DEF RowsHaveCalls
<1>3. InsertTypeOK'
  BY <1>1 DEF InsertTypeOK
<1>4. UniqueRows'
  <2>1. (committed \cup openRows)' \subseteq committed \cup openRows
    BY <1>1
  <2>2. QED
    BY <2>1 DEF UniqueRows, Keyed
<1>5. RowsHaveCalls'
  BY <1>1, <1>2 DEF RowsHaveCalls, InsertTypeOK
<1>6. ReadsThePast'
  BY <1>1 DEF ReadsThePast, InsertTypeOK
<1>7. OutboxAtomic'
  <2>1. answer[c] = c => c \in openRows
    BY <1>1 DEF ReadsThePast, RowsHaveCalls, InsertTypeOK
  <2>2. ASSUME NEW d \in Calls, callPc'[d] = "ended", answer'[d] = d
        PROVE  (d \in committed <=> business[d] = "committed")'
    <3>1. CASE d # c
      BY <1>1, <2>2, <3>1 DEF OutboxAtomic, InsertTypeOK
    <3>2. CASE d = c
      BY <1>1, <1>2, <2>1, <2>2, <3>2 DEF InsertTypeOK
    <3>3. QED
      BY <3>1, <3>2
  <2>3. QED
    BY <2>2 DEF OutboxAtomic
<1>8. HitIsCommitted'
  BY <1>1 DEF HitIsCommitted, InsertTypeOK
<1>9. QED
  BY <1>3, <1>4, <1>5, <1>6, <1>7, <1>8

\* Every step keeps the invariant.
LEMMA InsertStep == InsertInv /\ [InsertNext]_insertVars => InsertInv'
<1> SUFFICES ASSUME InsertInv, [InsertNext]_insertVars PROVE InsertInv'
  OBVIOUS
<1>1. ASSUME NEW c \in Calls, CallStep(c) PROVE InsertInv'
  <2>i. UNCHANGED isolation
    BY <1>1 DEF CallStep
  <2>t. InsertTypeOK
    BY DEF InsertInv
  <2>1. CASE OpenTransaction(c)
    BY <2>i, <2>t, <2>1, QuietStep DEF OpenTransaction, InsertTypeOK
  <2>2. CASE PreCheck(c)
    <3>1. CASE \E r \in LookUp(Visible(c), c) : answer' = [answer EXCEPT ![c] = r]
                                                /\ CallGoes(c, "hit")
      BY <2>i, <2>2, <3>1, HitStep DEF PreCheck
    <3>2. CASE UNCHANGED answer /\ CallGoes(c, "insert")
      BY <2>i, <2>t, <2>2, <3>2, QuietStep DEF PreCheck, InsertTypeOK
    <3>3. QED
      BY <2>2, <3>1, <3>2 DEF PreCheck
  <2>3. CASE Insert(c)
    BY <2>i, <2>3, InsertKeeps
  <2>4. CASE InsertRefused(c)
    BY <2>i, <2>t, <2>4, QuietStep DEF InsertRefused, InsertTypeOK
  <2>5. CASE Reselect(c)
    <3>1. CASE \E r \in LookUp(Visible(c), c) : answer' = [answer EXCEPT ![c] = r]
                                                /\ CallGoes(c, "hit") /\ UNCHANGED business
      BY <2>i, <2>5, <3>1, HitStep DEF Reselect
    <3>2. CASE /\ UNCHANGED answer /\ CallGoes(c, "raised")
               /\ business' = [business EXCEPT ![c] = "lost"]
      BY <2>i, <2>t, <2>5, <3>2, QuietStep DEF Reselect, InsertTypeOK
    <3>3. QED
      BY <2>5, <3>1, <3>2 DEF Reselect
  <2>6. CASE CallerCommits(c) \/ CallerRollsBack(c)
    BY <2>i, <2>6, CallerEnds
  <2>7. QED
    BY <1>1, <2>1, <2>2, <2>3, <2>4, <2>5, <2>6 DEF CallStep
<1>2. CASE UNCHANGED insertVars
  BY <1>2 DEF insertVars, InsertInv, InsertTypeOK, UniqueRows, RowsHaveCalls, ReadsThePast,
          OutboxAtomic, HitIsCommitted
<1>3. QED
  BY <1>1, <1>2 DEF InsertNext

\* However many calls pass the first look-up together a key has one row, the row of a
\* business transaction shares its fate, and a hit is a committed row: InsertKept.
THEOREM InsertionKeepsItsPromises == InsertSpec => []InsertKept
<1>1. InsertInv => OneRowPerKey
  BY DEF InsertInv, UniqueRows, OneRowPerKey, Keyed
<1>2. InsertInv => InsertKept
  BY <1>1 DEF InsertInv, InsertKept
<1>3. QED
  BY <1>2, RowsAtFirst, InsertStep, PTL DEF InsertSpec

-----------------------------------------------------------------------------
(* The accounts.                                                           *)

Did == (Deeds \X AccountIds) \cup {NoDeed}
Call == [at : {"idle", "open", "done"}, by : 0..MaxAccounts, did : Did,
         sees : [AccountIds -> RowsOfAccounts]]

AccountTypes ==
    /\ accounts \in [AccountIds -> RowsOfAccounts]
    /\ calls \in [Callers -> Call]
    /\ doneTo \subseteq Deeds \X AccountIds

\* A request that has not done anything yet has nothing to enter in the log; one that is done
\* did what it says.
DeedsInv ==
    \A c \in Callers :
        /\ calls[c].at # "done" => calls[c].did = NoDeed
        /\ calls[c].at = "done" => calls[c].did \in doneTo
        /\ calls[c].at = "open" => calls[c].by \in AccountIds

\* While requests come one after another, the one that works sees the accounts as they are.
AloneSees ==
    ~overlapped =>
        /\ \A c, d \in Callers : calls[c].at # "idle" /\ calls[d].at # "idle" => c = d
        /\ \A c \in Callers : calls[c].at = "open" => calls[c].sees = accounts

AccountInv == AccountTypes /\ DeedsInv /\ AloneSees /\ AccountsKept

\* What a commit leaves of a row, field by field.
LEMMA FlushedAccount ==
  ASSUME NEW now \in RowsOfAccounts, NEW read \in RowsOfAccounts, NEW new \in RowsOfAccounts
  PROVE  LET row == Flushed(now, read, new) IN
         /\ row \in RowsOfAccounts
         /\ row.name = IF new.name = read.name THEN now.name ELSE new.name
         /\ row.role = IF new.role = read.role THEN now.role ELSE new.role
         /\ row.active = IF new.active = read.active THEN now.active ELSE new.active
         /\ row.removed = IF new.removed = read.removed THEN now.removed ELSE new.removed
BY DEF Flushed, RowsOfAccounts

LEMMA RowsThereAre ==
  /\ NoAccount \in RowsOfAccounts
  /\ \A name \in Persons, role \in Roles, dept \in Depts :
        /\ NewAccount(name, role, dept) \in RowsOfAccounts
        /\ NewAccount(name, role, dept).name = name
        /\ NewAccount(name, role, dept).role = role
        /\ NewAccount(name, role, dept).active /\ ~NewAccount(name, role, dept).removed
  /\ ~NoAccount.active /\ NoAccount.name = ""
  /\ RestingCall \in Call /\ RestingCall.at = "idle" /\ RestingCall.did = NoDeed
  /\ NoDeed \notin Deeds \X AccountIds
<1>1. NoAccount \in RowsOfAccounts
  BY DEF NoAccount, RowsOfAccounts, Roles, Depts
<1>2. ASSUME NEW name \in Persons, NEW role \in Roles, NEW dept \in Depts
      PROVE  /\ NewAccount(name, role, dept) \in RowsOfAccounts
             /\ NewAccount(name, role, dept).name = name
             /\ NewAccount(name, role, dept).role = role
             /\ NewAccount(name, role, dept).active /\ ~NewAccount(name, role, dept).removed
  BY DEF NewAccount, NoAccount, RowsOfAccounts, Roles, Depts
<1>3. ~NoAccount.active /\ NoAccount.name = ""
  BY DEF NoAccount
<1>4. RestingCall \in Call /\ RestingCall.at = "idle" /\ RestingCall.did = NoDeed
  BY <1>1, AccountAssumption DEF RestingCall, Call, Did
<1>5. NoDeed \notin Deeds \X AccountIds
  BY DEF NoDeed, Deeds
<1> QED
  BY <1>1, <1>2, <1>3, <1>4, <1>5

\* Where the first administrator is made there is room for him, and nobody has his name.
LEMMA FirstAdminIs ==
  ASSUME NEW rows \in [AccountIds -> RowsOfAccounts],
         \E i \in AccountIds : rows[i] = NoAccount
  PROVE  /\ WithFirstAdmin(rows) \in [AccountIds -> RowsOfAccounts]
         /\ WithFirstAdmin(rows) = rows
            \/ \E i \in AccountIds :
                  /\ ~NameTaken(rows, FirstAdmin) /\ rows[i] = NoAccount
                  /\ WithFirstAdmin(rows) =
                        [rows EXCEPT ![i] = NewAccount(FirstAdmin, "admin", "")]
<1>1. NewAccount(FirstAdmin, "admin", "") \in RowsOfAccounts
  BY RowsThereAre, AccountAssumption DEF Roles, Depts
<1>2. (CHOOSE i \in AccountIds : rows[i] = NoAccount) \in AccountIds
      /\ rows[CHOOSE i \in AccountIds : rows[i] = NoAccount] = NoAccount
  OBVIOUS
<1> QED
  BY <1>1, <1>2 DEF WithFirstAdmin

\* A new row: its name was nobody's, and who could manage the accounts still can.
LEMMA NewRow ==
  ASSUME NEW rows \in [AccountIds -> RowsOfAccounts], NEW i \in AccountIds,
         rows[i] = NoAccount, NEW new \in RowsOfAccounts, ~NameTaken(rows, new.name)
  PROVE  LET after == [rows EXCEPT ![i] = new] IN
         /\ (\A j, k \in AccountIds : Exists(rows, j) /\ Exists(rows, k)
                /\ rows[j].name = rows[k].name => j = k)
            => (\A j, k \in AccountIds : Exists(after, j) /\ Exists(after, k)
                   /\ after[j].name = after[k].name => j = k)
         /\ ActiveAdmins(rows) \subseteq ActiveAdmins(after)
<1>1. ~Exists(rows, i)
  BY RowsThereAre DEF Exists
<1> QED
  BY <1>1 DEF Exists, NameTaken, ActiveAdmins

\* Where one row changes and somebody else manages the accounts, or it is as good as before,
\* somebody still manages them.
LEMMA AdminsStay ==
  ASSUME NEW rows \in [AccountIds -> RowsOfAccounts], NEW i \in AccountIds,
         NEW row \in RowsOfAccounts
  PROVE  LET after == [rows EXCEPT ![i] = row] IN
         /\ ActiveAdmins(rows) \ {i} \subseteq ActiveAdmins(after)
         /\ (/\ row.name = rows[i].name /\ row.removed = rows[i].removed
             /\ rows[i].role = "admin" => row.role = "admin"
             /\ rows[i].active => row.active)
            => ActiveAdmins(rows) \subseteq ActiveAdmins(after)
BY DEF ActiveAdmins, Exists

\* An administrator who is not the last leaves another.
LEMMA AnotherAdmin ==
  ASSUME NEW rows \in [AccountIds -> RowsOfAccounts], NEW i \in AccountIds,
         ActiveAdmins(rows) # {},
         ~(rows[i].role = "admin" /\ Cardinality(ActiveAdmins(rows)) <= 1)
  PROVE  ActiveAdmins(rows) \ {i} # {}
<1>1. CASE rows[i].role # "admin"
  BY <1>1 DEF ActiveAdmins
<1>2. CASE rows[i].role = "admin"
  <2> SUFFICES ASSUME ActiveAdmins(rows) \ {i} = {} PROVE FALSE
    OBVIOUS
  <2>1. ActiveAdmins(rows) = {i}
    OBVIOUS
  <2>2. Cardinality({i}) = 1
    BY FS_Singleton
  <2> QED
    BY <1>2, <2>1, <2>2
<1> QED
  BY <1>1, <1>2

\* What a request does is entered with what was done, and the log tells of nothing else.
LEMMA DoneStep ==
  ASSUME AccountInv, NEW c \in Callers, NEW i \in AccountIds, NEW deed \in Deeds,
         calls[c].at = "open", doneTo' = doneTo \cup {<<deed, i>>},
         calls' = [calls EXCEPT ![c].at = "done", ![c].did = <<deed, i>>],
         journal' = journal, cut' = cut, overlapped' = overlapped
  PROVE  /\ calls' \in [Callers -> Call] /\ doneTo' \subseteq Deeds \X AccountIds
         /\ DeedsInv' /\ AloneSees' /\ LogIsTrue'
<1>1. /\ calls \in [Callers -> Call] /\ doneTo \subseteq Deeds \X AccountIds
      /\ DeedsInv /\ AloneSees /\ LogIsTrue
  BY DEF AccountInv, AccountTypes, AccountsKept
<1>2. /\ calls' \in [Callers -> Call]
      /\ calls'[c].at = "done" /\ calls'[c].did = <<deed, i>>
      /\ \A d \in Callers \ {c} : calls'[d] = calls[d]
  BY <1>1 DEF Call, Did
<1>3. DeedsInv'
  BY <1>1, <1>2 DEF DeedsInv
<1>4. AloneSees'
  <2>1. ~overlapped => \A d \in Callers \ {c} : calls[d].at = "idle"
    BY <1>1 DEF AloneSees
  <2> QED
    BY <1>2, <2>1 DEF AloneSees
<1>5. LogIsTrue'
  <2>1. calls[c].did = NoDeed /\ NoDeed \notin doneTo
    BY <1>1, RowsThereAre DEF DeedsInv
  <2>2. ASSUME ~cut, NEW d \in doneTo' \ journal'
        PROVE  \E e \in Callers : calls'[e].did = d
    <3>1. CASE d = <<deed, i>>
      BY <1>2, <3>1
    <3>2. CASE d # <<deed, i>>
      <4>1. d \in doneTo \ journal
        BY <2>2, <3>2
      <4>2. PICK e \in Callers : calls[e].did = d
        BY <1>1, <2>2, <4>1 DEF LogIsTrue
      <4> QED
        BY <1>2, <2>1, <4>1, <4>2
    <3> QED
      BY <3>1, <3>2
  <2>3. journal' \subseteq doneTo'
    BY <1>1 DEF LogIsTrue
  <2> QED
    BY <2>2, <2>3 DEF LogIsTrue
<1> QED
  BY <1>1, <1>2, <1>3, <1>4, <1>5

\* A deed that changes a row leaves its name, and a row that is removed stays so.
LEMMA DeedStep ==
  ASSUME AccountInv, NEW c \in Callers, NEW i \in AccountIds, NEW deed \in Deeds,
         NEW new \in RowsOfAccounts, calls[c].at = "open",
         new.name = calls[c].sees[i].name,
         calls[c].sees[i].removed => new.removed,
         CommitDeed(c, deed, i, new)
  PROVE  /\ accounts \in [AccountIds -> RowsOfAccounts]
         /\ calls[c].sees \in [AccountIds -> RowsOfAccounts]
         /\ ~overlapped => calls[c].sees = accounts
         /\ accounts' = [accounts EXCEPT ![i] = Flushed(accounts[i], calls[c].sees[i], new)]
         /\ Flushed(accounts[i], calls[c].sees[i], new) \in RowsOfAccounts
         /\ overlapped' = overlapped /\ cut' = cut
         /\ accounts' \in [AccountIds -> RowsOfAccounts] /\ calls' \in [Callers -> Call]
         /\ doneTo' \subseteq Deeds \X AccountIds
         /\ DeedsInv' /\ AloneSees' /\ OnePerName' /\ LogIsTrue'
<1> DEFINE sees == calls[c].sees[i]
           row == Flushed(accounts[i], sees, new)
<1>1. /\ accounts \in [AccountIds -> RowsOfAccounts] /\ calls \in [Callers -> Call]
      /\ AloneSees /\ OnePerName
  BY DEF AccountInv, AccountTypes, AccountsKept
<1>2. /\ calls[c].sees \in [AccountIds -> RowsOfAccounts]
      /\ accounts[i] \in RowsOfAccounts /\ sees \in RowsOfAccounts
      /\ ~overlapped => calls[c].sees = accounts
  BY <1>1 DEF Call, AloneSees
<1>3. /\ row \in RowsOfAccounts /\ row.name = accounts[i].name
      /\ accounts[i].removed => row.removed
  <2>1. /\ row \in RowsOfAccounts
        /\ row.name = IF new.name = sees.name THEN accounts[i].name ELSE new.name
        /\ row.removed = IF new.removed = sees.removed THEN accounts[i].removed ELSE new.removed
    BY <1>2, FlushedAccount
  <2>2. /\ new.removed \in BOOLEAN /\ sees.removed \in BOOLEAN
        /\ sees.removed => new.removed
    BY <1>2 DEF RowsOfAccounts
  <2>3. row.name = accounts[i].name
    BY <2>1
  <2> HIDE DEF row, sees
  <2>4. ASSUME new.removed = sees.removed PROVE accounts[i].removed => row.removed
    <3>1. row.removed = accounts[i].removed
      BY <2>1, <2>4
    <3> QED
      BY <3>1, Zenon
  <2>5. ASSUME new.removed # sees.removed PROVE accounts[i].removed => row.removed
    <3>1. row.removed = new.removed
      BY <2>1, <2>5
    <3>2. new.removed
      BY <2>2, <2>5, Zenon
    <3> QED
      BY <3>1, <3>2, Zenon
  <2> QED
    BY <2>1, <2>3, <2>4, <2>5
<1>4. /\ accounts' = [accounts EXCEPT ![i] = row]
      /\ doneTo' = doneTo \cup {<<deed, i>>}
      /\ calls' = [calls EXCEPT ![c].at = "done", ![c].did = <<deed, i>>]
      /\ journal' = journal /\ cut' = cut /\ overlapped' = overlapped
  BY DEF CommitDeed
<1>5. /\ calls' \in [Callers -> Call] /\ doneTo' \subseteq Deeds \X AccountIds
      /\ DeedsInv' /\ AloneSees' /\ LogIsTrue'
  BY <1>4, DoneStep
<1> HIDE DEF row
<1>6. accounts' \in [AccountIds -> RowsOfAccounts]
  BY <1>1, <1>3, <1>4
<1>7. OnePerName'
  <2>1. \A j \in AccountIds : /\ accounts'[j].name = accounts[j].name
                              /\ Exists(accounts', j) => Exists(accounts, j)
    BY <1>1, <1>3, <1>4 DEF Exists
  <2> QED
    BY <1>1, <2>1 DEF OnePerName
<1> QED
  BY <1>1, <1>2, <1>3, <1>4, <1>5, <1>6, <1>7 DEF row

\* What each operation keeps.
LEMMA SignedRequestStep ==
  ASSUME AccountInv, NEW c \in Callers, NEW i \in AccountIds, SignedRequest(c, i)
  PROVE  AccountInv'
<1>1. /\ AccountTypes /\ DeedsInv /\ AloneSees /\ AccountsKept
      /\ accounts' = accounts /\ journal' = journal /\ doneTo' = doneTo /\ cut' = cut
      /\ roleTaken' = roleTaken /\ calls[c].at = "idle"
      /\ overlapped' = (overlapped \/ \E d \in Callers \ {c} : calls[d].at # "idle")
      /\ calls' = [calls EXCEPT
             ![c] = [RestingCall EXCEPT !.at = "open", !.by = i, !.sees = accounts]]
  BY DEF AccountInv, SignedRequest
<1>2. /\ calls' \in [Callers -> Call]
      /\ calls'[c].at = "open" /\ calls'[c].by = i /\ calls'[c].sees = accounts
      /\ calls'[c].did = NoDeed
      /\ \A d \in Callers \ {c} : calls'[d] = calls[d]
  <2> DEFINE open == [RestingCall EXCEPT !.at = "open", !.by = i, !.sees = accounts]
  <2>1. i \in 0..MaxAccounts /\ accounts \in [AccountIds -> RowsOfAccounts]
    BY <1>1, AccountAssumption DEF AccountTypes, AccountIds
  <2>2. /\ open \in Call /\ open.at = "open" /\ open.by = i /\ open.sees = accounts
        /\ open.did = NoDeed
    BY <2>1, RowsThereAre DEF Call
  <2> HIDE DEF open
  <2> QED
    BY <1>1, <2>1, <2>2 DEF AccountTypes, open
<1>3. AccountTypes'
  BY <1>1, <1>2 DEF AccountTypes
<1>4. DeedsInv'
  BY <1>1, <1>2 DEF DeedsInv
<1>5. AloneSees'
  BY <1>1, <1>2 DEF AloneSees
<1>6. OnePerName' /\ AdminRemains'
  BY <1>1 DEF AccountsKept, OnePerName, AdminRemains, Exists, ActiveAdmins
<1>7. LogIsTrue'
  BY <1>1, <1>2 DEF AccountsKept, LogIsTrue, DeedsInv
<1> QED
  BY <1>3, <1>4, <1>5, <1>6, <1>7 DEF AccountInv, AccountsKept

LEMMA EndRequestStep ==
  ASSUME AccountInv, NEW c \in Callers, EndRequest(c)
  PROVE  AccountInv'
<1>1. /\ AccountTypes /\ DeedsInv /\ AloneSees /\ AccountsKept
      /\ accounts' = accounts /\ doneTo' = doneTo
      /\ roleTaken' = roleTaken /\ overlapped' = overlapped
      /\ calls' = [calls EXCEPT ![c] = RestingCall]
  BY DEF AccountInv, EndRequest
<1>2. \/ calls[c].at # "done" /\ journal' = journal /\ cut' = cut
      \/ calls[c].at = "done" /\ journal' = journal \cup {calls[c].did} /\ cut' = cut
      \/ cut' = TRUE /\ journal' = journal
  BY DEF EndRequest
<1>3. /\ calls' \in [Callers -> Call]
      /\ calls'[c].at = "idle" /\ calls'[c].did = NoDeed
      /\ \A d \in Callers \ {c} : calls'[d] = calls[d]
  BY <1>1, RowsThereAre DEF AccountTypes
<1>4. AccountTypes'
  BY <1>1, <1>3 DEF AccountTypes
<1>5. DeedsInv'
  BY <1>1, <1>3 DEF DeedsInv
<1>6. AloneSees'
  BY <1>1, <1>3 DEF AloneSees
<1>7. OnePerName' /\ AdminRemains'
  BY <1>1 DEF AccountsKept, OnePerName, AdminRemains, Exists, ActiveAdmins
<1>8. journal' \subseteq doneTo'
  BY <1>1, <1>2 DEF AccountsKept, LogIsTrue, DeedsInv
<1>9. ASSUME ~cut', NEW deed \in doneTo' \ journal'
      PROVE  \E d \in Callers : calls'[d].did = deed
  <2>1. ~cut /\ deed \in doneTo \ journal /\ deed # NoDeed
    <3>1. ~cut /\ deed \in doneTo \ journal
      BY <1>1, <1>2, <1>9
    <3>2. doneTo \subseteq Deeds \X AccountIds
      BY <1>1 DEF AccountTypes
    <3>3. NoDeed \notin Deeds \X AccountIds
      BY RowsThereAre
    <3> QED
      BY <3>1, <3>2, <3>3
  <2>2. PICK d \in Callers : calls[d].did = deed
    BY <1>1, <2>1 DEF AccountsKept, LogIsTrue
  <2>3. ASSUME d = c PROVE FALSE
    <3>1. calls[c].at = "done"
      BY <1>1, <2>1, <2>2, <2>3 DEF DeedsInv
    <3>2. journal' = journal \cup {calls[c].did}
      BY <1>2, <1>9, <3>1
    <3> QED
      BY <1>9, <2>2, <2>3, <3>2
  <2> QED
    BY <1>3, <2>2, <2>3
<1>10. LogIsTrue'
  BY <1>8, <1>9 DEF LogIsTrue
<1> QED
  BY <1>4, <1>5, <1>6, <1>7, <1>10 DEF AccountInv, AccountsKept

LEMMA StartServerStep ==
  ASSUME AccountInv, StartServer
  PROVE  AccountInv'
<1>1. /\ AccountTypes /\ DeedsInv /\ AccountsKept
      /\ accounts' = WithFirstAdmin(accounts) /\ \E i \in AccountIds : accounts[i] = NoAccount
      /\ journal' = journal /\ doneTo' = doneTo
      /\ roleTaken' = roleTaken /\ overlapped' = overlapped
      /\ cut' = (cut \/ \E c \in Callers : calls[c].at = "done")
      /\ calls' = [c \in Callers |-> RestingCall]
  BY DEF AccountInv, StartServer
<1>2. /\ accounts' \in [AccountIds -> RowsOfAccounts]
      /\ OnePerName' /\ ActiveAdmins(accounts) \subseteq ActiveAdmins(accounts')
  <2>1. accounts \in [AccountIds -> RowsOfAccounts] /\ OnePerName
    BY <1>1 DEF AccountTypes, AccountsKept
  <2>2. accounts' \in [AccountIds -> RowsOfAccounts]
    BY <1>1, <2>1, FirstAdminIs
  <2>3. CASE accounts' = accounts
    BY <2>1, <2>2, <2>3 DEF OnePerName, Exists
  <2>4. CASE accounts' # accounts
    <3>1. PICK i \in AccountIds :
             /\ ~NameTaken(accounts, FirstAdmin) /\ accounts[i] = NoAccount
             /\ accounts' = [accounts EXCEPT ![i] = NewAccount(FirstAdmin, "admin", "")]
      BY <1>1, <2>1, <2>4, FirstAdminIs
    <3>2. /\ NewAccount(FirstAdmin, "admin", "") \in RowsOfAccounts
          /\ NewAccount(FirstAdmin, "admin", "").name = FirstAdmin
      BY RowsThereAre, AccountAssumption DEF Roles, Depts
    <3> HIDE <3>1
    <3> QED
      BY <2>1, <2>2, <3>1, <3>2, NewRow DEF OnePerName
  <2> QED
    BY <2>3, <2>4
<1>3. AdminRemains'
  BY <1>1, <1>2 DEF AccountsKept, AdminRemains
<1>4. /\ calls' \in [Callers -> Call]
      /\ \A c \in Callers : calls'[c].at = "idle" /\ calls'[c].did = NoDeed
  BY <1>1, RowsThereAre
<1>5. AccountTypes' /\ DeedsInv' /\ AloneSees'
  BY <1>1, <1>2, <1>4 DEF AccountTypes, DeedsInv, AloneSees
<1>6. LogIsTrue'
  <2>1. NoDeed \notin doneTo
    BY <1>1, RowsThereAre DEF AccountTypes
  <2>2. cut' \/ doneTo' \ journal' = {}
    BY <1>1, <2>1 DEF AccountsKept, LogIsTrue, DeedsInv
  <2> QED
    BY <1>1, <2>2 DEF AccountsKept, LogIsTrue
<1> QED
  BY <1>2, <1>3, <1>5, <1>6 DEF AccountInv, AccountsKept

LEMMA RegisterUserStep ==
  ASSUME AccountInv, NEW c \in Callers, NEW name \in Persons, NEW role \in Roles,
         NEW dept \in Depts, RegisterUser(c, name, role, dept)
  PROVE  AccountInv'
<1>1. /\ AccountTypes /\ AccountsKept /\ calls[c].at = "open" /\ ~NameTaken(accounts, name)
      /\ journal' = journal /\ cut' = cut
      /\ roleTaken' = roleTaken /\ overlapped' = overlapped
  BY DEF AccountInv, RegisterUser
<1>2. PICK i \in AccountIds :
         /\ accounts[i] = NoAccount
         /\ accounts' = [accounts EXCEPT ![i] = NewAccount(name, role, dept)]
         /\ doneTo' = doneTo \cup {<<"register", i>>}
         /\ calls' = [calls EXCEPT ![c].at = "done", ![c].did = <<"register", i>>]
  BY DEF RegisterUser, Fresh
<1>3. /\ NewAccount(name, role, dept) \in RowsOfAccounts
      /\ NewAccount(name, role, dept).name = name
  BY DEF NewAccount, NoAccount, RowsOfAccounts, Roles, Depts
<1>4. /\ calls' \in [Callers -> Call] /\ doneTo' \subseteq Deeds \X AccountIds
      /\ DeedsInv' /\ AloneSees' /\ LogIsTrue'
  <2>1. "register" \in Deeds
    BY DEF Deeds
  <2> QED
    BY <1>1, <1>2, <2>1, DoneStep
<1>5. /\ accounts' \in [AccountIds -> RowsOfAccounts]
      /\ OnePerName' /\ ActiveAdmins(accounts) \subseteq ActiveAdmins(accounts')
  <2>1. accounts \in [AccountIds -> RowsOfAccounts] /\ OnePerName
    BY <1>1 DEF AccountTypes, AccountsKept
  <2>2. accounts' \in [AccountIds -> RowsOfAccounts]
    BY <1>2, <1>3, <2>1
  <2> QED
    BY <1>1, <1>2, <1>3, <2>1, <2>2, NewRow DEF OnePerName
<1>6. AdminRemains'
  BY <1>1, <1>5 DEF AccountsKept, AdminRemains
<1> QED
  BY <1>4, <1>5, <1>6 DEF AccountInv, AccountTypes, AccountsKept

\* A deed that takes nothing a manager needs leaves whoever can manage the accounts.
LEMMA HarmlessDeed ==
  ASSUME AccountInv, NEW c \in Callers, NEW i \in AccountIds, NEW deed \in Deeds,
         NEW new \in RowsOfAccounts, calls[c].at = "open",
         new.name = calls[c].sees[i].name, new.removed = calls[c].sees[i].removed,
         new.active = calls[c].sees[i].active, CommitDeed(c, deed, i, new),
         \/ roleTaken' = roleTaken /\ new.role = calls[c].sees[i].role
         \/ roleTaken' = (roleTaken \/ (accounts[i].role = "admin"
                                           /\ accounts'[i].role # "admin"))
  PROVE  AccountInv'
<1> DEFINE row == Flushed(accounts[i], calls[c].sees[i], new)
<1>1. calls[c].sees[i].removed => new.removed
  BY Zenon
<1>2. /\ accounts \in [AccountIds -> RowsOfAccounts]
      /\ calls[c].sees \in [AccountIds -> RowsOfAccounts]
      /\ accounts' = [accounts EXCEPT ![i] = row]
      /\ row \in RowsOfAccounts /\ overlapped' = overlapped
      /\ accounts' \in [AccountIds -> RowsOfAccounts] /\ calls' \in [Callers -> Call]
      /\ doneTo' \subseteq Deeds \X AccountIds
      /\ DeedsInv' /\ AloneSees' /\ OnePerName' /\ LogIsTrue'
  BY <1>1, DeedStep
<1>3. /\ row.name = accounts[i].name /\ row.removed = accounts[i].removed
      /\ row.active = accounts[i].active
      /\ new.role = calls[c].sees[i].role => row.role = accounts[i].role
  BY <1>2, FlushedAccount
<1> HIDE DEF row
<1>4. AdminRemains'
  <2> SUFFICES ASSUME ~overlapped', ~roleTaken' PROVE ActiveAdmins(accounts') # {}
    BY DEF AdminRemains
  <2>1. ~roleTaken /\ (accounts[i].role = "admin" => row.role = "admin")
    <3>1. accounts'[i] = row
      BY <1>2
    <3>2. CASE roleTaken' = roleTaken /\ new.role = calls[c].sees[i].role
      BY <1>3, <3>2, Zenon
    <3>3. CASE roleTaken' = (roleTaken \/ (accounts[i].role = "admin"
                                              /\ accounts'[i].role # "admin"))
      BY <3>1, <3>3, Zenon
    <3> QED
      BY <3>2, <3>3, Zenon
  <2>2. accounts[i].active => row.active
    BY <1>3, Zenon
  <2>3. ActiveAdmins(accounts) \subseteq ActiveAdmins(accounts')
    BY <1>2, <1>3, <2>1, <2>2, AdminsStay
  <2> QED
    BY <1>2, <2>1, <2>3 DEF AccountInv, AccountsKept, AdminRemains
<1> QED
  BY <1>2, <1>4 DEF AccountInv, AccountTypes, AccountsKept

LEMMA UpdateRoleStep ==
  ASSUME AccountInv, NEW c \in Callers, NEW i \in AccountIds, NEW role \in Roles,
         NEW dept \in Depts, UpdateRole(c, i, role, dept)
  PROVE  AccountInv'
<1> DEFINE new == [calls[c].sees[i] EXCEPT !.role = role, !.dept = dept]
<1>1. calls[c].sees[i] \in RowsOfAccounts
  BY DEF AccountInv, AccountTypes, Call
<1>2. /\ new \in RowsOfAccounts /\ new.name = calls[c].sees[i].name
      /\ new.removed = calls[c].sees[i].removed /\ new.active = calls[c].sees[i].active
  BY <1>1 DEF RowsOfAccounts
<1>3. /\ calls[c].at = "open" /\ CommitDeed(c, "role", i, new) /\ "role" \in Deeds
      /\ roleTaken' = (roleTaken \/ (accounts[i].role = "admin"
                                        /\ accounts'[i].role # "admin"))
  BY DEF UpdateRole, Deeds
<1> HIDE DEF new
<1> QED
  BY <1>2, <1>3, HarmlessDeed

LEMMA UpdateProfileStep ==
  ASSUME AccountInv, NEW c \in Callers, NEW dept \in Depts, UpdateProfile(c, dept)
  PROVE  AccountInv'
<1> DEFINE i == calls[c].by
           new == [calls[c].sees[i] EXCEPT !.dept = dept]
<1>1. /\ calls[c].at = "open" /\ CommitDeed(c, "profile", i, new) /\ "profile" \in Deeds
      /\ roleTaken' = roleTaken
  BY DEF UpdateProfile, Deeds
<1>2. i \in AccountIds /\ calls[c].sees[i] \in RowsOfAccounts
  BY <1>1 DEF AccountInv, AccountTypes, DeedsInv, Call
<1>3. /\ new \in RowsOfAccounts /\ new.name = calls[c].sees[i].name
      /\ new.removed = calls[c].sees[i].removed /\ new.active = calls[c].sees[i].active
      /\ new.role = calls[c].sees[i].role
  BY <1>2 DEF RowsOfAccounts
<1> HIDE DEF new, i
<1> QED
  BY <1>1, <1>2, <1>3, HarmlessDeed

\* A deed that may take a manager away is done to one who is not the last the request sees, and
\* a request that is alone sees them all.
LEMMA GuardedDeed ==
  ASSUME AccountInv, NEW c \in Callers, NEW i \in AccountIds, NEW deed \in Deeds,
         NEW new \in RowsOfAccounts, calls[c].at = "open",
         new.name = calls[c].sees[i].name, calls[c].sees[i].removed => new.removed,
         CommitDeed(c, deed, i, new), roleTaken' = roleTaken, ~LastAdmin(c, i)
  PROVE  AccountInv'
<1> DEFINE row == Flushed(accounts[i], calls[c].sees[i], new)
<1>1. /\ accounts \in [AccountIds -> RowsOfAccounts]
      /\ accounts' = [accounts EXCEPT ![i] = row]
      /\ row \in RowsOfAccounts /\ overlapped' = overlapped
      /\ ~overlapped => calls[c].sees = accounts
      /\ accounts' \in [AccountIds -> RowsOfAccounts] /\ calls' \in [Callers -> Call]
      /\ doneTo' \subseteq Deeds \X AccountIds
      /\ DeedsInv' /\ AloneSees' /\ OnePerName' /\ LogIsTrue'
  BY DeedStep
<1> HIDE DEF row
<1>2. AdminRemains'
  <2> SUFFICES ASSUME ~overlapped', ~roleTaken' PROVE ActiveAdmins(accounts') # {}
    BY DEF AdminRemains
  <2>1. ActiveAdmins(accounts) # {} /\ calls[c].sees = accounts
    BY <1>1 DEF AccountInv, AccountsKept, AdminRemains
  <2>2. ActiveAdmins(accounts) \ {i} # {}
    BY <1>1, <2>1, AnotherAdmin DEF LastAdmin
  <2>3. ActiveAdmins(accounts) \ {i} \subseteq ActiveAdmins(accounts')
    BY <1>1, AdminsStay
  <2> QED
    BY <2>2, <2>3
<1> QED
  BY <1>1, <1>2 DEF AccountInv, AccountTypes, AccountsKept

LEMMA SetStatusStep ==
  ASSUME AccountInv, NEW c \in Callers, NEW i \in AccountIds, NEW active \in BOOLEAN,
         SetStatus(c, i, active)
  PROVE  AccountInv'
<1> DEFINE new == [calls[c].sees[i] EXCEPT !.active = active]
<1>1. calls[c].sees[i] \in RowsOfAccounts
  BY DEF AccountInv, AccountTypes, Call
<1>2. /\ new \in RowsOfAccounts /\ new.name = calls[c].sees[i].name
      /\ new.removed = calls[c].sees[i].removed /\ new.active = active
      /\ new.role = calls[c].sees[i].role
  BY <1>1 DEF RowsOfAccounts
<1>3. /\ calls[c].at = "open" /\ CommitDeed(c, "status", i, new) /\ "status" \in Deeds
      /\ active \/ ~LastAdmin(c, i)
      /\ roleTaken' = roleTaken
  BY DEF SetStatus, Deeds
<1> HIDE DEF new
<1>4. calls[c].sees[i].removed => new.removed
  BY <1>2, Zenon
<1>5. CASE ~LastAdmin(c, i)
  BY <1>2, <1>3, <1>4, <1>5, GuardedDeed
<1>6. CASE active
  <2> DEFINE row == Flushed(accounts[i], calls[c].sees[i], new)
  <2>1. /\ accounts \in [AccountIds -> RowsOfAccounts]
        /\ accounts' = [accounts EXCEPT ![i] = row]
        /\ row \in RowsOfAccounts /\ overlapped' = overlapped
        /\ ~overlapped => calls[c].sees = accounts
        /\ accounts' \in [AccountIds -> RowsOfAccounts] /\ calls' \in [Callers -> Call]
        /\ doneTo' \subseteq Deeds \X AccountIds
        /\ DeedsInv' /\ AloneSees' /\ OnePerName' /\ LogIsTrue'
    BY <1>2, <1>3, <1>4, DeedStep
  <2> HIDE DEF row
  <2>2. ASSUME ~overlapped
        PROVE  /\ row.name = accounts[i].name /\ row.removed = accounts[i].removed
               /\ row.role = accounts[i].role /\ row.active
    <3>1. calls[c].sees[i] = accounts[i]
      BY <2>1, <2>2
    <3>2. /\ row.name = accounts[i].name /\ row.removed = accounts[i].removed
          /\ row.role = accounts[i].role
          /\ row.active = IF new.active = accounts[i].active THEN accounts[i].active
                          ELSE new.active
      BY <1>1, <1>2, <2>1, <3>1, FlushedAccount DEF row
    <3>3. row.active = active
      BY <1>2, <3>2, Zenon
    <3> QED
      BY <1>6, <3>2, <3>3, Zenon
  <2>3. AdminRemains'
    <3> SUFFICES ASSUME ~overlapped', ~roleTaken' PROVE ActiveAdmins(accounts') # {}
      BY DEF AdminRemains
    <3>1. ~overlapped /\ ActiveAdmins(accounts) # {}
      BY <1>3, <2>1 DEF AccountInv, AccountsKept, AdminRemains
    <3>2. ActiveAdmins(accounts) \subseteq ActiveAdmins(accounts')
      BY <2>1, <2>2, <3>1, AdminsStay
    <3> QED
      BY <3>1, <3>2
  <2> QED
    BY <2>1, <2>3 DEF AccountInv, AccountTypes, AccountsKept
<1> QED
  BY <1>3, <1>5, <1>6

LEMMA DeleteUserStep ==
  ASSUME AccountInv, NEW c \in Callers, NEW i \in AccountIds, DeleteUser(c, i)
  PROVE  AccountInv'
<1> DEFINE new == [calls[c].sees[i] EXCEPT !.removed = TRUE]
<1>1. calls[c].sees[i] \in RowsOfAccounts
  BY DEF AccountInv, AccountTypes, Call
<1>2. new \in RowsOfAccounts /\ new.name = calls[c].sees[i].name /\ new.removed
  BY <1>1 DEF RowsOfAccounts
<1>3. /\ calls[c].at = "open" /\ CommitDeed(c, "delete", i, new) /\ "delete" \in Deeds
      /\ ~LastAdmin(c, i) /\ roleTaken' = roleTaken
  BY DEF DeleteUser, Deeds
<1> HIDE DEF new
<1> QED
  BY <1>2, <1>3, GuardedDeed

\* No two accounts have one name; somebody can manage the accounts for as long as requests come
\* one after another and no role is given away; and the log tells of what was done, whatever the
\* requests that overlap and whenever the server is started.
THEOREM AccountsStayKept == AccountsSpec => []AccountsKept
<1>1. AccountsInit => AccountInv
  <2> SUFFICES ASSUME AccountsInit PROVE AccountInv
    OBVIOUS
  <2> DEFINE none == [i \in AccountIds |-> NoAccount]
  <2>1. /\ accounts = WithFirstAdmin(none)
        /\ calls = [c \in Callers |-> RestingCall] /\ journal = {} /\ doneTo = {}
    BY DEF AccountsInit
  <2>2. /\ none \in [AccountIds -> RowsOfAccounts] /\ 1 \in AccountIds
        /\ \A i \in AccountIds : none[i] = NoAccount
    <3>1. 1 \in AccountIds
      BY AccountAssumption DEF AccountIds
    <3>2. NoAccount \in RowsOfAccounts
      BY RowsThereAre
    <3> QED
      BY <3>1, <3>2
  <2> HIDE DEF none
  <2>3. ~NameTaken(none, FirstAdmin)
    BY <2>2, RowsThereAre DEF NameTaken, Exists
  <2>4. /\ NewAccount(FirstAdmin, "admin", "") \in RowsOfAccounts
        /\ NewAccount(FirstAdmin, "admin", "").name = FirstAdmin
        /\ NewAccount(FirstAdmin, "admin", "").role = "admin"
        /\ NewAccount(FirstAdmin, "admin", "").active
        /\ ~NewAccount(FirstAdmin, "admin", "").removed
    <3>1. "admin" \in Roles /\ "" \in Depts /\ FirstAdmin \in Persons
      BY AccountAssumption DEF Roles, Depts
    <3> QED
      BY <3>1, RowsThereAre, Zenon
  <2>5. PICK i \in AccountIds :
           accounts = [none EXCEPT ![i] = NewAccount(FirstAdmin, "admin", "")]
    BY <2>1, <2>2, <2>3 DEF WithFirstAdmin
  <2>6. accounts \in [AccountIds -> RowsOfAccounts]
    BY <2>2, <2>4, <2>5
  <2>7. OnePerName
    BY <2>2, <2>5, RowsThereAre DEF OnePerName, Exists
  <2>8. i \in ActiveAdmins(accounts)
    BY <2>2, <2>4, <2>5 DEF ActiveAdmins, Exists, FirstAdmin
  <2>9. /\ calls \in [Callers -> Call]
        /\ \A c \in Callers : calls[c].at = "idle" /\ calls[c].did = NoDeed
    BY <2>1, RowsThereAre
  <2> QED
    BY <2>1, <2>6, <2>7, <2>8, <2>9
       DEF AccountInv, AccountTypes, DeedsInv, AloneSees, AccountsKept, AdminRemains, LogIsTrue
<1>2. AccountInv /\ [AccountsNext]_accountVars => AccountInv'
  <2> SUFFICES ASSUME AccountInv, [AccountsNext]_accountVars PROVE AccountInv'
    OBVIOUS
  <2>1. CASE UNCHANGED accountVars
    BY <2>1 DEF accountVars, AccountInv, AccountTypes, DeedsInv, AloneSees, AccountsKept,
                OnePerName, AdminRemains, LogIsTrue, Exists, ActiveAdmins
  <2>2. ASSUME NEW c \in Callers, EndRequest(c) PROVE AccountInv'
    BY <2>2, EndRequestStep
  <2>3. ASSUME NEW c \in Callers, NEW i \in AccountIds,
               SignedRequest(c, i) \/ DeleteUser(c, i)
        PROVE  AccountInv'
    BY <2>3, SignedRequestStep, DeleteUserStep
  <2>4. ASSUME NEW c \in Callers, NEW i \in AccountIds, NEW active \in BOOLEAN,
               SetStatus(c, i, active)
        PROVE  AccountInv'
    BY <2>4, SetStatusStep
  <2>5. ASSUME NEW c \in Callers, NEW i \in AccountIds, NEW role \in Roles, NEW dept \in Depts,
               UpdateRole(c, i, role, dept)
        PROVE  AccountInv'
    BY <2>5, UpdateRoleStep
  <2>6. ASSUME NEW c \in Callers, NEW name \in Persons, NEW role \in Roles,
               RegisterUser(c, name, role, "")
        PROVE  AccountInv'
    <3>1. "" \in Depts
      BY DEF Depts
    <3> QED
      BY <2>6, <3>1, RegisterUserStep
  <2>7. ASSUME NEW c \in Callers, NEW dept \in Depts, UpdateProfile(c, dept)
        PROVE  AccountInv'
    BY <2>7, UpdateProfileStep
  <2>8. CASE StartServer
    BY <2>8, StartServerStep
  <2> QED
    BY <2>1, <2>2, <2>3, <2>4, <2>5, <2>6, <2>7, <2>8, Zenon DEF AccountsNext
<1>3. AccountInv => AccountsKept
  BY DEF AccountInv
<1> QED
  BY <1>1, <1>2, <1>3, PTL DEF AccountsSpec

-----------------------------------------------------------------------------
(* The debate of the experts.                                              *)

Opinions == Sayings \cup {Unheard, FailedSaying}

\* What the judge should see of an expert.
LastWord(e) == IF lastSpoke[e] = Unheard THEN FailedSaying ELSE lastSpoke[e]

DebateTypes ==
    /\ debate \in [at : {"rest", "speaking", "judged", "over", "broken"}, round : {1, 2},
                   asker : {"route"} \cup DebateGrades]
    /\ expertAt \in [Experts -> {"rest", "begun", "searching", "thinking", "done"}]
    /\ firstSaid \in [Experts -> Opinions] /\ saidNow \in [Experts -> Opinions]
    /\ lastSpoke \in [Experts -> Sayings \cup {Unheard}]

\* Nobody is at work but while they speak, and nothing was decided before the end.
SpeakersInv ==
    /\ debate.at = "rest" => debate.round = 1 /\ \A e \in Experts : lastSpoke[e] = Unheard
    /\ debate.at # "speaking" => \A e \in Experts : expertAt[e] \in {"rest", "done"}
    /\ debate.at \in {"speaking", "judged"} => NeedsExperts(debate.asker)
    /\ debate.at # "over" => ruling = NoRuling

\* Who has ended is heard with his last word, and until then with that of the round before.
HeardInv ==
    \A e \in Experts :
        /\ debate.at = "speaking" /\ expertAt[e] = "done" => saidNow[e] = LastWord(e)
        /\ debate.at = "speaking" /\ debate.round = 1 /\ expertAt[e] # "done"
              => lastSpoke[e] = Unheard
        /\ debate.round = 2 => firstSaid[e] \in Sayings /\ lastSpoke[e] \in Sayings
        /\ debate.at = "speaking" /\ debate.round = 2 /\ expertAt[e] # "done"
              => lastSpoke[e] = firstSaid[e]
        /\ debate.at = "judged" /\ debate.round = 1 => firstSaid[e] = saidNow[e]

DebateInv == DebateTypes /\ SpeakersInv /\ HeardInv /\ DebateKept

LEMMA OpinionsDiffer ==
  /\ Unheard \notin Sayings /\ FailedSaying \notin Sayings /\ Unheard # FailedSaying
  /\ FailedSaying.causes = {} /\ Unheard.causes = {}
<1>1. Unheard.failed /\ FailedSaying.failed /\ ~Unheard.sums /\ FailedSaying.sums
  BY DEF Unheard, FailedSaying
<1>2. Unheard # FailedSaying
  BY <1>1, Zenon
<1>3. Unheard \notin Sayings /\ FailedSaying \notin Sayings
  BY <1>1, DebateAssumption, Zenon
<1>4. FailedSaying.causes = {} /\ Unheard.causes = {}
  BY DEF Unheard, FailedSaying
<1> QED
  BY <1>2, <1>3, <1>4

\* While experts speak the verdict is not there, so what is said of it holds.
LEMMA SpeakingKept ==
  ASSUME DebateInv, debate.at = "speaking", DebateTypes', SpeakersInv', HeardInv',
         debate'.at # "over", debate'.round = 2 => \A e \in Experts : firstSaid'[e] \in Sayings,
         debate'.at = "judged" => \A e \in Experts : saidNow'[e] = LastWord(e)'
  PROVE  DebateInv'
<1>1. ruling' = NoRuling
  BY DEF SpeakersInv
<1>2. JudgedIsLastSaid'
  BY DEF JudgedIsLastSaid, LastWord
<1>3. TwiceIfAllSpoke'
  BY OpinionsDiffer DEF TwiceIfAllSpoke
<1>4. ~NoRuling.degraded /\ ~NoRuling.raised /\ NoRuling.from = "nobody"
  BY DEF NoRuling
<1>5. DegradedIsShort' /\ RaisedWithReason' /\ ExpertMeantIt'
  BY <1>1, <1>4 DEF DegradedIsShort, RaisedWithReason, ExpertMeantIt
<1> QED
  BY <1>2, <1>3, <1>5 DEF DebateInv, DebateKept

\* An expert goes on, or ends with what he says, or fails.
LEMMA ExpertStep ==
  ASSUME DebateInv, NEW e \in Experts, expertAt[e] \in {"begun", "searching", "thinking"},
         UNCHANGED <<debate, firstSaid, ruling>>,
         \/ /\ \E where \in {"searching", "thinking"} :
                  expertAt' = [expertAt EXCEPT ![e] = where]
            /\ UNCHANGED <<saidNow, lastSpoke>>
         \/ \E s \in Sayings \cup {FailedSaying} : SpeaksOut(e, s)
  PROVE  DebateInv'
<1>1. /\ DebateTypes /\ SpeakersInv /\ HeardInv /\ debate' = debate /\ firstSaid' = firstSaid
      /\ ruling' = ruling
  BY DEF DebateInv
<1>2. debate.at = "speaking"
  BY <1>1 DEF SpeakersInv
<1>3. CASE /\ \E where \in {"searching", "thinking"} :
                 expertAt' = [expertAt EXCEPT ![e] = where]
           /\ UNCHANGED <<saidNow, lastSpoke>>
  <2>1. DebateTypes'
    BY <1>1, <1>3 DEF DebateTypes
  <2>2. SpeakersInv'
    BY <1>1, <1>2, <1>3 DEF SpeakersInv
  <2>3. HeardInv'
    BY <1>1, <1>2, <1>3 DEF HeardInv, DebateTypes, LastWord
  <2> QED
    BY <1>1, <1>2, <2>1, <2>2, <2>3, SpeakingKept DEF HeardInv
<1>4. ASSUME NEW s \in Sayings \cup {FailedSaying}, SpeaksOut(e, s)
      PROVE  DebateInv'
  <2>1. /\ expertAt' = [expertAt EXCEPT ![e] = "done"]
        /\ saidNow' = [saidNow EXCEPT ![e] = IF s # FailedSaying THEN s
               ELSE IF debate.round = 2 THEN firstSaid[e] ELSE FailedSaying]
        /\ lastSpoke' = IF s = FailedSaying THEN lastSpoke
                        ELSE [lastSpoke EXCEPT ![e] = s]
    BY <1>4 DEF SpeaksOut
  <2>2. DebateTypes'
    BY <1>1, <2>1 DEF DebateTypes, Opinions
  <2>3. SpeakersInv'
    BY <1>1, <1>2, <2>1, <2>2 DEF SpeakersInv, DebateTypes
  <2>4. /\ expertAt'[e] = "done" /\ expertAt[e] # "done"
        /\ s = FailedSaying => lastSpoke'[e] = lastSpoke[e]
        /\ s # FailedSaying => lastSpoke'[e] = s /\ s \in Sayings /\ saidNow'[e] = s
        /\ s = FailedSaying => saidNow'[e] = IF debate.round = 2 THEN firstSaid[e]
                                             ELSE FailedSaying
        /\ \A o \in Experts \ {e} : /\ expertAt'[o] = expertAt[o] /\ saidNow'[o] = saidNow[o]
                                    /\ lastSpoke'[o] = lastSpoke[o]
    BY <1>1, <2>1 DEF DebateTypes
  <2>5. saidNow'[e] = LastWord(e)'
    <3>1. CASE s # FailedSaying
      BY <2>4, <3>1, OpinionsDiffer DEF LastWord
    <3>2. CASE s = FailedSaying /\ debate.round = 2
      BY <1>1, <1>2, <2>4, <3>2, OpinionsDiffer DEF LastWord, HeardInv
    <3>3. CASE s = FailedSaying /\ debate.round # 2
      BY <1>1, <1>2, <2>4, <3>3 DEF LastWord, HeardInv, DebateTypes
    <3> QED
      BY <3>1, <3>2, <3>3
  <2>6. HeardInv'
    BY <1>1, <1>2, <2>4, <2>5 DEF HeardInv, LastWord
  <2> QED
    BY <1>1, <1>2, <2>2, <2>3, <2>6, SpeakingKept DEF HeardInv
<1> QED
  BY <1>3, <1>4

LEMMA WeighStep ==
  ASSUME DebateInv, Weigh
  PROVE  DebateInv'
<1>1. /\ DebateTypes /\ SpeakersInv /\ HeardInv
      /\ debate.at = "speaking" /\ debate.round = 1
      /\ \A e \in Experts : expertAt[e] = "done" /\ firstSaid'[e] = saidNow[e]
      /\ firstSaid' = saidNow
      /\ saidNow' = saidNow /\ lastSpoke' = lastSpoke /\ ruling' = ruling
  BY DEF DebateInv, Weigh
<1>2. \A e \in Experts : saidNow[e] = LastWord(e)
  BY <1>1 DEF HeardInv
<1>3. CASE /\ Split(saidNow) /\ debate' = [debate EXCEPT !.round = 2]
           /\ expertAt' = [e \in Experts |-> "begun"]
  <2>1. debate' \in [at : {"rest", "speaking", "judged", "over", "broken"}, round : {1, 2},
                     asker : {"route"} \cup DebateGrades]
        /\ debate'.at = "speaking" /\ debate'.round = 2 /\ debate'.asker = debate.asker
    BY <1>1, <1>3 DEF DebateTypes
  <2>2. DebateTypes'
    BY <1>1, <1>3, <2>1 DEF DebateTypes
  <2>3. \A e \in Experts : saidNow[e] \in Sayings /\ saidNow[e] = lastSpoke[e]
    <3>1. \A e \in Experts : saidNow[e].causes # {}
      BY <1>3 DEF Split
    <3> QED
      BY <1>1, <1>2, <3>1, OpinionsDiffer DEF DebateTypes, Opinions, LastWord
  <2>4. SpeakersInv'
    BY <1>1, <2>1 DEF SpeakersInv
  <2>5. HeardInv'
    BY <1>1, <1>3, <2>1, <2>3 DEF HeardInv
  <2> QED
    BY <1>1, <2>1, <2>2, <2>3, <2>4, <2>5, SpeakingKept
<1>4. CASE /\ debate' \in {[debate EXCEPT !.at = "judged"], [debate EXCEPT !.at = "broken"]}
           /\ expertAt' = expertAt
  <2>1. debate' \in [at : {"rest", "speaking", "judged", "over", "broken"}, round : {1, 2},
                     asker : {"route"} \cup DebateGrades]
        /\ debate'.at \in {"judged", "broken"} /\ debate'.round = 1
        /\ debate'.asker = debate.asker
    BY <1>1, <1>4 DEF DebateTypes
  <2>2. DebateTypes'
    BY <1>1, <1>4, <2>1 DEF DebateTypes
  <2>3. SpeakersInv'
    BY <1>1, <1>4, <2>1 DEF SpeakersInv
  <2>4. HeardInv'
    BY <1>1, <2>1 DEF HeardInv
  <2>5. \A e \in Experts : saidNow'[e] = LastWord(e)'
    BY <1>1, <1>2 DEF LastWord
  <2> QED
    BY <1>1, <2>1, <2>2, <2>3, <2>4, <2>5, SpeakingKept
<1> QED
  BY <1>3, <1>4 DEF Weigh

LEMMA EndSecondRoundStep ==
  ASSUME DebateInv, EndSecondRound
  PROVE  DebateInv'
<1>1. /\ DebateTypes /\ SpeakersInv /\ HeardInv
      /\ debate.at = "speaking" /\ debate.round = 2
      /\ \A e \in Experts : expertAt[e] = "done" /\ saidNow[e] = LastWord(e)
      /\ debate' = [debate EXCEPT !.at = "judged"]
      /\ UNCHANGED <<expertAt, firstSaid, saidNow, lastSpoke, ruling>>
  BY DEF DebateInv, EndSecondRound, HeardInv
<1>2. debate' \in [at : {"rest", "speaking", "judged", "over", "broken"}, round : {1, 2},
                   asker : {"route"} \cup DebateGrades]
      /\ debate'.at = "judged" /\ debate'.round = 2 /\ debate'.asker = debate.asker
  BY <1>1 DEF DebateTypes
<1>3. DebateTypes'
  BY <1>1, <1>2 DEF DebateTypes
<1>4. SpeakersInv'
  BY <1>1, <1>2 DEF SpeakersInv
<1>5. HeardInv'
  BY <1>1, <1>2 DEF HeardInv
<1>6. \A e \in Experts : saidNow'[e] = LastWord(e)'
  BY <1>1 DEF LastWord
<1> QED
  BY <1>1, <1>2, <1>3, <1>4, <1>5, <1>6, SpeakingKept DEF HeardInv

LEMMA AskExpertsStep ==
  ASSUME DebateInv, NEW asker \in {"route"} \cup DebateGrades, AskExperts(asker)
  PROVE  DebateInv'
<1>1. /\ DebateTypes /\ SpeakersInv /\ HeardInv /\ debate.at = "rest" /\ debate.round = 1
      /\ ruling = NoRuling /\ UNCHANGED <<firstSaid, saidNow, lastSpoke, ruling>>
      /\ \A e \in Experts : lastSpoke[e] = Unheard
  BY DEF DebateInv, AskExperts, SpeakersInv
<1>2. CASE /\ NeedsExperts(asker)
           /\ debate' = [at |-> "speaking", round |-> 1, asker |-> asker]
           /\ expertAt' = [e \in Experts |-> "begun"]
  BY <1>1, <1>2 DEF DebateTypes, SpeakersInv, HeardInv, DebateInv, DebateKept,
       JudgedIsLastSaid, TwiceIfAllSpoke, DegradedIsShort, RaisedWithReason, ExpertMeantIt,
       NoRuling
<1>3. CASE debate' = [debate EXCEPT !.at = "over", !.asker = asker] /\ expertAt' = expertAt
  <2>1. debate' \in [at : {"rest", "speaking", "judged", "over", "broken"}, round : {1, 2},
                     asker : {"route"} \cup DebateGrades]
        /\ debate'.at = "over" /\ debate'.round = 1
    BY <1>1, <1>3 DEF DebateTypes
  <2> QED
    BY <1>1, <1>3, <2>1 DEF DebateTypes, SpeakersInv, HeardInv, DebateInv, DebateKept,
         JudgedIsLastSaid, TwiceIfAllSpoke, DegradedIsShort, RaisedWithReason, ExpertMeantIt,
         NoRuling
<1> QED
  BY <1>2, <1>3 DEF AskExperts

LEMMA JudgeDecidesStep ==
  ASSUME DebateInv, JudgeDecides
  PROVE  DebateInv'
<1>1. /\ DebateTypes /\ SpeakersInv /\ HeardInv /\ JudgedIsLastSaid /\ TwiceIfAllSpoke
      /\ debate.at = "judged" /\ debate' = [debate EXCEPT !.at = "over"]
      /\ UNCHANGED <<expertAt, firstSaid, saidNow, lastSpoke>>
  BY DEF DebateInv, DebateKept, JudgeDecides
<1>2. PICK who \in {"judge", "rules"}, s \in Opinions :
         /\ ruling' = [from |-> who, saying |-> s, raised |-> debate.asker # "route" /\ s.sums,
                       degraded |-> \E e \in Experts : firstSaid[e] = FailedSaying]
         /\ who = "rules" => s = saidNow["rules"]
  <2>1. saidNow["rules"] \in Opinions /\ Sayings \subseteq Opinions
    BY <1>1 DEF DebateTypes, Experts, Opinions
  <2> QED
    BY <2>1 DEF JudgeDecides
<1>3. debate' \in [at : {"rest", "speaking", "judged", "over", "broken"}, round : {1, 2},
                   asker : {"route"} \cup DebateGrades]
      /\ debate'.at = "over" /\ debate'.round = debate.round /\ debate'.asker = debate.asker
  BY <1>1 DEF DebateTypes
<1>4. DebateTypes' /\ SpeakersInv' /\ HeardInv'
  BY <1>1, <1>3 DEF DebateTypes, SpeakersInv, HeardInv
<1>5. JudgedIsLastSaid' /\ TwiceIfAllSpoke'
  BY <1>1, <1>3 DEF JudgedIsLastSaid, TwiceIfAllSpoke
<1>6. DegradedIsShort'
  <2> SUFFICES ASSUME ruling'.degraded
               PROVE  debate.round = 1 /\ \E e \in Experts : lastSpoke[e] = Unheard
    BY <1>1, <1>3 DEF DegradedIsShort
  <2>1. PICK e \in Experts : firstSaid[e] = FailedSaying
    BY <1>2
  <2>2. debate.round = 1
    BY <1>1, <2>1 DEF TwiceIfAllSpoke, DebateTypes
  <2>3. lastSpoke[e] = Unheard
    BY <1>1, <2>1, <2>2, OpinionsDiffer DEF HeardInv, JudgedIsLastSaid, DebateTypes
  <2> QED
    BY <2>2, <2>3
<1>7. RaisedWithReason'
  <2> SUFFICES ASSUME ruling'.raised
               PROVE  ruling'.saying.sums /\ debate.asker \in {"medium_low", "low", "refused"}
    BY <1>3 DEF RaisedWithReason
  <2>1. debate.asker # "route" /\ ruling'.saying.sums
    BY <1>2
  <2> QED
    BY <1>1, <2>1 DEF SpeakersInv, NeedsExperts
<1>8. ExpertMeantIt'
  <2> SUFFICES ASSUME ruling'.from = "rules"
               PROVE  ruling'.saying.causes \subseteq lastSpoke["rules"].causes
    BY <1>1 DEF ExpertMeantIt
  <2>1. ruling'.saying = saidNow["rules"]
    BY <1>2
  <2> QED
    BY <1>1, <2>1, OpinionsDiffer DEF JudgedIsLastSaid, Experts
<1> QED
  BY <1>4, <1>5, <1>6, <1>7, <1>8 DEF DebateInv, DebateKept

\* The judge sees what each expert said last, in whatever order they end and fail; they speak
\* twice only if all three had an opinion; and what is told of the verdict is so.
THEOREM DebatesKept == DebateSpec => []DebateKept
<1>1. DebateInit => DebateInv
  BY OpinionsDiffer DEF DebateInit, DebateInv, DebateTypes, Opinions, SpeakersInv, HeardInv,
       DebateKept, JudgedIsLastSaid, TwiceIfAllSpoke, DegradedIsShort, RaisedWithReason,
       ExpertMeantIt, NoRuling
<1>2. DebateInv /\ [DebateNext]_debateVars => DebateInv'
  <2> SUFFICES ASSUME DebateInv, [DebateNext]_debateVars PROVE DebateInv'
    OBVIOUS
  <2>1. CASE UNCHANGED debateVars
    BY <2>1 DEF debateVars, DebateInv, DebateTypes, SpeakersInv, HeardInv, LastWord, DebateKept,
         JudgedIsLastSaid, TwiceIfAllSpoke, DegradedIsShort, RaisedWithReason, ExpertMeantIt
  <2>2. ASSUME NEW asker \in {"route"} \cup DebateGrades, AskExperts(asker) PROVE DebateInv'
    BY <2>2, AskExpertsStep
  <2>3. ASSUME NEW e \in Experts, BeginExpertSearch(e) PROVE DebateInv'
    BY <2>3, ExpertStep DEF BeginExpertSearch, SearchFails
  <2>4. ASSUME NEW e \in Experts, EndExpertSearch(e) PROVE DebateInv'
    BY <2>4, ExpertStep DEF EndExpertSearch, SearchFails
  <2>5. ASSUME NEW e \in Experts, Speak(e) PROVE DebateInv'
    BY <2>5, ExpertStep DEF Speak
  <2> QED
    BY <2>1, <2>2, <2>3, <2>4, <2>5, WeighStep, EndSecondRoundStep, JudgeDecidesStep
       DEF DebateNext
<1>3. DebateInv => DebateKept
  BY DEF DebateInv
<1> QED
  BY <1>1, <1>2, <1>3, PTL DEF DebateSpec

-----------------------------------------------------------------------------
(* The door for events.                                                    *)

EventStatuses == {"absent", "ignored", "queued", "proposed", "failed"}

IsEvent(e) ==
    /\ e = [status |-> e.status, level |-> e.level, device |-> e.device, name |-> e.name,
            station |-> e.station, dups |-> e.dups, quality |-> e.quality]
    /\ e.status \in EventStatuses /\ e.dups \in Nat
    /\ e.status = "absent" => e.dups = 0

IngressTypes ==
    /\ DOMAIN events = EventKeys /\ events = [k \in EventKeys |-> events[k]]
    /\ \A k \in EventKeys : IsEvent(events[k])
    /\ made \in [EventKeys -> [runs : Nat, alerts : Nat, tasks : Nat]]
    /\ repeats \in [EventKeys -> Nat]
    /\ namedFrom = [k \in EventKeys |-> namedFrom[k]]
    /\ doors = [r \in Requesters |-> doors[r]]
    /\ offered = [r \in Requesters |-> offered[r]]

\* What a request has read is what was there: an event that it knows stays, its count was not
\* more than was answered, and its mapping was in force while it was at the door.
DoorInv ==
    \A r \in Requesters : doors[r].at = "event" =>
        LET k == doors[r].key IN
        /\ k \in EventKeys /\ IsEvent(doors[r].sees) /\ doors[r].row \in offered[r]
        /\ doors[r].sees.status # "absent" => events[k].status # "absent"
        /\ doors[r].sees.dups <= repeats[k]
        /\ ~crowded => doors[r].sees.dups = events[k].dups

\* While requests do not overlap there is one.
OneAtDoor ==
    ~crowded => \A q, r \in Requesters :
                    doors[q].at # "idle" /\ doors[r].at # "idle" => q = r

IngressInv == IngressTypes /\ DoorInv /\ OneAtDoor /\ IngressKept

LEMMA PairIs ==
  ASSUME NEW a, NEW b
  PROVE  DOMAIN <<a, b>> = 1..2 /\ <<a, b>>[1] = a /\ <<a, b>>[2] = b
<1>1. DOMAIN <<a, b>> = 1..2
  OBVIOUS
<1>2. <<a, b>>[1] = a
  OBVIOUS
<1>3. <<a, b>>[2] = b
  OBVIOUS
<1> QED
  BY <1>1, <1>2, <1>3

LEMMA OneTwo == 1..2 = {1, 2} /\ 1..(1 - 1) = {} /\ 1..(2 - 1) = {1}
<1>1. 1..2 = {1, 2}
  OBVIOUS
<1>2. 1..(1 - 1) = {}
  OBVIOUS
<1>3. 1..(2 - 1) = {1}
  OBVIOUS
<1> QED
  BY <1>1, <1>2, <1>3

\* The first that is told, or the one that always is.
LEMMA FirstOfTwo ==
  ASSUME NEW a, NEW b, b # ""
  PROVE  FirstOf(<<a, b>>) = IF a # "" THEN a ELSE b
<1> DEFINE s == <<a, b>>
           P(i) == s[i] # "" /\ \A j \in 1..(i - 1) : s[j] = ""
<1>1. DOMAIN s = 1..2 /\ s[1] = a /\ s[2] = b
  BY PairIs
<1>2. s[1] = a /\ s[2] = b
  BY <1>1
<1>3. 1..2 = {1, 2} /\ 1..(1 - 1) = {} /\ 1..(2 - 1) = {1}
  BY OneTwo
<1> HIDE DEF s
<1>4. (P(1) <=> a # "") /\ (P(2) <=> a = "")
  BY <1>2, <1>3
<1>5. FirstOf(s) = s[CHOOSE i \in {1, 2} : P(i)]
  <2>1. \E i \in DOMAIN s : s[i] # ""
    BY <1>1, <1>2, <1>3
  <2> QED
    BY <1>1, <1>3, <2>1 DEF FirstOf
<1> HIDE DEF P
<1>6. CASE a # ""
  <2>1. \A i \in {1, 2} : P(i) <=> i = 1
    BY <1>4, <1>6
  <2> QED
    BY <1>2, <1>5, <1>6, <2>1 DEF s
<1>7. CASE a = ""
  <2>1. \A i \in {1, 2} : P(i) <=> i = 2
    BY <1>4, <1>7
  <2> QED
    BY <1>2, <1>5, <1>7, <2>1 DEF s
<1> QED
  BY <1>6, <1>7

\* What the commit of a repetition leaves of a row.
LEMMA CountedOnce ==
  ASSUME NEW now, NEW read, IsEvent(now), IsEvent(read), now.status # "absent"
  PROVE  LET row == Flushed(now, read, [read EXCEPT !.dups = @ + 1]) IN
         /\ IsEvent(row) /\ row.status = now.status /\ row.device = now.device
         /\ row.dups = read.dups + 1
<1> DEFINE new == [read EXCEPT !.dups = @ + 1]
           row == Flushed(now, read, new)
<1>1. /\ DOMAIN now = {"status", "level", "device", "name", "station", "dups", "quality"}
      /\ DOMAIN read = {"status", "level", "device", "name", "station", "dups", "quality"}
      /\ read.dups \in Nat
  BY DEF IsEvent
<1>2. /\ new.dups = read.dups + 1 /\ new.status = read.status /\ new.level = read.level
      /\ new.device = read.device /\ new.name = read.name /\ new.station = read.station
      /\ new.quality = read.quality
  BY <1>1
<1> HIDE DEF new
<1>3. /\ row = [column \in DOMAIN now |->
                  IF new[column] = read[column] THEN now[column] ELSE new[column]]
  BY DEF Flushed
<1>4. /\ row.status = now.status /\ row.level = now.level /\ row.device = now.device
      /\ row.name = now.name /\ row.station = now.station /\ row.quality = now.quality
      /\ row.dups = read.dups + 1
  BY <1>1, <1>2, <1>3
<1>5. row = [status |-> row.status, level |-> row.level, device |-> row.device,
             name |-> row.name, station |-> row.station, dups |-> row.dups,
             quality |-> row.quality]
  BY <1>1, <1>3
<1> HIDE DEF row
<1> QED
  BY <1>1, <1>4, <1>5 DEF IsEvent, row, new

\* Who is let in belongs to a tenant.
LEMMA IdentityIsSite ==
  ASSUME NEW d, IdentityOf(d) # "refused"
  PROVE  IdentityOf(d) \in Sites
BY IngressAssumption DEF IdentityOf

LEMMA DeliverStep ==
  ASSUME IngressInv, NEW r \in Requesters, NEW d \in Deliveries, Deliver(r, d)
  PROVE  IngressInv'
<1> DEFINE t == IdentityOf(d)
           k == <<t, d.id>>
           door == [at |-> "event", key |-> k, body |-> d, sees |-> events[k],
                    row |-> mappings[t]]
<1>1. /\ IngressTypes /\ DoorInv /\ OneAtDoor /\ IngressKept /\ doors[r].at = "idle"
      /\ doors' = [doors EXCEPT ![r] = door]
      /\ offered' = [offered EXCEPT ![r] = {mappings[t]}]
      /\ crowded' = (crowded \/ \E q \in Requesters \ {r} : doors[q].at # "idle")
      /\ UNCHANGED <<events, made, repeats, namedFrom>>
  BY DEF IngressInv, Deliver, Crowd
<1>2. k \in EventKeys
  <2>1. t # "refused"
    BY DEF Deliver
  <2> QED
    BY <2>1, IdentityIsSite DEF EventKeys
<1>3. /\ door.at = "event" /\ door.key = k /\ door.sees = events[k] /\ door.row = mappings[t]
  OBVIOUS
<1> HIDE DEF door, k
<1>4. /\ doors'[r] = door /\ offered'[r] = {mappings[t]}
      /\ \A q \in Requesters \ {r} : doors'[q] = doors[q] /\ offered'[q] = offered[q]
  BY <1>1 DEF IngressTypes
<1>5. IngressTypes'
  BY <1>1 DEF IngressTypes
<1>6. events[k].dups <= repeats[k] /\ IsEvent(events[k])
  BY <1>1, <1>2 DEF IngressTypes, IngressKept, RepeatsCounted
<1>7. ~crowded' => ~crowded /\ \A q \in Requesters \ {r} : doors[q].at = "idle"
  BY <1>1, Zenon
<1>8. DoorInv'
  <2>1. LET new == doors'[r] IN
        /\ new.key \in EventKeys /\ IsEvent(new.sees) /\ new.row \in offered'[r]
        /\ new.sees = events[new.key] /\ new.sees.dups <= repeats[new.key]
    BY <1>2, <1>3, <1>4, <1>6
  <2>2. ASSUME NEW q \in Requesters \ {r}, doors[q].at = "event"
        PROVE  LET l == doors[q].key IN
               /\ l \in EventKeys /\ IsEvent(doors[q].sees) /\ doors[q].row \in offered'[q]
               /\ doors[q].sees.status # "absent" => events[l].status # "absent"
               /\ doors[q].sees.dups <= repeats[l] /\ crowded'
    BY <1>1, <1>4, <1>7, <2>2 DEF DoorInv
  <2> QED
    BY <1>1, <1>4, <2>1, <2>2 DEF DoorInv
<1>9. OneAtDoor'
  BY <1>4, <1>7 DEF OneAtDoor
<1>10. IngressKept'
  BY <1>1 DEF IngressKept, DiagnosedOnce, RepeatsCounted, MappedAsOffered
<1> QED
  BY <1>5, <1>8, <1>9, <1>10 DEF IngressInv

LEMMA StillOne ==
  ASSUME IngressInv, NEW r \in Requesters, doors[r].at # "idle", NEW door,
         doors' = [doors EXCEPT ![r] = door], crowded' = crowded
  PROVE  OneAtDoor'
BY DEF IngressInv, IngressTypes, OneAtDoor

\* A request for a mapping, or one that leaves the door or reads again, disturbs nobody.
LEMMA DoorsStep ==
  ASSUME IngressInv, NEW r \in Requesters, NEW door, crowded => crowded', OneAtDoor',
         doors' = [doors EXCEPT ![r] = door],
         \/ door.at \notin {"event"}
         \/ /\ doors[r].at = "event" /\ door.at = "event" /\ door.key = doors[r].key
            /\ door.row = doors[r].row /\ door.sees = events[doors[r].key],
         UNCHANGED <<events, made, repeats, namedFrom>>,
         offered' = [q \in Requesters |-> offered'[q]],
         \A q \in Requesters : doors[q].at = "event" => offered[q] \subseteq offered'[q]
  PROVE  IngressInv'
<1>1. IngressTypes /\ DoorInv /\ OneAtDoor /\ IngressKept
  BY DEF IngressInv
<1>2. doors'[r] = door /\ \A q \in Requesters \ {r} : doors'[q] = doors[q]
  BY <1>1 DEF IngressTypes
<1>3. IngressTypes'
  BY <1>1 DEF IngressTypes
<1>4. DoorInv'
  <2>1. ASSUME door.at = "event", doors[r].at = "event", door.key = doors[r].key,
               door.row = doors[r].row, door.sees = events[doors[r].key]
        PROVE  LET k == door.key IN
               /\ k \in EventKeys /\ IsEvent(door.sees) /\ door.row \in offered'[r]
               /\ door.sees.dups <= repeats[k] /\ door.sees = events[k]
    BY <1>1, <2>1 DEF DoorInv, IngressTypes, IngressKept, RepeatsCounted
  <2>2. ASSUME NEW q \in Requesters, q # r, doors[q].at = "event"
        PROVE  doors[q].row \in offered'[q]
    BY <1>1, <2>2 DEF DoorInv
  <2> QED
    BY <1>1, <1>2, <2>1, <2>2 DEF DoorInv
<1>5. IngressKept'
  BY <1>1 DEF IngressKept, DiagnosedOnce, RepeatsCounted, MappedAsOffered
<1> QED
  BY <1>3, <1>4, <1>5 DEF IngressInv

LEMMA CommitRepeatStep ==
  ASSUME IngressInv, NEW r \in Requesters, CommitRepeat(r)
  PROVE  IngressInv'
<1> DEFINE k == doors[r].key
           sees == doors[r].sees
           row == Flushed(events[k], sees, [sees EXCEPT !.dups = @ + 1])
<1>1. /\ IngressTypes /\ DoorInv /\ OneAtDoor /\ IngressKept
      /\ doors[r].at = "event" /\ sees.status # "absent"
      /\ events' = [events EXCEPT ![k] = row]
      /\ repeats' = [repeats EXCEPT ![k] = @ + 1]
      /\ doors' = [doors EXCEPT ![r] = Outside]
      /\ UNCHANGED <<made, crowded, offered, namedFrom>>
  BY DEF IngressInv, CommitRepeat, LeaveDoor
<1>2. /\ k \in EventKeys /\ IsEvent(sees) /\ events[k].status # "absent"
      /\ sees.dups <= repeats[k] /\ (~crowded => sees.dups = events[k].dups)
      /\ IsEvent(events[k])
  BY <1>1 DEF DoorInv, IngressTypes
<1>3. /\ IsEvent(row) /\ row.status = events[k].status /\ row.device = events[k].device
      /\ row.dups = sees.dups + 1
  BY <1>2, CountedOnce
<1> HIDE DEF row, k, sees
<1>4. /\ events'[k] = row /\ \A j \in EventKeys \ {k} : events'[j] = events[j]
      /\ repeats'[k] = repeats[k] + 1 /\ \A j \in EventKeys \ {k} : repeats'[j] = repeats[j]
      /\ doors'[r] = Outside /\ \A q \in Requesters \ {r} : doors'[q] = doors[q]
  BY <1>1, <1>2 DEF IngressTypes
<1>5. IngressTypes'
  <2>1. DOMAIN events' = EventKeys /\ events' = [j \in EventKeys |-> events'[j]]
    BY <1>1 DEF IngressTypes
  <2>2. repeats' \in [EventKeys -> Nat]
    <3>1. repeats \in [EventKeys -> Nat]
      BY <1>1 DEF IngressTypes
    <3> QED
      BY <1>1, <1>2, <3>1
  <2>3. doors' = [q \in Requesters |-> doors'[q]]
    BY <1>1 DEF IngressTypes
  <2> QED
    BY <1>1, <1>3, <1>4, <2>1, <2>2, <2>3 DEF IngressTypes
<1>6. Outside.at = "idle"
  BY DEF Outside
<1>7. \A j \in EventKeys : /\ repeats[j] \in Nat /\ repeats[j] <= repeats'[j]
                           /\ events'[j].status = events[j].status
                           /\ events'[j].device = events[j].device
  BY <1>1, <1>2, <1>3, <1>4 DEF IngressTypes
<1>8. DoorInv'
  <2> SUFFICES ASSUME NEW q \in Requesters, doors'[q].at = "event"
               PROVE  LET l == doors'[q].key IN
                      /\ l \in EventKeys /\ IsEvent(doors'[q].sees)
                      /\ doors'[q].row \in offered'[q]
                      /\ doors'[q].sees.status # "absent" => events'[l].status # "absent"
                      /\ doors'[q].sees.dups <= repeats'[l]
                      /\ ~crowded' => doors'[q].sees.dups = events'[l].dups
    BY DEF DoorInv
  <2>1. q # r /\ doors'[q] = doors[q]
    BY <1>4, <1>6
  <2>2. crowded
    BY <1>1, <2>1 DEF OneAtDoor
  <2>3. /\ doors[q].key \in EventKeys /\ IsEvent(doors[q].sees) /\ doors[q].row \in offered[q]
        /\ doors[q].sees.status # "absent" => events[doors[q].key].status # "absent"
        /\ doors[q].sees.dups <= repeats[doors[q].key]
    BY <1>1, <2>1 DEF DoorInv
  <2>4. doors[q].sees.dups \in Nat
    BY <2>3 DEF IsEvent
  <2>5. doors[q].sees.dups <= repeats'[doors[q].key]
    <3>1. repeats[doors[q].key] \in Nat /\ repeats'[doors[q].key] \in Nat
          /\ repeats[doors[q].key] <= repeats'[doors[q].key]
      BY <1>5, <1>7, <2>3 DEF IngressTypes
    <3> QED
      BY <2>3, <2>4, <3>1
  <2> QED
    BY <1>1, <1>7, <2>1, <2>2, <2>3, <2>5
<1>9. OneAtDoor'
  BY <1>1, <1>4, <1>6 DEF OneAtDoor
<1>10. DiagnosedOnce' /\ MappedAsOffered'
  BY <1>1, <1>7 DEF IngressKept, DiagnosedOnce, MappedAsOffered
<1>11. RepeatsCounted'
  <2>1. row.dups <= repeats[k] + 1 /\ (~crowded => row.dups = repeats[k] + 1)
    <3>1. sees.dups \in Nat /\ repeats[k] \in Nat
      BY <1>1, <1>2 DEF IngressTypes, IsEvent
    <3>2. ~crowded => events[k].dups = repeats[k]
      BY <1>1, <1>2 DEF IngressKept, RepeatsCounted
    <3> QED
      BY <1>2, <1>3, <3>1, <3>2
  <2> QED
    BY <1>1, <1>4, <2>1 DEF IngressKept, RepeatsCounted
<1> QED
  BY <1>5, <1>8, <1>9, <1>10, <1>11 DEF IngressInv, IngressKept

LEMMA FailAtDoorStep ==
  ASSUME IngressInv, NEW r \in Requesters, FailAtDoor(r)
  PROVE  IngressInv'
<1>1. /\ doors[r].at # "idle" /\ doors' = [doors EXCEPT ![r] = Outside]
      /\ UNCHANGED <<events, made, repeats, namedFrom, crowded, offered>>
      /\ offered = [q \in Requesters |-> offered[q]]
  BY DEF FailAtDoor, LeaveDoor, IngressInv, IngressTypes
<1>2. OneAtDoor'
  BY <1>1, StillOne
<1>3. Outside.at = "idle"
  BY DEF Outside
<1> QED
  BY <1>1, <1>2, <1>3, DoorsStep

LEMMA CommitMappingStep ==
  ASSUME IngressInv, NEW r \in Requesters, CommitMapping(r)
  PROVE  IngressInv'
<1> DEFINE t == doors[r].site
<1>1. /\ doors[r].at # "idle" /\ doors' = [doors EXCEPT ![r] = Outside]
      /\ UNCHANGED <<events, made, repeats, namedFrom, crowded>>
      /\ offered' = [q \in Requesters |-> IF doors[q].at = "event"
                                          THEN offered[q] \cup {mappings'[t]} ELSE offered[q]]
  BY DEF CommitMapping, LeaveDoor
<1>2. OneAtDoor'
  BY <1>1, StillOne
<1>3. Outside.at = "idle"
  BY DEF Outside
<1>4. /\ offered' = [q \in Requesters |-> offered'[q]]
      /\ \A q \in Requesters : doors[q].at = "event" => offered[q] \subseteq offered'[q]
  BY <1>1
<1> QED
  BY <1>1, <1>2, <1>3, <1>4, DoorsStep

LEMMA OpenMappingStep ==
  ASSUME IngressInv, NEW r \in Requesters, NEW t, NEW edit, OpenMapping(r, t, edit)
  PROVE  IngressInv'
<1> DEFINE door == [at |-> "mapping", site |-> t, new |-> edit, sees |-> mappings[t]]
<1>1. /\ doors' = [doors EXCEPT ![r] = door]
      /\ crowded' = (crowded \/ \E q \in Requesters \ {r} : doors[q].at # "idle")
      /\ UNCHANGED <<events, made, repeats, namedFrom, offered>>
      /\ offered = [q \in Requesters |-> offered[q]]
  BY DEF OpenMapping, Crowd, IngressInv, IngressTypes
<1>2. door.at = "mapping"
  OBVIOUS
<1> HIDE DEF door
<1>3. /\ crowded => crowded'
      /\ ~crowded' => \A q \in Requesters \ {r} : doors[q].at = "idle"
  BY <1>1, Zenon
<1>4. \A q \in Requesters \ {r} : doors'[q] = doors[q]
  BY <1>1 DEF IngressInv, IngressTypes
<1>5. OneAtDoor'
  BY <1>3, <1>4 DEF OneAtDoor
<1> QED
  BY <1>1, <1>2, <1>3, <1>5, DoorsStep

LEMMA DiagnoseStep ==
  ASSUME IngressInv, NEW k \in EventKeys, NEW a, Diagnose(k, a)
  PROVE  IngressInv'
<1>1. /\ IngressTypes /\ DoorInv /\ OneAtDoor /\ IngressKept /\ events[k].status = "queued"
      /\ UNCHANGED <<made, doors, repeats, crowded, offered, namedFrom>>
  BY DEF IngressInv, Diagnose
<1>2. PICK outcome \in {"failed", "proposed"}, quality \in {0, Quality(a, events[k])} :
         events' = [events EXCEPT ![k].status = outcome, ![k].quality = quality]
  BY DEF Diagnose
<1>3. /\ IsEvent(events'[k]) /\ events'[k].status = outcome
      /\ events'[k].device = events[k].device /\ events'[k].dups = events[k].dups
      /\ \A j \in EventKeys \ {k} : events'[j] = events[j]
      /\ DOMAIN events' = EventKeys /\ events' = [j \in EventKeys |-> events'[j]]
  <2>1. IsEvent(events[k]) /\ events = [j \in EventKeys |-> events[j]]
    BY <1>1 DEF IngressTypes
  <2>2. events'[k] = [events[k] EXCEPT !.status = outcome, !.quality = quality]
    BY <1>2, <2>1
  <2>3. /\ \A j \in EventKeys \ {k} : events'[j] = events[j]
        /\ DOMAIN events' = EventKeys /\ events' = [j \in EventKeys |-> events'[j]]
    BY <1>2, <2>1
  <2> QED
    BY <1>1, <2>1, <2>2, <2>3 DEF IsEvent, EventStatuses
<1>4. IngressTypes'
  BY <1>1, <1>3 DEF IngressTypes
<1>5. \A j \in EventKeys : /\ events'[j].device = events[j].device
                           /\ events'[j].dups = events[j].dups
                           /\ events'[j].status = "absent" <=> events[j].status = "absent"
                           /\ events'[j].status = "ignored" <=> events[j].status = "ignored"
  BY <1>1, <1>3
<1>6. DoorInv' /\ OneAtDoor'
  BY <1>1, <1>5 DEF DoorInv, OneAtDoor
<1>7. DiagnosedOnce' /\ RepeatsCounted' /\ MappedAsOffered'
  BY <1>1, <1>5 DEF IngressKept, DiagnosedOnce, RepeatsCounted, MappedAsOffered
<1> QED
  BY <1>4, <1>6, <1>7 DEF IngressInv, IngressKept

\* The device an event names, and where it begins.
LEMMA NamedAsMapped ==
  ASSUME NEW d, NEW row
  PROVE  LET n == Normalized(d, row) IN
         /\ n.device \in {"unmapped", "unknown"} \/ (row.active /\ n.device = row.canonical)
         /\ n.status \in {"queued", "ignored"}
<1> DEFINE found == MappingFor(d, row)
           other == IF SourceDevice(d) # "" THEN "unmapped" ELSE "unknown"
           n == Normalized(d, row)
<1>1. /\ n.device = FirstOf(<<found.canonical, other>>)
      /\ n.status \in {"queued", "ignored"}
  BY DEF Normalized
<1>2. FirstOf(<<found.canonical, other>>) = IF found.canonical # "" THEN found.canonical ELSE other
  <2>1. other # ""
    OBVIOUS
  <2> HIDE DEF found, other
  <2> QED
    BY <2>1, FirstOfTwo
<1>3. found.canonical = "" \/ (row.active /\ found = row)
  BY DEF MappingFor, NoMapping
<1> HIDE DEF found, n
<1> QED
  BY <1>1, <1>2, <1>3 DEF n

\* The row a new event makes.
EventRow(begins, level, device, name, station) ==
    [NoEvent EXCEPT !.status = begins, !.level = level, !.device = device, !.name = name,
                    !.station = station]

LEMMA NewEvent ==
  ASSUME NEW begins \in EventStatuses \ {"absent"}, NEW level, NEW device, NEW name, NEW station
  PROVE  LET row == EventRow(begins, level, device, name, station) IN
         IsEvent(row) /\ row.status = begins /\ row.device = device /\ row.dups = 0
<1> DEFINE row == EventRow(begins, level, device, name, station)
<1> USE DEF EventRow
<1>1. row = [c \in DOMAIN row |-> row[c]]
  OBVIOUS
<1>2. DOMAIN row = DOMAIN NoEvent
  OBVIOUS
<1>3. DOMAIN NoEvent = {"status", "level", "device", "name", "station", "dups", "quality"}
  BY DEF NoEvent
<1>4. row.status = begins /\ row.device = device /\ row.dups = 0
  BY DEF NoEvent
<1> HIDE DEF row
<1>5. row = [status |-> row.status, level |-> row.level, device |-> row.device,
             name |-> row.name, station |-> row.station, dups |-> row.dups,
             quality |-> row.quality]
  BY <1>1, <1>2, <1>3
<1> QED
  BY <1>4, <1>5 DEF IsEvent, row

LEMMA CountsOf ==
  ASSUME NEW old \in [runs : Nat, alerts : Nat, tasks : Nat], NEW a, NEW b, NEW c
  PROVE  LET new == [old EXCEPT !.runs = a, !.alerts = b, !.tasks = c] IN
         /\ a \in Nat /\ b \in Nat /\ c \in Nat
               => new \in [runs : Nat, alerts : Nat, tasks : Nat]
         /\ new.runs = a /\ new.alerts = b /\ new.tasks = c
OBVIOUS

LEMMA NewCounts ==
  ASSUME NEW old \in [runs : Nat, alerts : Nat, tasks : Nat], NEW t \in {0, 1},
         old.runs = 0, old.alerts = 0, old.tasks = 0
  PROVE  LET new == [old EXCEPT !.runs = @ + 1, !.alerts = @ + t, !.tasks = @ + t] IN
         /\ new \in [runs : Nat, alerts : Nat, tasks : Nat]
         /\ new.runs = 1 /\ new.alerts = t /\ new.tasks = t
<1>1. old.runs + 1 = 1 /\ old.alerts + t = t /\ old.tasks + t = t /\ t \in Nat /\ 1 \in Nat
  OBVIOUS
<1> QED
  BY <1>1, CountsOf

LEMMA CommitEventStep ==
  ASSUME IngressInv, NEW r \in Requesters, CommitEvent(r)
  PROVE  IngressInv'
<1> DEFINE k == doors[r].key
           n == Normalized(doors[r].body, doors[r].row)
           triggers == IF n.status = "queued" THEN 1 ELSE 0
           row == [NoEvent EXCEPT !.status = n.status, !.level = n.level, !.device = n.device,
                                  !.name = n.name, !.station = n.station]
<1>1. /\ IngressTypes /\ DoorInv /\ OneAtDoor /\ IngressKept
      /\ doors[r].at = "event" /\ k \in EventKeys /\ doors[r].row \in offered[r]
      /\ UNCHANGED <<repeats, crowded, offered>>
  BY DEF IngressInv, CommitEvent, DoorInv
<1>2. CASE events[k].status # "absent"
  <2> DEFINE door == [doors[r] EXCEPT !.sees = events[k]]
  <2>1. /\ doors' = [doors EXCEPT ![r].sees = events[k]]
        /\ UNCHANGED <<events, made, namedFrom>>
    BY <1>2 DEF CommitEvent
  <2>2. doors' = [doors EXCEPT ![r] = door]
    BY <2>1
  <2>3. door.at = "event" /\ door.key = k /\ door.row = doors[r].row /\ door.sees = events[k]
    BY <1>1 DEF DoorInv
  <2> HIDE DEF door
  <2>4. OneAtDoor'
    BY <1>1, <2>2, StillOne
  <2>5. offered = [q \in Requesters |-> offered[q]]
    BY <1>1 DEF IngressTypes
  <2> QED
    BY <1>1, <2>1, <2>2, <2>3, <2>4, <2>5, DoorsStep
<1>3. CASE events[k].status = "absent"
  <2>1. /\ events' = [events EXCEPT ![k] = row]
        /\ namedFrom' = [namedFrom EXCEPT ![k] = offered[r]]
        /\ made' = [made EXCEPT ![k].runs = @ + 1, ![k].alerts = @ + triggers,
                                ![k].tasks = @ + triggers]
        /\ doors' = [doors EXCEPT ![r] = Outside]
    BY <1>3 DEF CommitEvent, LeaveDoor
  <2>2. /\ n.device \in {"unmapped", "unknown"}
           \/ (doors[r].row.active /\ n.device = doors[r].row.canonical)
        /\ n.status \in {"queued", "ignored"}
    BY NamedAsMapped
  <2> HIDE DEF n
  <2>3. IsEvent(row) /\ row.status = n.status /\ row.device = n.device /\ row.dups = 0
    <3>1. n.status \in EventStatuses \ {"absent"}
      BY <2>2 DEF EventStatuses
    <3>2. row = EventRow(n.status, n.level, n.device, n.name, n.station)
      BY DEF EventRow
    <3> HIDE DEF row
    <3> QED
      BY <3>1, <3>2, NewEvent
  <2>4. row.status = "queued" <=> n.status = "queued"
    BY <2>3
  <2>5. made[k].runs = 0 /\ made[k].alerts = 0 /\ made[k].tasks = 0
    BY <1>1, <1>3 DEF IngressKept, DiagnosedOnce
  <2>6. triggers \in {0, 1} /\ (triggers = 1 <=> row.status = "queued")
    BY <2>4
  <2> HIDE DEF row, triggers, k
  <2>7. /\ events'[k] = row /\ \A j \in EventKeys \ {k} : events'[j] = events[j]
        /\ namedFrom'[k] = offered[r]
        /\ \A j \in EventKeys \ {k} : namedFrom'[j] = namedFrom[j]
        /\ doors'[r] = Outside /\ \A q \in Requesters \ {r} : doors'[q] = doors[q]
        /\ DOMAIN events' = EventKeys /\ events' = [j \in EventKeys |-> events'[j]]
        /\ namedFrom' = [j \in EventKeys |-> namedFrom'[j]]
        /\ doors' = [q \in Requesters |-> doors'[q]]
    BY <1>1, <2>1 DEF IngressTypes
  <2>8. /\ made' \in [EventKeys -> [runs : Nat, alerts : Nat, tasks : Nat]]
        /\ made'[k].runs = 1 /\ made'[k].alerts = triggers /\ made'[k].tasks = triggers
        /\ \A j \in EventKeys \ {k} : made'[j] = made[j]
    <3> DEFINE rows == [made[k] EXCEPT !.runs = @ + 1, !.alerts = @ + triggers,
                                       !.tasks = @ + triggers]
    <3>1. made \in [EventKeys -> [runs : Nat, alerts : Nat, tasks : Nat]]
      BY <1>1 DEF IngressTypes
    <3>2. made' = [made EXCEPT ![k] = rows]
      BY <2>1, <3>1
    <3>3. made[k] \in [runs : Nat, alerts : Nat, tasks : Nat]
      BY <1>1, <3>1 DEF k
    <3>4. /\ rows \in [runs : Nat, alerts : Nat, tasks : Nat]
          /\ rows.runs = 1 /\ rows.alerts = triggers /\ rows.tasks = triggers
      BY <2>5, <2>6, <3>3, NewCounts
    <3> HIDE DEF rows
    <3> QED
      BY <1>1, <3>1, <3>2, <3>4 DEF k
  <2>9. IngressTypes'
    BY <1>1, <2>3, <2>7, <2>8 DEF IngressTypes
  <2>10. Outside.at = "idle"
    BY DEF Outside
  <2>11. DoorInv' /\ OneAtDoor'
    <3>1. OneAtDoor'
      BY <1>1, <2>1, StillOne
    <3>2. ASSUME NEW q \in Requesters \ {r}, doors[q].at = "event"
          PROVE  LET l == doors[q].key IN
                 /\ l \in EventKeys /\ IsEvent(doors[q].sees) /\ doors[q].row \in offered[q]
                 /\ doors[q].sees.status # "absent" => events'[l].status # "absent"
                 /\ doors[q].sees.dups <= repeats[l] /\ crowded
      <4>1. crowded
        BY <1>1, <3>2 DEF OneAtDoor
      <4> QED
        BY <1>1, <1>3, <2>7, <3>2, <4>1 DEF DoorInv
    <3> QED
      BY <1>1, <2>7, <2>10, <3>1, <3>2 DEF DoorInv
  <2>12. DiagnosedOnce'
    BY <1>1, <2>2, <2>3, <2>6, <2>7, <2>8 DEF IngressKept, DiagnosedOnce
  <2>13. RepeatsCounted'
    <3>1. events[k].dups = 0
      BY <1>1, <1>3 DEF IngressTypes, IsEvent
    <3> QED
      BY <1>1, <2>3, <2>7, <3>1 DEF IngressKept, RepeatsCounted
  <2>14. MappedAsOffered'
    BY <1>1, <2>2, <2>3, <2>7 DEF IngressKept, MappedAsOffered
  <2> QED
    BY <2>9, <2>11, <2>12, <2>13, <2>14 DEF IngressInv, IngressKept
<1> QED
  BY <1>2, <1>3

\* However often and from how many connectors at once an event is delivered, it has one run, and
\* an alert and a task exactly if the gate let it through; the count of repetitions tells of none
\* that was not; and the device is named as a mapping in force named it.
THEOREM IngressesKept == IngressSpec => []IngressKept
<1>1. IngressInit => IngressInv
  <2> SUFFICES ASSUME IngressInit PROVE IngressInv
    OBVIOUS
  <2>1. /\ events = [k \in EventKeys |-> NoEvent]
        /\ made = [k \in EventKeys |-> [runs |-> 0, alerts |-> 0, tasks |-> 0]]
        /\ doors = [r \in Requesters |-> Outside] /\ repeats = [k \in EventKeys |-> 0]
        /\ offered = [r \in Requesters |-> {}] /\ namedFrom = [k \in EventKeys |-> {}]
    BY DEF IngressInit
  <2>2. IsEvent(NoEvent) /\ NoEvent.status = "absent" /\ NoEvent.dups = 0
        /\ Outside.at = "idle"
    BY DEF IsEvent, NoEvent, EventStatuses, Outside
  <2>3. IngressTypes
    BY <2>1, <2>2 DEF IngressTypes
  <2>4. DoorInv /\ OneAtDoor
    BY <2>1, <2>2 DEF DoorInv, OneAtDoor
  <2>5. IngressKept
    BY <2>1, <2>2 DEF IngressKept, DiagnosedOnce, RepeatsCounted, MappedAsOffered
  <2> QED
    BY <2>3, <2>4, <2>5 DEF IngressInv
<1>2. IngressInv /\ [IngressNext]_ingressVars => IngressInv'
  <2> SUFFICES ASSUME IngressInv, [IngressNext]_ingressVars PROVE IngressInv'
    OBVIOUS
  <2>1. CASE UNCHANGED ingressVars
    BY <2>1 DEF ingressVars, IngressInv, IngressTypes, DoorInv, OneAtDoor, IngressKept,
         DiagnosedOnce, RepeatsCounted, MappedAsOffered
  <2>2. ASSUME NEW r \in Requesters,
               CommitEvent(r) \/ CommitRepeat(r) \/ CommitMapping(r) \/ FailAtDoor(r)
        PROVE  IngressInv'
    BY <2>2, CommitEventStep, CommitRepeatStep, CommitMappingStep, FailAtDoorStep
  <2>3. ASSUME NEW r \in Requesters, NEW d \in Deliveries, Deliver(r, d) PROVE IngressInv'
    BY <2>3, DeliverStep
  <2>4. ASSUME NEW r \in Requesters, NEW u \in DOMAIN SiteOf, NEW edit \in MappingEdits,
               OpenMapping(r, SiteOf[u], edit)
        PROVE  IngressInv'
    BY <2>4, OpenMappingStep
  <2>5. ASSUME NEW k \in EventKeys, NEW a \in Diagnoses, Diagnose(k, a) PROVE IngressInv'
    BY <2>5, DiagnoseStep
  <2> QED
    BY <2>1, <2>2, <2>3, <2>4, <2>5 DEF IngressNext
<1>3. IngressInv => IngressKept
  BY DEF IngressInv
<1> QED
  BY <1>1, <1>2, <1>3, PTL DEF IngressSpec

-----------------------------------------------------------------------------
(* The backups.                                                            *)

\* The stores a backup has still to put away, and those a restoration has still to fill.
ToPutAway == {BackupOrder, <<"redis", "milvus">>, <<"milvus">>, <<>>}
ToFill == {RestoreOrder, <<"mysql", "redis">>, <<"redis">>}

Backing == [does : {"backup"}, left : ToPutAway, read : Contents \cup {NoFile}, at : Seconds,
            of : Seconds, files : [Stores -> Seconds]]
Restoring == [does : {"restore"}, left : ToFill, files : [Stores -> Seconds]]

FileTypes ==
    /\ second \in Seconds /\ inStore \in [Stores -> Contents]
    /\ dumps \in [Stores -> [Seconds -> Contents \cup {NoFile}]]
    /\ manifests = [s \in Seconds |-> manifests[s]]
    /\ \A s \in Seconds : manifests[s] # NoFile => manifests[s].files \in [Stores -> Seconds]
    /\ backer = [b \in Backers |-> backer[b]]
    /\ steady \in [Backers -> [Stores -> SUBSET Things]]
    /\ undumped \in [Seconds -> SUBSET Things]

IsLeft(left, k) == \E i \in DOMAIN left : left[i] = k

\* The file of store k begun in second s holds these things, save those of Redis that could not
\* be dumped, or somebody deleted or overwrote it.
HoldsIn(files, gone, again, lost, k, s, things) ==
    /\ files[k][s] # NoFile \/ <<k, s>> \in gone
    /\ files[k][s] # NoFile /\ <<k, s>> \notin again =>
          \A x \in things : files[k][s][x] > 0 \/ (k = "redis" /\ x \in lost[s])

Holds(k, s, things) == HoldsIn(dumps, removedFiles, twice, undumped, k, s, things)

\* What has been held ever since is held now.
SteadyInv == \A b \in Backers, k \in Stores : steady[b][k] \subseteq Held(k)

\* A backup has put away what is no longer left, and has read what it will write.
BackerIs(b) ==
    /\ backer[b] \in Backing \cup Restoring \cup {Idle}
    /\ backer[b].does = "backup" =>
          /\ \A k \in Stores :
                ~IsLeft(backer[b].left, k) => Holds(k, backer[b].files[k], steady[b][k])
          /\ backer[b].read # NoFile =>
                /\ backer[b].left # <<>>
                /\ \A x \in steady[b][Head(backer[b].left)] : backer[b].read[x] > 0

BackerInv == \A b \in Backers : BackerIs(b)

ListedInv ==
    \A s \in Seconds, k \in Stores :
        manifests[s] # NoFile => Holds(k, manifests[s].files[k], manifests[s].sure[k])

FilesInv == FileTypes /\ SteadyInv /\ BackerInv /\ ListedInv

\* What an archiving has read is in a file before it is deleted.
LogInv ==
    /\ logFiles = [s \in Seconds |-> logFiles[s]] /\ archiver = [b \in Backers |-> archiver[b]]
    /\ \A b \in Backers : \A r \in archiver[b] :
           logTwice # {} \/ \E s \in Seconds : r \in logFiles[s]
    /\ LogIsKept

BackupInv == FilesInv /\ LogInv

LEMMA DoesWhat ==
  /\ \A state \in Backing : state.does = "backup"
  /\ \A state \in Restoring : state.does = "restore"
  /\ Idle.does = "nothing" /\ Idle \notin Backing /\ Idle \notin Restoring
BY DEF Backing, Restoring, Idle

\* The orders, one step after the other.
LEMMA PutAwayInOrder ==
  /\ BackupOrder # <<>> /\ Head(BackupOrder) = "mysql"
  /\ Tail(BackupOrder) = <<"redis", "milvus">>
  /\ <<"redis", "milvus">> # <<>> /\ Head(<<"redis", "milvus">>) = "redis"
  /\ Tail(<<"redis", "milvus">>) = <<"milvus">>
  /\ <<"milvus">> # <<>> /\ Head(<<"milvus">>) = "milvus" /\ Tail(<<"milvus">>) = <<>>
<1>1. BackupOrder # <<>> /\ Head(BackupOrder) = "mysql"
  BY DEF BackupOrder
<1>2. Tail(BackupOrder) = <<"redis", "milvus">>
  BY DEF BackupOrder
<1>3. <<"redis", "milvus">> # <<>> /\ Head(<<"redis", "milvus">>) = "redis"
  OBVIOUS
<1>4. Tail(<<"redis", "milvus">>) = <<"milvus">>
  OBVIOUS
<1>5. <<"milvus">> # <<>> /\ Head(<<"milvus">>) = "milvus" /\ Tail(<<"milvus">>) = <<>>
  OBVIOUS
<1> QED
  BY <1>1, <1>2, <1>3, <1>4, <1>5

LEMMA LeftInOrder ==
  ASSUME NEW k
  PROVE  /\ IsLeft(BackupOrder, k) <=> k \in Stores
         /\ IsLeft(<<"redis", "milvus">>, k) <=> k \in {"redis", "milvus"}
         /\ IsLeft(<<"milvus">>, k) <=> k = "milvus"
         /\ ~IsLeft(<<>>, k)
<1>1. IsLeft(BackupOrder, k) <=> k \in Stores
  <2> DEFINE s == BackupOrder
  <2>1. DOMAIN s = 1..3 /\ s[1] = "mysql" /\ s[2] = "redis" /\ s[3] = "milvus"
    BY DEF BackupOrder
  <2> HIDE DEF s
  <2> QED
    BY <2>1 DEF IsLeft, Stores, s
<1>2. IsLeft(<<"redis", "milvus">>, k) <=> k \in {"redis", "milvus"}
  BY DEF IsLeft
<1>3. IsLeft(<<"milvus">>, k) <=> k = "milvus"
  BY DEF IsLeft
<1>4. ~IsLeft(<<>>, k)
  BY DEF IsLeft
<1> QED
  BY <1>1, <1>2, <1>3, <1>4

\* What is to be put away next is a store, is not left afterwards, and nothing else changes.
LEMMA NextPutAway ==
  ASSUME NEW left \in ToPutAway, left # <<>>
  PROVE  /\ Head(left) \in Stores /\ Tail(left) \in ToPutAway
         /\ \A k \in Stores \ {Head(left)} : ~IsLeft(Tail(left), k) => ~IsLeft(left, k)
BY PutAwayInOrder, LeftInOrder DEF ToPutAway, Stores

LEMMA NextFilled ==
  ASSUME NEW left \in ToFill
  PROVE  Head(left) \in Stores /\ (Len(left) # 1 => Tail(left) \in ToFill)
<1>1. CASE left = RestoreOrder
  BY <1>1 DEF RestoreOrder, ToFill, Stores
<1>2. CASE left = <<"mysql", "redis">>
  BY <1>2 DEF ToFill, Stores
<1>3. CASE left = <<"redis">>
  BY <1>3 DEF Stores
<1> QED
  BY <1>1, <1>2, <1>3 DEF ToFill

\* What may become of a file: it stays, it is deleted, it is overwritten, or it is new.
FilesMove ==
    /\ removedFiles \subseteq removedFiles' /\ twice \subseteq twice'
    /\ \A s \in Seconds : undumped[s] \subseteq undumped'[s]
    /\ \A k \in Stores, s \in Seconds :
          \/ dumps'[k][s] = dumps[k][s]
          \/ dumps'[k][s] = NoFile /\ <<k, s>> \in removedFiles'
          \/ dumps'[k][s] # NoFile /\ <<k, s>> \in twice'
          \/ dumps[k][s] = NoFile /\ <<k, s>> \notin removedFiles

LEMMA HoldsStays ==
  ASSUME FilesMove, NEW k \in Stores, NEW s \in Seconds, NEW things, NEW fewer,
         fewer \subseteq things, Holds(k, s, things)
  PROVE  HoldsIn(dumps', removedFiles', twice', undumped', k, s, fewer)
BY DEF FilesMove, Holds, HoldsIn

LEMMA FilesStay ==
  ASSUME UNCHANGED <<dumps, removedFiles, twice, undumped>>
  PROVE  FilesMove
BY DEF FilesMove

\* Who does nothing himself is as he was, whatever the others do to the files and the stores.
LEMMA BackerStays ==
  ASSUME FilesInv, FilesMove, NEW b \in Backers, backer'[b] = backer[b],
         \A k \in Stores : steady'[b][k] \subseteq steady[b][k]
  PROVE  BackerIs(b)'
<1>1. BackerIs(b)
  BY DEF FilesInv, BackerInv
<1>2. ASSUME backer[b].does = "backup", NEW k \in Stores, ~IsLeft(backer[b].left, k)
      PROVE  HoldsIn(dumps', removedFiles', twice', undumped', k, backer[b].files[k], steady'[b][k])
  <2>1. Holds(k, backer[b].files[k], steady[b][k]) /\ backer[b].files[k] \in Seconds
    BY <1>1, <1>2, DoesWhat DEF BackerIs, Backing
  <2> QED
    BY <2>1, HoldsStays
<1>3. ASSUME backer[b].does = "backup", backer[b].read # NoFile
      PROVE  /\ backer[b].left # <<>>
             /\ \A x \in steady'[b][Head(backer[b].left)] : backer[b].read[x] > 0
  <2>1. Head(backer[b].left) \in Stores
    BY <1>1, <1>3, NextPutAway, DoesWhat DEF BackerIs, Backing
  <2> QED
    BY <1>1, <1>3, <2>1 DEF BackerIs
<1> QED
  BY <1>1, <1>2, <1>3 DEF BackerIs, Holds

\* What is listed stays listed as it is, unless it is taken off the list.
LEMMA ListedStays ==
  ASSUME FilesInv, FilesMove, NEW s \in Seconds, manifests'[s] = manifests[s],
         NEW k \in Stores, manifests[s] # NoFile
  PROVE  HoldsIn(dumps', removedFiles', twice', undumped', k, manifests'[s].files[k], manifests'[s].sure[k])
<1>1. Holds(k, manifests[s].files[k], manifests[s].sure[k]) /\ manifests[s].files[k] \in Seconds
  BY DEF FilesInv, ListedInv, FileTypes
<1> QED
  BY <1>1, HoldsStays

\* Where the stores and the files are left alone, and one backer goes on.
LEMMA OneBackerStep ==
  ASSUME FilesInv, NEW b \in Backers, NEW state, backer' = [backer EXCEPT ![b] = state],
         second' \in Seconds, UNCHANGED <<inStore, dumps, manifests, removedFiles, twice, undumped>>,
         steady' \in [Backers -> [Stores -> SUBSET Things]],
         \A c \in Backers \ {b} : steady'[c] = steady[c],
         \A k \in Stores : steady'[b][k] \subseteq Held(k),
         BackerIs(b)'
  PROVE  FilesInv'
<1>1. FileTypes /\ SteadyInv /\ FilesMove
  BY FilesStay DEF FilesInv
<1>2. FileTypes'
  BY <1>1 DEF FileTypes
<1>3. SteadyInv'
  BY <1>1 DEF SteadyInv, Held
<1>4. ASSUME NEW c \in Backers \ {b} PROVE BackerIs(c)'
  <2>1. backer'[c] = backer[c]
    BY <1>1 DEF FileTypes
  <2> QED
    BY <1>1, <2>1, BackerStays
<1>5. BackerInv'
  BY <1>4 DEF BackerInv
<1>6. ListedInv'
  BY <1>1, ListedStays DEF ListedInv, Holds
<1> QED
  BY <1>2, <1>3, <1>5, <1>6 DEF FilesInv

LEMMA BeginBackupStep ==
  ASSUME FilesInv, NEW b \in Backers, BeginBackup(b)
  PROVE  FilesInv'
<1> DEFINE state == [does |-> "backup", left |-> BackupOrder, read |-> NoFile, at |-> second,
                     of |-> second, files |-> [k \in Stores |-> second]]
<1>1. /\ backer' = [backer EXCEPT ![b] = state]
      /\ steady' = [steady EXCEPT ![b] = [k \in Stores |-> Held(k)]]
      /\ UNCHANGED <<second, inStore, dumps, manifests, removedFiles, twice, undumped>>
  BY DEF BeginBackup, Becomes
<1>2. /\ state.does = "backup" /\ state.left = BackupOrder /\ state.read = NoFile
      /\ state.at = second /\ state.of = second /\ state.files = [k \in Stores |-> second]
  OBVIOUS
<1> HIDE DEF state
<1>3. FileTypes
  BY DEF FilesInv
<1>4. /\ steady' \in [Backers -> [Stores -> SUBSET Things]]
      /\ \A c \in Backers \ {b} : steady'[c] = steady[c]
      /\ \A k \in Stores : steady'[b][k] \subseteq Held(k)
  BY <1>1, <1>3 DEF FileTypes, Held
<1>5. BackerIs(b)'
  <2>1. backer'[b] = state /\ second \in Seconds
    BY <1>1, <1>3 DEF FileTypes
  <2>2. \A k \in Stores : IsLeft(BackupOrder, k)
    BY LeftInOrder
  <2>3. state \in Backing
    BY <2>1 DEF Backing, ToPutAway, state
  <2> QED
    BY <1>2, <2>1, <2>2, <2>3 DEF BackerIs
<1> QED
  BY <1>1, <1>3, <1>4, <1>5, OneBackerStep DEF FileTypes

LEMMA ReadStoreStep ==
  ASSUME FilesInv, NEW b \in Backers, ReadStore(b)
  PROVE  FilesInv'
<1> DEFINE next == Head(backer[b].left)
           state == [backer[b] EXCEPT !.read = inStore[next], !.of = second]
<1>1. /\ backer' = [backer EXCEPT ![b] = state]
      /\ backer[b].does = "backup" /\ backer[b].left # <<>>
      /\ UNCHANGED <<second, inStore, dumps, manifests, removedFiles, twice, steady, undumped>>
  BY DEF ReadStore, Becomes
<1>2. FileTypes /\ SteadyInv /\ BackerIs(b)
  BY DEF FilesInv, BackerInv
<1>3. /\ next \in Stores /\ backer[b].left \in ToPutAway
      /\ \A x \in steady[b][next] : inStore[next][x] > 0
  BY <1>1, <1>2, NextPutAway, DoesWhat DEF BackerIs, Backing, SteadyInv, Held
<1>4. BackerIs(b)'
  <2>1. backer'[b] = state /\ inStore[next] \in Contents /\ backer[b] \in Backing
    BY <1>1, <1>2, <1>3, DoesWhat DEF FileTypes, BackerIs
  <2>2. /\ state \in Backing /\ state.left = backer[b].left /\ state.read = inStore[next]
        /\ state.files = backer[b].files
    BY <1>2, <2>1 DEF Backing, FileTypes
  <2> HIDE DEF state
  <2> QED
    BY <1>1, <1>2, <1>3, <2>1, <2>2 DEF BackerIs, Holds
<1> QED
  BY <1>1, <1>2, <1>4, OneBackerStep DEF FileTypes, SteadyInv

\* Who rests, or restores, has nothing put away.
LEMMA AtRestStep ==
  ASSUME FilesInv, NEW b \in Backers, NEW state \in Restoring \cup {Idle},
         backer' = [backer EXCEPT ![b] = state],
         UNCHANGED <<second, inStore, dumps, manifests, removedFiles, twice, steady, undumped>>
  PROVE  FilesInv'
<1>1. FileTypes /\ SteadyInv
  BY DEF FilesInv
<1>2. backer'[b] = state
  BY <1>1 DEF FileTypes
<1>3. BackerIs(b)'
  BY <1>2, DoesWhat DEF BackerIs
<1>4. /\ steady' \in [Backers -> [Stores -> SUBSET Things]] /\ second' \in Seconds
      /\ \A c \in Backers \ {b} : steady'[c] = steady[c]
      /\ \A k \in Stores : steady'[b][k] \subseteq Held(k)
  BY <1>1 DEF FileTypes, SteadyInv
<1> QED
  BY <1>3, <1>4, OneBackerStep

LEMMA AbandonStep ==
  ASSUME FilesInv, NEW b \in Backers, Abandon(b)
  PROVE  FilesInv'
BY AtRestStep DEF Abandon, Becomes

LEMMA BeginRestoreStep ==
  ASSUME FilesInv, NEW b \in Backers, NEW s \in Seconds, BeginRestore(b, s)
  PROVE  FilesInv'
<1>1. manifests[s].files \in [Stores -> Seconds]
  BY DEF BeginRestore, FilesInv, FileTypes
<1>2. [does |-> "restore", left |-> RestoreOrder, files |-> manifests[s].files] \in Restoring
  BY <1>1 DEF Restoring, ToFill
<1> QED
  BY <1>2, AtRestStep DEF BeginRestore, Becomes

LEMMA ClockStep ==
  ASSUME FilesInv, Clock
  PROVE  FilesInv'
<1>1. /\ second' \in Seconds
      /\ UNCHANGED <<inStore, dumps, manifests, backer, removedFiles, twice, steady, undumped>>
  BY BackupAssumption DEF Clock, FilesInv, FileTypes, Seconds
<1> QED
  BY <1>1 DEF FilesInv, FileTypes, SteadyInv, Held, BackerInv, BackerIs, ListedInv, Holds

\* A store changes, and nothing else is held ever since.
LEMMA PutStep ==
  ASSUME FilesInv, NEW k \in Stores, NEW content \in Contents, Put(k, content)
  PROVE  /\ inStore' \in [Stores -> Contents] /\ SteadyInv'
         /\ steady' \in [Backers -> [Stores -> SUBSET Things]]
         /\ \A b \in Backers, l \in Stores : steady'[b][l] \subseteq steady[b][l]
<1>1. /\ inStore' = [inStore EXCEPT ![k] = content]
      /\ steady' = [b \in Backers |-> [steady[b] EXCEPT ![k] = {x \in @ : content[x] > 0}]]
      /\ FileTypes /\ SteadyInv
  BY DEF Put, FilesInv
<1>2. inStore' \in [Stores -> Contents]
  BY <1>1 DEF FileTypes
<1>3. \A b \in Backers : /\ steady'[b] \in [Stores -> SUBSET Things]
                         /\ steady'[b][k] = {x \in steady[b][k] : content[x] > 0}
                         /\ \A l \in Stores \ {k} : steady'[b][l] = steady[b][l]
  BY <1>1 DEF FileTypes
<1>4. /\ steady' \in [Backers -> [Stores -> SUBSET Things]]
      /\ \A b \in Backers, l \in Stores : steady'[b][l] \subseteq steady[b][l]
  BY <1>1, <1>3
<1>5. SteadyInv'
  <2> SUFFICES ASSUME NEW b \in Backers, NEW l \in Stores, NEW x \in steady'[b][l]
               PROVE  x \in Things /\ inStore'[l][x] > 0
    BY DEF SteadyInv, Held
  <2>1. x \in Things
    BY <1>4
  <2>2. CASE l = k
    BY <1>1, <1>3, <2>1, <2>2 DEF FileTypes
  <2>3. CASE l # k
    BY <1>1, <1>3, <2>1, <2>3 DEF FileTypes, SteadyInv, Held
  <2> QED
    BY <2>1, <2>2, <2>3
<1> QED
  BY <1>2, <1>4, <1>5

LEMMA WriteStep ==
  ASSUME FilesInv, NEW k \in Stores, NEW x \in Things, NEW n \in 0..1, Write(k, x, n)
  PROVE  FilesInv'
<1> DEFINE content == [inStore[k] EXCEPT ![x] = n]
<1>1. /\ FileTypes /\ Put(k, content)
      /\ UNCHANGED <<second, dumps, manifests, backer, removedFiles, twice, undumped>>
  BY DEF Write, FilesInv
<1>2. content \in Contents
  BY <1>1 DEF FileTypes, Contents
<1> HIDE DEF content
<1>3. /\ inStore' \in [Stores -> Contents] /\ SteadyInv'
      /\ steady' \in [Backers -> [Stores -> SUBSET Things]]
      /\ \A b \in Backers, l \in Stores : steady'[b][l] \subseteq steady[b][l]
  BY <1>1, <1>2, PutStep
<1>4. FilesMove
  BY <1>1, FilesStay
<1>5. BackerInv'
  BY <1>1, <1>3, <1>4, BackerStays DEF BackerInv
<1>6. ListedInv'
  BY <1>1, <1>4, ListedStays DEF ListedInv, Holds
<1> QED
  BY <1>1, <1>3, <1>5, <1>6 DEF FilesInv, FileTypes

\* What a restoration may leave in a store.
LEMMA RestoredIsContent ==
  ASSUME NEW k \in Stores, NEW now \in Contents, NEW file \in Contents,
         NEW new \in Restored(k, now, file)
  PROVE  new \in Contents
<1>1. Empty \in Contents
  BY DEF Empty, Contents
<1>2. Doubled(now, file) \in Contents
  <2>1. \A x \in Things : (IF now[x] + file[x] > 2 THEN 2 ELSE now[x] + file[x]) \in 0..2
    BY DEF Contents
  <2> QED
    BY <2>1 DEF Doubled, Contents
<1>3. CASE k = "milvus"
  BY <1>1, <1>2, <1>3 DEF Restored, IntoMilvus
<1>4. CASE k = "mysql"
  BY <1>4 DEF Restored, IntoMySQL
<1>5. CASE k = "redis"
  BY <1>5 DEF Restored, IntoRedis
<1> QED
  BY <1>3, <1>4, <1>5 DEF Stores

LEMMA RestoreStoreStep ==
  ASSUME FilesInv, NEW b \in Backers, RestoreStore(b)
  PROVE  FilesInv'
<1> DEFINE k == Head(backer[b].left)
           file == dumps[k][backer[b].files[k]]
           state == IF Len(backer[b].left) = 1 THEN Idle
                    ELSE [backer[b] EXCEPT !.left = Tail(@)]
<1>0. FileTypes /\ SteadyInv /\ BackerIs(b) /\ ListedInv
  BY Zenon DEF FilesInv, BackerInv
<1>1. /\ FileTypes /\ SteadyInv /\ BackerIs(b) /\ backer[b].does = "restore"
      /\ backer' = [backer EXCEPT ![b] = state]
      /\ UNCHANGED <<second, dumps, manifests, removedFiles, twice, undumped>>
      /\ IF file = NoFile THEN UNCHANGED <<inStore, steady>>
         ELSE \E new \in Restored(k, inStore[k], file) : Put(k, new)
  BY <1>0, Zenon DEF RestoreStore, Becomes
<1>2. backer[b] \in Restoring
  BY <1>1, DoesWhat DEF BackerIs
<1>3. k \in Stores /\ state \in Restoring \cup {Idle} /\ backer[b].files[k] \in Seconds
  BY <1>2, NextFilled DEF Restoring
<1>4. /\ inStore' \in [Stores -> Contents] /\ SteadyInv'
      /\ steady' \in [Backers -> [Stores -> SUBSET Things]]
      /\ \A c \in Backers, l \in Stores : steady'[c][l] \subseteq steady[c][l]
  <2>1. CASE file = NoFile
    BY <1>1, <2>1 DEF FileTypes, SteadyInv, Held
  <2>2. CASE file # NoFile
    <3>1. file \in Contents /\ inStore[k] \in Contents
      BY <1>1, <1>3, <2>2 DEF FileTypes
    <3>2. PICK new \in Restored(k, inStore[k], file) : Put(k, new)
      BY <1>1, <2>2
    <3> HIDE DEF k, file
    <3>3. new \in Contents
      BY <1>3, <3>1, RestoredIsContent
    <3> QED
      BY <1>3, <3>2, <3>3, PutStep
  <2> QED
    BY <2>1, <2>2
<1> HIDE DEF state
<1>5. FilesMove
  BY <1>1, FilesStay
<1>6. ASSUME NEW c \in Backers PROVE BackerIs(c)'
  <2>1. CASE c = b
    <3>1. backer'[b] = state
      BY <1>1 DEF FileTypes
    <3> QED
      BY <1>3, <2>1, <3>1, DoesWhat DEF BackerIs
  <2>2. CASE c # b
    <3>1. backer'[c] = backer[c]
      BY <1>1, <2>2 DEF FileTypes
    <3> QED
      BY <1>4, <1>5, <3>1, BackerStays
  <2> QED
    BY <2>1, <2>2
<1>7. ListedInv'
  BY <1>0, <1>1, <1>5, ListedStays DEF ListedInv, Holds
<1> QED
  BY <1>1, <1>4, <1>6, <1>7 DEF FilesInv, FileTypes, BackerInv

\* Files move and the stores do not: whoever does nothing himself is as he was.
LEMMA FilesStep ==
  ASSUME FilesInv, FilesMove, UNCHANGED <<second, inStore, steady>>,
         dumps' \in [Stores -> [Seconds -> Contents \cup {NoFile}]],
         undumped' \in [Seconds -> SUBSET Things],
         backer' = [b \in Backers |-> backer'[b]],
         \A b \in Backers : backer'[b] = backer[b] \/ BackerIs(b)',
         manifests' = [s \in Seconds |-> manifests'[s]],
         \A s \in Seconds : manifests'[s] \in {manifests[s], NoFile}
  PROVE  FilesInv'
<1>1. FileTypes /\ SteadyInv
  BY DEF FilesInv
<1>2. FileTypes' /\ SteadyInv'
  BY <1>1 DEF FileTypes, SteadyInv, Held
<1>3. ASSUME NEW b \in Backers PROVE BackerIs(b)'
  <2>1. CASE backer'[b] = backer[b]
    <3>1. \A k \in Stores : steady'[b][k] \subseteq steady[b][k]
      OBVIOUS
    <3> QED
      BY <2>1, <3>1, BackerStays
  <2> QED
    BY <2>1
<1>4. ListedInv'
  BY <1>1, ListedStays DEF ListedInv, Holds
<1> QED
  BY <1>2, <1>3, <1>4 DEF FilesInv, BackerInv

LEMMA WriteDumpStep ==
  ASSUME FilesInv, NEW b \in Backers, WriteDump(b)
  PROVE  FilesInv'
<1> DEFINE k == Head(backer[b].left)
           s == backer[b].of
           state == [backer[b] EXCEPT !.files[k] = s, !.left = Tail(@), !.read = NoFile]
<1>1. /\ FileTypes /\ SteadyInv /\ BackerIs(b) /\ backer[b].does = "backup"
      /\ backer[b].read # NoFile /\ backer' = [backer EXCEPT ![b] = state]
      /\ twice' = IF dumps[k][s] = NoFile /\ <<k, s>> \notin removedFiles THEN twice
                  ELSE twice \cup {<<k, s>>}
      /\ UNCHANGED <<second, inStore, manifests, removedFiles, steady>>
  BY DEF WriteDump, Becomes, FilesInv, BackerInv
<1>2. /\ backer[b] \in Backing /\ s \in Seconds /\ backer[b].left \in ToPutAway
      /\ backer[b].read \in Contents
  BY <1>1, DoesWhat DEF BackerIs, Backing
<1> DEFINE without(seen, failed) == [x \in Things |-> IF x \in failed THEN 0 ELSE seen[x]]
<1>3. PICK seen \in Scanned(k, backer[b].read, inStore[k]), failed \in MayFail(k) :
         /\ dumps' = [dumps EXCEPT ![k][s] = without(seen, failed)]
         /\ undumped' = [undumped EXCEPT ![s] = @ \cup failed]
  BY DEF WriteDump
<1>4. backer[b].left # <<>> /\ \A x \in steady[b][k] : backer[b].read[x] > 0
  BY <1>1 DEF BackerIs
<1>5. /\ k \in Stores /\ Tail(backer[b].left) \in ToPutAway
      /\ \A l \in Stores \ {k} : ~IsLeft(Tail(backer[b].left), l) => ~IsLeft(backer[b].left, l)
  BY <1>2, <1>4, NextPutAway
<1>6. /\ state \in Backing /\ state.left = Tail(backer[b].left) /\ state.read = NoFile
      /\ state.files[k] = s /\ \A l \in Stores \ {k} : state.files[l] = backer[b].files[l]
  BY <1>2, <1>5 DEF Backing
<1> DEFINE file == without(seen, failed)
<1> HIDE DEF state, k, s
<1>7. seen \in Contents /\ \A x \in steady[b][k] : seen[x] > 0
  <2>1. CASE k = "mysql"
    BY <1>2, <1>3, <1>4, <2>1 DEF Scanned
  <2>2. CASE k # "mysql"
    <3>1. seen \in Contents /\ \A x \in Things : seen[x] \in {backer[b].read[x], inStore[k][x]}
      BY <1>3, <2>2 DEF Scanned
    <3>2. \A x \in steady[b][k] : x \in Things /\ inStore[k][x] > 0
      BY <1>1, <1>5 DEF SteadyInv, Held
    <3> QED
      BY <1>4, <3>1, <3>2
  <2> QED
    BY <2>1, <2>2
<1>8. /\ file \in Contents /\ file # NoFile /\ failed \subseteq Things
      /\ \A x \in steady[b][k] : file[x] > 0 \/ (k = "redis" /\ x \in failed)
  <2>1. failed \subseteq Things /\ (k # "redis" => failed = {})
    BY <1>3 DEF MayFail
  <2>2. file \in Contents
    BY <1>7 DEF Contents
  <2>3. ASSUME NEW x \in steady[b][k], x \notin failed PROVE file[x] > 0
    <3>1. x \in Things
      BY <1>1, <1>5 DEF FileTypes
    <3> QED
      BY <1>7, <2>3, <3>1
  <2> QED
    BY <2>1, <2>2, <2>3, BackupAssumption DEF Contents
<1> HIDE DEF file, without
<1>9. /\ dumps' \in [Stores -> [Seconds -> Contents \cup {NoFile}]]
      /\ dumps'[k][s] = file
      /\ \A l \in Stores, t \in Seconds : l # k \/ t # s => dumps'[l][t] = dumps[l][t]
      /\ undumped' \in [Seconds -> SUBSET Things] /\ failed \subseteq undumped'[s]
      /\ \A t \in Seconds : undumped[t] \subseteq undumped'[t]
  <2>1. /\ dumps' = [dumps EXCEPT ![k][s] = file]
        /\ undumped' = [undumped EXCEPT ![s] = @ \cup failed]
    BY <1>3 DEF file, without
  <2>2. /\ dumps \in [Stores -> [Seconds -> Contents \cup {NoFile}]]
        /\ undumped \in [Seconds -> SUBSET Things]
    BY <1>1 DEF FileTypes
  <2>3. /\ dumps' \in [Stores -> [Seconds -> Contents \cup {NoFile}]]
        /\ dumps'[k][s] = file
        /\ \A l \in Stores, t \in Seconds : l # k \/ t # s => dumps'[l][t] = dumps[l][t]
    BY <1>2, <1>5, <1>8, <2>1, <2>2
  <2>4. /\ undumped' \in [Seconds -> SUBSET Things] /\ failed \subseteq undumped'[s]
        /\ \A t \in Seconds : undumped[t] \subseteq undumped'[t]
    BY <1>2, <1>8, <2>1, <2>2
  <2> QED
    BY <2>3, <2>4
<1>10. FilesMove
  <2>1. removedFiles \subseteq removedFiles' /\ twice \subseteq twice'
    BY <1>1
  <2>2. \/ dumps'[k][s] # NoFile /\ <<k, s>> \in twice'
        \/ dumps[k][s] = NoFile /\ <<k, s>> \notin removedFiles
    BY <1>1, <1>8, <1>9
  <2>3. \A l \in Stores, t \in Seconds :
           \/ dumps'[l][t] = dumps[l][t]
           \/ dumps'[l][t] # NoFile /\ <<l, t>> \in twice'
           \/ dumps[l][t] = NoFile /\ <<l, t>> \notin removedFiles
    BY <1>9, <2>2
  <2> QED
    BY <1>9, <2>1, <2>3 DEF FilesMove
<1>11. backer' = [c \in Backers |-> backer'[c]] /\ backer'[b] = state
       /\ \A c \in Backers \ {b} : backer'[c] = backer[c]
  BY <1>1 DEF FileTypes
<1>12. BackerIs(b)'
  <2>1. ASSUME NEW l \in Stores, ~IsLeft(Tail(backer[b].left), l)
        PROVE  HoldsIn(dumps', removedFiles', twice', undumped', l, state.files[l], steady[b][l])
    <3>1. CASE l = k
      BY <1>6, <1>8, <1>9, <3>1 DEF HoldsIn
    <3>2. CASE l # k
      <4>1. Holds(l, backer[b].files[l], steady[b][l]) /\ backer[b].files[l] \in Seconds
        BY <1>1, <1>2, <1>5, <2>1, <3>2 DEF BackerIs, Backing
      <4>2. HoldsIn(dumps', removedFiles', twice', undumped', l, backer[b].files[l], steady[b][l])
        BY <1>10, <4>1, HoldsStays
      <4> QED
        BY <1>6, <3>2, <4>2
    <3> QED
      BY <3>1, <3>2
  <2> QED
    BY <1>1, <1>6, <1>11, <2>1 DEF BackerIs, Holds
<1>13. /\ manifests' = [t \in Seconds |-> manifests'[t]]
       /\ \A t \in Seconds : manifests'[t] \in {manifests[t], NoFile}
  BY <1>1 DEF FileTypes
<1> QED
  BY <1>1, <1>9, <1>10, <1>11, <1>12, <1>13, FilesStep

LEMMA WriteManifestStep ==
  ASSUME FilesInv, NEW b \in Backers, WriteManifest(b)
  PROVE  FilesInv'
<1> DEFINE entry == [files |-> backer[b].files, sure |-> steady[b]]
           at == backer[b].at
<1>1. /\ FileTypes /\ SteadyInv /\ BackerIs(b) /\ backer[b].does = "backup"
      /\ backer[b].left = <<>> /\ manifests' = [manifests EXCEPT ![at] = entry]
      /\ backer' = [backer EXCEPT ![b] = Idle]
      /\ steady' = [steady EXCEPT ![b] = [k \in Stores |-> {}]]
      /\ UNCHANGED <<second, inStore, dumps, removedFiles, twice, undumped>>
  BY DEF WriteManifest, AllWritten, Becomes, FilesInv, BackerInv
<1>2. backer[b] \in Backing
  BY <1>1, DoesWhat DEF BackerIs
<1>3. /\ entry.files = backer[b].files /\ entry.sure = steady[b]
      /\ at \in Seconds /\ entry.files \in [Stores -> Seconds]
  BY <1>2 DEF Backing
<1>4. \A k \in Stores : Holds(k, entry.files[k], entry.sure[k])
  BY <1>1, <1>3, LeftInOrder DEF BackerIs
<1> HIDE DEF entry, at
<1>5. /\ manifests'[at] = entry /\ \A s \in Seconds \ {at} : manifests'[s] = manifests[s]
      /\ manifests' = [s \in Seconds |-> manifests'[s]]
      /\ backer'[b] = Idle /\ \A c \in Backers \ {b} : backer'[c] = backer[c]
      /\ backer' = [c \in Backers |-> backer'[c]]
      /\ steady' \in [Backers -> [Stores -> SUBSET Things]]
      /\ \A c \in Backers, k \in Stores : steady'[c][k] \subseteq steady[c][k]
  BY <1>1, <1>3 DEF FileTypes
<1>6. FileTypes' /\ SteadyInv'
  BY <1>1, <1>3, <1>5 DEF FileTypes, SteadyInv, Held
<1>7. FilesMove
  BY <1>1, FilesStay
<1>8. ASSUME NEW c \in Backers PROVE BackerIs(c)'
  <2>1. CASE c = b
    BY <1>5, <2>1, DoesWhat DEF BackerIs
  <2>2. CASE c # b
    BY <1>5, <1>7, <2>2, BackerStays
  <2> QED
    BY <2>1, <2>2
<1>9. ListedInv'
  <2> SUFFICES ASSUME NEW s \in Seconds, NEW k \in Stores, manifests'[s] # NoFile
               PROVE  HoldsIn(dumps', removedFiles', twice', undumped', k, manifests'[s].files[k],
                              manifests'[s].sure[k])
    BY DEF ListedInv, Holds
  <2>1. CASE s = at
    BY <1>1, <1>4, <1>5, <2>1 DEF Holds
  <2>2. CASE s # at
    BY <1>5, <1>7, <2>2, ListedStays
  <2> QED
    BY <2>1, <2>2
<1> QED
  BY <1>6, <1>8, <1>9 DEF FilesInv, BackerInv

LEMMA DeleteFileStep ==
  ASSUME FilesInv, NEW b \in Backers, NEW k \in Stores, NEW s \in Seconds, DeleteFile(b, k, s)
  PROVE  FilesInv'
<1>1. /\ FileTypes /\ dumps' = [dumps EXCEPT ![k][s] = NoFile]
      /\ removedFiles' = removedFiles \cup {<<k, s>>}
      /\ UNCHANGED <<second, inStore, manifests, backer, twice, steady, undumped>>
  BY DEF DeleteFile, FilesInv
<1>2. /\ dumps' \in [Stores -> [Seconds -> Contents \cup {NoFile}]]
      /\ dumps'[k][s] = NoFile
      /\ \A l \in Stores, t \in Seconds : l # k \/ t # s => dumps'[l][t] = dumps[l][t]
  BY <1>1 DEF FileTypes
<1>3. FilesMove
  BY <1>1, <1>2 DEF FilesMove
<1>4. /\ manifests' = [t \in Seconds |-> manifests'[t]]
      /\ \A t \in Seconds : manifests'[t] \in {manifests[t], NoFile}
      /\ backer' = [c \in Backers |-> backer'[c]] /\ \A c \in Backers : backer'[c] = backer[c]
      /\ undumped' \in [Seconds -> SUBSET Things]
  BY <1>1 DEF FileTypes
<1> QED
  BY <1>1, <1>2, <1>3, <1>4, FilesStep

LEMMA DeleteBackupStep ==
  ASSUME FilesInv, NEW b \in Backers, NEW s \in Seconds, DeleteBackup(b, s)
  PROVE  FilesInv'
<1>1. /\ FileTypes /\ UNCHANGED <<second, inStore, backer, twice, steady, undumped>>
      /\ manifests' = manifests \/ manifests' = [manifests EXCEPT ![s] = NoFile]
  BY DEF DeleteBackup, FilesInv
<1>2. PICK gone :
         /\ dumps' = [k \in Stores |-> [t \in Seconds |->
                         IF <<k, t>> \in gone THEN NoFile ELSE dumps[k][t]]]
         /\ removedFiles' = removedFiles \cup gone
  BY DEF DeleteBackup
<1>3. dumps' \in [Stores -> [Seconds -> Contents \cup {NoFile}]]
  BY <1>1, <1>2 DEF FileTypes
<1>4. FilesMove
  BY <1>1, <1>2 DEF FilesMove
<1>5. /\ manifests' = [t \in Seconds |-> manifests'[t]]
      /\ \A t \in Seconds : manifests'[t] \in {manifests[t], NoFile}
      /\ backer' = [c \in Backers |-> backer'[c]] /\ \A c \in Backers : backer'[c] = backer[c]
      /\ undumped' \in [Seconds -> SUBSET Things]
  BY <1>1 DEF FileTypes
<1> QED
  BY <1>1, <1>3, <1>4, <1>5, FilesStep

LEMMA ExportLogStep ==
  ASSUME BackupInv, NEW b \in Backers, NEW oldest, ExportLog(b, oldest)
  PROVE  LogInv'
<1> DEFINE rows == logTable \cap oldest
<1>1. /\ LogInv /\ second \in Seconds /\ logTable' = logTable
      /\ archiver' = [archiver EXCEPT ![b] = rows]
      /\ logFiles' = [logFiles EXCEPT ![second] = rows]
      /\ logTwice' = IF logFiles[second] = {} THEN logTwice ELSE logTwice \cup {second}
  BY DEF ExportLog, BackupInv, FilesInv, FileTypes
<1>2. /\ logFiles'[second] = rows /\ archiver'[b] = rows
      /\ \A s \in Seconds \ {second} : logFiles'[s] = logFiles[s]
      /\ \A c \in Backers \ {b} : archiver'[c] = archiver[c]
      /\ logFiles' = [s \in Seconds |-> logFiles'[s]]
      /\ archiver' = [c \in Backers |-> archiver'[c]]
  BY <1>1 DEF LogInv
<1>3. \A r : (logTwice # {} \/ \E s \in Seconds : r \in logFiles[s])
               => (logTwice' # {} \/ \E s \in Seconds : r \in logFiles'[s])
  BY <1>1, <1>2
<1>4. LogIsKept'
  BY <1>1, <1>3 DEF LogInv, LogIsKept
<1>5. \A c \in Backers : \A r \in archiver'[c] :
          logTwice' # {} \/ \E s \in Seconds : r \in logFiles'[s]
  BY <1>1, <1>2, <1>3 DEF LogInv
<1> QED
  BY <1>2, <1>4, <1>5 DEF LogInv

LEMMA DeleteExportedStep ==
  ASSUME BackupInv, NEW b \in Backers, DeleteExported(b)
  PROVE  LogInv'
<1>1. /\ LogInv /\ logTable' \in {logTable, logTable \ archiver[b]}
      /\ archiver' = [archiver EXCEPT ![b] = {}] /\ UNCHANGED <<logFiles, logTwice>>
  BY DEF DeleteExported, BackupInv
<1>2. /\ archiver'[b] = {} /\ \A c \in Backers \ {b} : archiver'[c] = archiver[c]
      /\ archiver' = [c \in Backers |-> archiver'[c]]
  BY <1>1 DEF LogInv
<1>3. LogIsKept'
  BY <1>1 DEF LogInv, LogIsKept
<1> QED
  BY <1>1, <1>2, <1>3 DEF LogInv

\* A backup that is listed has its files and in them whatever a store held all the while, but for
\* the keys of Redis that could not be dumped, unless somebody deleted or overwrote one; and a row
\* of the log is in the table or in an archive.
THEOREM BackupsStayKept == BackupSpec => []BackupKept
<1>1. BackupInit => BackupInv
  <2> SUFFICES ASSUME BackupInit PROVE BackupInv
    OBVIOUS
  <2>1. 1 \in Seconds
    BY BackupAssumption DEF Seconds
  <2>2. inStore \in [Stores -> Contents]
    BY DEF BackupInit, Contents
  <2>3. FileTypes
    BY <2>1, <2>2 DEF BackupInit, FileTypes
  <2>4. SteadyInv /\ ListedInv
    BY DEF BackupInit, SteadyInv, ListedInv
  <2>5. BackerInv
    BY DoesWhat DEF BackupInit, BackerInv, BackerIs
  <2>6. LogInv
    BY DEF BackupInit, LogInv, LogIsKept
  <2> QED
    BY <2>3, <2>4, <2>5, <2>6 DEF BackupInv, FilesInv
<1>2. BackupInv /\ [StoresNext \/ LogNext]_fileVars => BackupInv'
  <2> SUFFICES ASSUME BackupInv, [StoresNext \/ LogNext]_fileVars PROVE BackupInv'
    OBVIOUS
  <2>1. FilesInv /\ LogInv
    BY DEF BackupInv
  <2>2. ASSUME UNCHANGED logVars PROVE LogInv'
    BY <2>1, <2>2 DEF logVars, LogInv, LogIsKept
  <2>3. ASSUME UNCHANGED storeVars PROVE FilesInv'
    BY <2>1, <2>3 DEF storeVars, FilesInv, FileTypes, SteadyInv, Held, BackerInv, BackerIs,
                      ListedInv, Holds
  <2>4. CASE Clock
    BY <2>1, <2>2, <2>4, ClockStep DEF Clock, BackupInv
  <2>5. ASSUME NEW k \in Stores, NEW x \in Things, NEW n \in 0..1, Write(k, x, n)
        PROVE  BackupInv'
    BY <2>1, <2>2, <2>5, WriteStep DEF Write, BackupInv
  <2>6. ASSUME NEW b \in Backers, BeginBackup(b) PROVE BackupInv'
    BY <2>1, <2>2, <2>6, BeginBackupStep DEF BeginBackup, BackupInv
  <2>7. ASSUME NEW b \in Backers, ReadStore(b) PROVE BackupInv'
    BY <2>1, <2>2, <2>7, ReadStoreStep DEF ReadStore, BackupInv
  <2>8. ASSUME NEW b \in Backers, WriteDump(b) PROVE BackupInv'
    <3>1. UNCHANGED logVars
      BY <2>8, Zenon DEF WriteDump, logVars
    <3> QED
      BY <2>1, <2>2, <2>8, <3>1, WriteDumpStep, Zenon DEF BackupInv
  <2>9. ASSUME NEW b \in Backers, WriteManifest(b) PROVE BackupInv'
    BY <2>1, <2>2, <2>9, WriteManifestStep DEF WriteManifest, BackupInv
  <2>10. ASSUME NEW b \in Backers, Abandon(b) PROVE BackupInv'
    BY <2>1, <2>2, <2>10, AbandonStep DEF Abandon, BackupInv
  <2>11. ASSUME NEW b \in Backers, RestoreStore(b) PROVE BackupInv'
    <3>1. UNCHANGED logVars
      BY <2>11, Zenon DEF RestoreStore, logVars
    <3> QED
      BY <2>1, <2>2, <2>11, <3>1, RestoreStoreStep, Zenon DEF BackupInv
  <2>12. ASSUME NEW b \in Backers, NEW s \in Seconds, BeginRestore(b, s) PROVE BackupInv'
    BY <2>1, <2>2, <2>12, BeginRestoreStep DEF BeginRestore, BackupInv
  <2>13. ASSUME NEW b \in Backers, NEW s \in Seconds, DeleteBackup(b, s) PROVE BackupInv'
    BY <2>1, <2>2, <2>13, DeleteBackupStep DEF DeleteBackup, BackupInv
  <2>14. ASSUME NEW b \in Backers, NEW k \in Stores, NEW s \in Seconds, DeleteFile(b, k, s)
         PROVE  BackupInv'
    BY <2>1, <2>2, <2>14, DeleteFileStep DEF DeleteFile, BackupInv
  <2>15. ASSUME NEW b \in Backers, DeleteExported(b) PROVE BackupInv'
    BY <2>3, <2>15, DeleteExportedStep DEF DeleteExported, BackupInv, storeVars
  <2>16. ASSUME NEW b \in Backers, NEW n \in LogEntries, ExportLog(b, 1..n) PROVE BackupInv'
    BY <2>3, <2>16, ExportLogStep DEF ExportLog, BackupInv, storeVars
  <2>17. CASE UNCHANGED fileVars
    BY <2>2, <2>3, <2>17 DEF fileVars, storeVars, logVars, BackupInv
  <2>18. CASE StoresNext
    BY <2>4, <2>5, <2>6, <2>7, <2>8, <2>9, <2>10, <2>11, <2>12, <2>13, <2>14, <2>18, Zenon
       DEF StoresNext
  <2>19. CASE LogNext
    BY <2>4, <2>15, <2>16, <2>19, Zenon DEF LogNext
  <2> QED
    BY <2>17, <2>18, <2>19
<1>3. BackupInv => BackupKept
  BY DEF BackupInv, FilesInv, LogInv, ListedInv, Holds, HoldsIn, BackupKept, ListedIsWritten,
         ListedIsComplete, Listed
<1> QED
  BY <1>1, <1>2, <1>3, PTL DEF BackupSpec

=============================================================================
