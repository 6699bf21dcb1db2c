----------------------------- MODULE LeasedJobs -----------------------------
(***************************************************************************)
(* What a lease-based job store promises, with no heartbeat, no back-off,  *)
(* no attempt budget and no worker program: a job is leased to one holder  *)
(* at a time, every lease has an epoch of its own, the outcome kept for a  *)
(* job is the one of its last lease, and a job that is done stays done.    *)
(* TaskQueue is shown to implement it.                                     *)
(***************************************************************************)
EXTENDS Naturals

CONSTANTS
    Jobs,      \* the jobs
    Holders,   \* who may hold a lease
    Nobody     \* the holder of a job that is not leased

VARIABLES
    state,     \* state[j]: where the job is in its life
    epoch,     \* epoch[j]: how many leases were granted on it
    holder,    \* holder[j]: who holds its lease
    outcome    \* outcome[j]: the epoch whose result is kept, 0 while there is none

jobVars == <<state, epoch, holder, outcome>>

JobInit ==
    /\ state = [j \in Jobs |-> "none"]
    /\ epoch = [j \in Jobs |-> 0]
    /\ holder = [j \in Jobs |-> Nobody]
    /\ outcome = [j \in Jobs |-> 0]

Submit(j) ==
    /\ state[j] = "none"
    /\ state' = [state EXCEPT ![j] = "waiting"]
    /\ UNCHANGED <<epoch, holder, outcome>>

\* Granting a lease opens a new epoch.
Lease(j, h) ==
    /\ state[j] = "waiting"
    /\ state' = [state EXCEPT ![j] = "leased"]
    /\ epoch' = [epoch EXCEPT ![j] = epoch[j] + 1]
    /\ holder' = [holder EXCEPT ![j] = h]
    /\ UNCHANGED outcome

\* The result that is kept is the one of the epoch that is open.
Finish(j) ==
    /\ state[j] = "leased"
    /\ state' = [state EXCEPT ![j] = "done"]
    /\ holder' = [holder EXCEPT ![j] = Nobody]
    /\ outcome' = [outcome EXCEPT ![j] = epoch[j]]
    /\ UNCHANGED epoch

\* Leases end without an outcome: given up by their holder or taken away.  The
\* jobs of B are given up for good, the others wait for another lease.
Revoke(S, B) ==
    /\ \A j \in S : state[j] = "leased"
    /\ state' = [j \in Jobs |-> IF j \in B THEN "buried"
                                ELSE IF j \in S THEN "waiting" ELSE state[j]]
    /\ holder' = [j \in Jobs |-> IF j \in S THEN Nobody ELSE holder[j]]
    /\ UNCHANGED <<epoch, outcome>>

\* An operator gives a waiting job up, or brings a buried one back.
Bury(j) ==
    /\ state[j] = "waiting"
    /\ state' = [state EXCEPT ![j] = "buried"]
    /\ UNCHANGED <<epoch, holder, outcome>>

Resubmit(j) ==
    /\ state[j] = "buried"
    /\ state' = [state EXCEPT ![j] = "waiting"]
    /\ UNCHANGED <<epoch, holder, outcome>>

JobNext ==
    \/ \E j \in Jobs : Submit(j) \/ Finish(j) \/ Bury(j) \/ Resubmit(j)
    \/ \E j \in Jobs, h \in Holders : Lease(j, h)
    \/ \E S \in SUBSET Jobs : \E B \in SUBSET S : Revoke(S, B)

JobSpec == JobInit /\ [][JobNext]_jobVars
=============================================================================
