---------------------------- MODULE EventOutbox -----------------------------
(***************************************************************************)
(* The event outbox: one row of domain_events, its rows of                 *)
(* event_deliveries, the dispatchers that poll it and the operators that   *)
(* retry it.  Different events share nothing but the dispatchers' time.    *)
(*                                                                         *)
(* The claim, start_delivery and the heartbeat's conditional UPDATE are    *)
(* atomic.  The other operations read rows without locking them, in the    *)
(* snapshot of their transaction, and write what they decided by primary   *)
(* key: a read action and a write action, with the decision kept in        *)
(* between.  Only the stale scan keeps the event's row locked from one to  *)
(* the other.                                                              *)
(***************************************************************************)
EXTENDS Integers, FiniteSets

CONSTANTS
    Dispatchers,  \* worker ids, one per incarnation of a dispatcher loop
    Subs,         \* subscriber names
    Rank,         \* Rank[s]: place of the subscriber in the sorted list
    SubsOf,       \* SubsOf[d]: the subscriptions registered in d's process
    Operators,    \* concurrent requests to retry the event
    NoOne,        \* no lease, no lock
    NoSub,        \* no delivery under way
    EventMax,     \* max_attempts of the event
    SubMax,       \* SubMax[s]: max_attempts of the subscription
    Stalls,       \* may a live dispatcher miss its heartbeats past the cutoff?
    MaxRetries,   \* bound: operator retries
    MaxFaults     \* bound: crashes and failed transactions

ASSUME OutboxAssumption ==
    /\ NoOne \notin Dispatchers
    /\ NoSub \notin Subs
    /\ Rank \in [Subs -> Int]
    /\ SubsOf \in [Dispatchers -> SUBSET Subs]
    /\ EventMax \in Nat \ {0}
    /\ SubMax \in [Subs -> Nat \ {0}]
    /\ Stalls \in BOOLEAN
    /\ MaxRetries \in Nat
    /\ MaxFaults \in Nat

VARIABLES
    evStatus,    \* the event's status
    evAttempts,  \* its attempts, one per claim
    evMax,       \* its max_attempts
    evLock,      \* its locked_by
    evBeat,      \* age of its locked_at: "none" (NULL), "fresh" or "stale"
    evDue,       \* available_at <= now
    rowLock,     \* the stale scan that holds the event's row
    dStatus,     \* dStatus[s]: status of the delivery row, "absent" without one
    dAttempts,   \* dAttempts[s]: its attempts, one per start of the handler
    dMax,        \* dMax[s]: its max_attempts
    dDue,        \* dDue[s]: next_attempt_at <= now
    pc,          \* pc[d]: where the dispatcher is in dispatch_event_once
    todo,        \* todo[d]: subscribers to insert, then to serve
    cur,         \* cur[d]: the subscriber it serves
    verdict,     \* verdict[d]: the status it decided to write
    marks,       \* marks[d]: the delivery statuses its stale scan decided to write
    opSeen,      \* opSeen[o]: what a retry request read, once it has read
    retries,     \* operator retries so far
    faults,      \* faults so far
    acked        \* acked[s]: history, a success of s was once recorded

event == <<evStatus, evAttempts, evMax, evLock, evBeat, evDue>>
deliveries == <<dStatus, dAttempts, dMax, dDue, acked>>
locals == <<todo, cur, verdict, marks>>
requests == <<opSeen, retries>>
vars == <<event, rowLock, deliveries, pc, locals, requests, faults>>

NotRead == [read |-> FALSE]

\* A dispatch under way, from the claim to the last statement.
InPass(d) == pc[d] \in {"ensure", "insert", "loop", "running", "completing",
                        "failing", "marking", "finalizing"}

TypeOK ==
    /\ evStatus \in {"absent", "pending", "dispatching", "published", "failed", "dead"}
    /\ evAttempts \in Nat /\ evMax \in Nat
    /\ evLock \in Dispatchers \cup {NoOne}
    /\ evBeat \in {"none", "fresh", "stale"}
    /\ evDue \in BOOLEAN
    /\ rowLock \in Dispatchers \cup {NoOne}
    /\ dStatus \in [Subs -> {"absent", "pending", "running", "succeeded", "failed", "dead"}]
    /\ dAttempts \in [Subs -> Nat] /\ dMax \in [Subs -> Nat]
    /\ dDue \in [Subs -> BOOLEAN]
    /\ acked \in [Subs -> BOOLEAN]
    /\ \A d \in Dispatchers : InPass(d) \/ pc[d] \in {"idle", "recovering", "gone"}
    /\ todo \in [Dispatchers -> SUBSET Subs]
    /\ cur \in [Dispatchers -> Subs \cup {NoSub}]
    /\ verdict \in [Dispatchers -> {"none", "published", "failed", "dead"}]
    /\ marks \in [Dispatchers -> [Subs -> {"none", "failed", "dead"}]]
    /\ retries \in Nat /\ faults \in Nat

Init ==
    /\ evStatus = "absent" /\ evAttempts = 0 /\ evMax = EventMax
    /\ evLock = NoOne /\ evBeat = "none" /\ evDue \in BOOLEAN
    /\ rowLock = NoOne
    /\ dStatus = [s \in Subs |-> "absent"]
    /\ dAttempts = [s \in Subs |-> 0]
    /\ dMax = [s \in Subs |-> 0]
    /\ dDue = [s \in Subs |-> FALSE]
    /\ acked = [s \in Subs |-> FALSE]
    /\ pc = [d \in Dispatchers |-> "idle"]
    /\ todo = [d \in Dispatchers |-> {}]
    /\ cur = [d \in Dispatchers |-> NoSub]
    /\ verdict = [d \in Dispatchers |-> "none"]
    /\ marks = [d \in Dispatchers |-> [s \in Subs |-> "none"]]
    /\ opSeen = [o \in Operators |-> NotRead]
    /\ retries = 0 /\ faults = 0

Goto(d, place) == pc' = [pc EXCEPT ![d] = place]

\* The dispatcher is back in its polling loop, or gone: it keeps nothing.
Leave(d, place) ==
    /\ Goto(d, place)
    /\ todo' = [todo EXCEPT ![d] = {}]
    /\ cur' = [cur EXCEPT ![d] = NoSub]
    /\ verdict' = [verdict EXCEPT ![d] = "none"]
    /\ marks' = [marks EXCEPT ![d] = [s \in Subs |-> "none"]]

Fault ==
    /\ faults < MaxFaults
    /\ faults' = faults + 1

-----------------------------------------------------------------------------
(* A dispatch.                                                             *)

\* publish_event_record inserts the event, for now or for later.
Publish ==
    /\ evStatus = "absent" /\ evStatus' = "pending"
    /\ UNCHANGED <<evAttempts, evMax, evLock, evBeat, evDue, rowLock, deliveries, pc, locals,
                   requests, faults>>

EventClaimable ==
    /\ evStatus \in {"pending", "failed"}
    /\ evDue
    /\ evAttempts < evMax

\* Mutant: attempts are left to the failure path.
Counted == evAttempts

\* A claim counts an attempt.
NextAttempt == evAttempts + 1

\* claim_next_event.
ClaimEvent(d) ==
    /\ pc[d] = "idle"
    /\ EventClaimable
    /\ rowLock = NoOne
    /\ evStatus' = "dispatching"
    /\ evAttempts' = NextAttempt
    /\ evLock' = d
    /\ evBeat' = "fresh"
    /\ Goto(d, "ensure")
    /\ UNCHANGED <<evMax, evDue, rowLock, deliveries, locals, requests, faults>>

\* ensure_deliveries, the SELECT: which subscriptions have no row yet.
EnsureRead(d) ==
    /\ pc[d] = "ensure"
    /\ todo' = [todo EXCEPT ![d] = {s \in SubsOf[d] : dStatus[s] = "absent"}]
    /\ Goto(d, "insert")
    /\ UNCHANGED <<event, rowLock, deliveries, cur, verdict, marks, requests, faults>>

\* ensure_deliveries, the INSERTs, whose foreign key needs the event's row.
\* next_attempt_at is now, rounded to the second: it may lie ahead.
EnsureWrite(d) ==
    /\ pc[d] = "insert"
    /\ rowLock = NoOne
    /\ \A s \in todo[d] : dStatus[s] = "absent"
    /\ dStatus' = [s \in Subs |-> IF s \in todo[d] THEN "pending" ELSE dStatus[s]]
    /\ dMax' = [s \in Subs |-> IF s \in todo[d] THEN SubMax[s] ELSE dMax[s]]
    /\ \E late \in SUBSET todo[d] :
          dDue' = [s \in Subs |-> IF s \in todo[d] THEN s \notin late ELSE dDue[s]]
    /\ todo' = [todo EXCEPT ![d] = SubsOf[d]]
    /\ Goto(d, "loop")
    /\ UNCHANGED <<event, rowLock, dAttempts, acked, cur, verdict, marks, requests, faults>>

\* Another dispatcher inserted one of them: the unique key raises and the
\* exception leaves dispatch_event_once.
EnsureConflict(d) ==
    /\ pc[d] = "insert"
    /\ \E s \in todo[d] : dStatus[s] # "absent"
    /\ Leave(d, "idle")
    /\ UNCHANGED <<event, rowLock, deliveries, requests, faults>>

\* Mutant: a success is no reason to skip the subscriber.
SkipDead(s) == dStatus[s] \in {"absent", "dead"} \/ ~dDue[s]

\* start_delivery refuses: nothing to do for the subscriber, or not yet.
Skip(s) == dStatus[s] \in {"absent", "succeeded", "dead"} \/ ~dDue[s]

\* The subscriptions are served in the order of their names.
Turn(d, s) ==
    /\ pc[d] = "loop"
    /\ s \in todo[d]
    /\ \A u \in todo[d] : Rank[s] <= Rank[u]
    /\ todo' = [todo EXCEPT ![d] = todo[d] \ {s}]

SkipDelivery(d, s) ==
    /\ Turn(d, s)
    /\ Skip(s)
    /\ UNCHANGED <<event, rowLock, deliveries, pc, cur, verdict, marks, requests, faults>>

\* start_delivery, under the row's lock; a row that is already running is taken
\* like any other.
StartDelivery(d, s) ==
    /\ Turn(d, s)
    /\ ~Skip(s)
    /\ dStatus' = [dStatus EXCEPT ![s] = "running"]
    /\ dAttempts' = [dAttempts EXCEPT ![s] = dAttempts[s] + 1]
    /\ cur' = [cur EXCEPT ![d] = s]
    /\ Goto(d, "running")
    /\ UNCHANGED <<event, rowLock, dMax, dDue, acked, verdict, marks, requests, faults>>

\* The handler returns; complete_delivery reads the row.
CompleteRead(d) ==
    /\ pc[d] = "running"
    /\ Goto(d, IF dStatus[cur[d]] = "running" THEN "completing" ELSE "loop")
    /\ UNCHANGED <<event, rowLock, deliveries, locals, requests, faults>>

CompleteWrite(d) ==
    /\ pc[d] = "completing"
    /\ dStatus' = [dStatus EXCEPT ![cur[d]] = "succeeded"]
    /\ acked' = [acked EXCEPT ![cur[d]] = TRUE]
    /\ Goto(d, "loop")
    /\ UNCHANGED <<event, rowLock, dAttempts, dMax, dDue, locals, requests, faults>>

\* complete_delivery fails: dispatch_event_once takes it for a failed handler.
CompleteAborts(d) ==
    /\ pc[d] = "completing"
    /\ Goto(d, "failing")
    /\ Fault
    /\ UNCHANGED <<event, rowLock, deliveries, locals, requests>>

\* Mutant: a status of its own for the last failure.
AfterFailureGivenUp(s) == IF dAttempts[s] >= dMax[s] THEN "given_up" ELSE "failed"

\* The status a delivery gets after a failure, from the attempts that were read.
AfterFailure(s) == IF dAttempts[s] >= dMax[s] THEN "dead" ELSE "failed"

\* The handler raises; fail_delivery reads the row.
FailRead(d) ==
    /\ pc[d] \in {"running", "failing"}
    /\ \/ /\ dStatus[cur[d]] = "running"
          /\ verdict' = [verdict EXCEPT ![d] = AfterFailure(cur[d])]
          /\ Goto(d, "marking")
       \/ /\ dStatus[cur[d]] # "running"
          /\ Goto(d, "loop")
          /\ UNCHANGED verdict
    /\ UNCHANGED <<event, rowLock, deliveries, todo, cur, marks, requests, faults>>

FailWrite(d) ==
    /\ pc[d] = "marking"
    /\ dStatus' = [dStatus EXCEPT ![cur[d]] = verdict[d]]
    /\ dDue' = [dDue EXCEPT ![cur[d]] = dDue[cur[d]] /\ verdict[d] = "dead"]
    /\ verdict' = [verdict EXCEPT ![d] = "none"]
    /\ Goto(d, "loop")
    /\ UNCHANGED <<event, rowLock, dAttempts, dMax, acked, todo, cur, marks, requests, faults>>

Rows == {s \in Subs : dStatus[s] # "absent"}

\* Mutant: off by one in the attempt budget.
OutcomeOffByOne ==
    IF \A s \in Rows : dStatus[s] = "succeeded" THEN "published"
    ELSE IF evAttempts > evMax THEN "dead" ELSE "failed"

\* What finalize_event makes of the deliveries: no row at all is a success.
Outcome ==
    IF \A s \in Rows : dStatus[s] = "succeeded" THEN "published"
    ELSE IF (\E s \in Rows : dStatus[s] = "dead") \/ evAttempts >= evMax THEN "dead"
    ELSE "failed"

\* finalize_event, the reads: it does not ask who holds the lease.
FinalizeRead(d) ==
    /\ pc[d] = "loop"
    /\ todo[d] = {}
    /\ \/ /\ evStatus = "dispatching"
          /\ verdict' = [verdict EXCEPT ![d] = Outcome]
          /\ Goto(d, "finalizing")
          /\ UNCHANGED <<todo, cur, marks>>
       \/ /\ evStatus # "dispatching"
          /\ Leave(d, "idle")
    /\ UNCHANGED <<event, rowLock, deliveries, requests, faults>>

FinalizeWrite(d) ==
    /\ pc[d] = "finalizing"
    /\ rowLock = NoOne
    /\ evStatus' = verdict[d]
    /\ evLock' = NoOne
    /\ evBeat' = "none"
    /\ evDue' = (evDue /\ verdict[d] # "failed")
    /\ Leave(d, "idle")
    /\ UNCHANGED <<evAttempts, evMax, rowLock, deliveries, requests, faults>>

\* _heartbeat_loop: an UPDATE that asks for the status and the owner.
Heartbeat(d) ==
    /\ InPass(d)
    /\ rowLock = NoOne
    /\ evStatus = "dispatching" /\ evLock = d /\ evBeat = "stale"
    /\ evBeat' = "fresh"
    /\ UNCHANGED <<evStatus, evAttempts, evMax, evLock, evDue, rowLock, deliveries, pc,
                   locals, requests, faults>>

-----------------------------------------------------------------------------
(* Recovery, faults, operators and time.                                   *)

\* Mutant: only events whose locked_at is NULL.
EventUnlocked == evStatus = "dispatching" /\ evBeat = "none"

EventStale == evStatus = "dispatching" /\ evBeat \in {"none", "stale"}

\* recover_stale_events, the reads: the event's row is locked, its deliveries
\* are not.
RecoverRead(d) ==
    /\ pc[d] = "idle"
    /\ EventStale
    /\ rowLock = NoOne
    /\ rowLock' = d
    /\ marks' = [marks EXCEPT ![d] =
                   [s \in Subs |-> IF dStatus[s] = "running" THEN AfterFailure(s) ELSE "none"]]
    /\ Goto(d, "recovering")
    /\ UNCHANGED <<event, deliveries, todo, cur, verdict, requests, faults>>

RecoverWrite(d) ==
    /\ pc[d] = "recovering"
    /\ dStatus' = [s \in Subs |-> IF marks[d][s] = "none" THEN dStatus[s] ELSE marks[d][s]]
    /\ dDue' = [s \in Subs |-> dDue[s] \/ marks[d][s] = "failed"]
    /\ evLock' = NoOne
    /\ evBeat' = "none"
    /\ evStatus' = IF evAttempts >= evMax THEN "dead" ELSE "failed"
    /\ evDue' = (evDue \/ evAttempts < evMax)
    /\ rowLock' = NoOne
    /\ Leave(d, "idle")
    /\ UNCHANGED <<evAttempts, evMax, dAttempts, dMax, acked, requests, faults>>

\* A transaction fails and the exception leaves dispatch_event_once or the scan;
\* or the process dies or is cancelled.  The event's row is left as it is.
GiveUp(d, place) ==
    /\ pc[d] \notin {place, "gone"}
    /\ rowLock' = IF rowLock = d THEN NoOne ELSE rowLock
    /\ Leave(d, place)
    /\ Fault
    /\ UNCHANGED <<event, deliveries, requests>>

\* retry_event, the reads.
RetryRead(o) ==
    /\ ~opSeen[o].read
    /\ retries < MaxRetries
    /\ evStatus \in {"failed", "dead"}
    /\ retries' = retries + 1
    /\ opSeen' = [opSeen EXCEPT ![o] =
          [read |-> TRUE, ended |-> {s \in Subs : dStatus[s] \in {"failed", "dead"}},
           attempts |-> evAttempts, max |-> evMax, tries |-> dAttempts, bounds |-> dMax]]
    /\ UNCHANGED <<event, rowLock, deliveries, pc, locals, faults>>

\* retry_event, the writes: an UPDATE names only the columns that differ from
\* what was read.
RetryWrite(o) ==
    LET seen == opSeen[o] IN
    /\ seen.read
    /\ rowLock = NoOne
    /\ evStatus' = "pending"
    /\ evMax' = IF seen.attempts >= seen.max THEN seen.attempts + 1 ELSE evMax
    /\ evDue' = TRUE
    /\ dStatus' = [s \in Subs |-> IF s \in seen.ended THEN "pending" ELSE dStatus[s]]
    /\ dMax' = [s \in Subs |-> IF s \in seen.ended /\ seen.tries[s] >= seen.bounds[s]
                               THEN seen.tries[s] + 1 ELSE dMax[s]]
    /\ dDue' = [s \in Subs |-> dDue[s] \/ s \in seen.ended]
    /\ opSeen' = [opSeen EXCEPT ![o] = NotRead]
    /\ UNCHANGED <<evAttempts, evLock, evBeat, rowLock, dAttempts, acked, pc, locals,
                   retries, faults>>

\* The heartbeat grows older than the cutoff: nobody sends it any more, or the
\* dispatcher that should is stalled.
LeaseAges ==
    /\ evBeat = "fresh"
    /\ Stalls \/ ~\E d \in Dispatchers : InPass(d) /\ evLock = d
    /\ evBeat' = "stale"
    /\ UNCHANGED <<evStatus, evAttempts, evMax, evLock, evDue, rowLock, deliveries, pc,
                   locals, requests, faults>>

\* The event's back-off ends; a delivery's is never longer than that of the
\* dispatch in which it failed.
EventBackoffElapses ==
    /\ evStatus \in {"pending", "failed"} /\ ~evDue
    /\ evDue' = TRUE
    /\ dDue' = [s \in Subs |-> dStatus[s] # "absent"]
    /\ UNCHANGED <<evStatus, evAttempts, evMax, evLock, evBeat, rowLock, dStatus,
                   dAttempts, dMax, acked, pc, locals, requests, faults>>

DeliveryBackoffElapses(s) ==
    /\ dStatus[s] \in {"pending", "failed"} /\ ~dDue[s]
    /\ dDue' = [dDue EXCEPT ![s] = TRUE]
    /\ UNCHANGED <<event, rowLock, dStatus, dAttempts, dMax, acked, pc, locals,
                   requests, faults>>

-----------------------------------------------------------------------------
\* What a dispatcher does once it has a claim.
Dispatch(d) ==
    \/ EnsureRead(d) \/ EnsureWrite(d) \/ EnsureConflict(d)
    \/ \E s \in Subs : SkipDelivery(d, s) \/ StartDelivery(d, s)
    \/ CompleteRead(d) \/ CompleteWrite(d) \/ FailRead(d) \/ FailWrite(d)
    \/ FinalizeRead(d) \/ FinalizeWrite(d)

DispatcherStep(d) ==
    \/ ClaimEvent(d) \/ Dispatch(d) \/ Heartbeat(d)
    \/ RecoverRead(d) \/ RecoverWrite(d)
    \/ CompleteAborts(d) \/ GiveUp(d, "idle") \/ GiveUp(d, "gone")

Next ==
    \/ \E d \in Dispatchers : DispatcherStep(d)
    \/ \E o \in Operators : RetryRead(o) \/ RetryWrite(o)
    \/ Publish \/ LeaseAges \/ EventBackoffElapses
    \/ \E s \in Subs : DeliveryBackoffElapses(s)

Spec == Init /\ [][Next]_vars

\* Dispatchers poll, scan and go on with a dispatch; handlers end; time passes.
Fairness ==
    /\ \A d \in Dispatchers :
        /\ WF_vars(ClaimEvent(d)) /\ WF_vars(Dispatch(d))
        /\ SF_vars(RecoverRead(d)) /\ WF_vars(RecoverWrite(d))
    /\ WF_vars(LeaseAges) /\ WF_vars(EventBackoffElapses)

FairSpec == Spec /\ Fairness

-----------------------------------------------------------------------------
(* Properties.                                                             *)

\* Two dispatchers never work on the event at the same time.
SolePass ==
    \A c, d \in Dispatchers : InPass(c) /\ InPass(d) => c = d

\* A published event was delivered to every subscriber that has a row, and what
\* was recorded stays that way.
PublishedMeansDelivered ==
    evStatus = "published" => \A s \in Rows : dStatus[s] = "succeeded"

\* An event that waits for a dispatcher has an attempt left: claim_next_event
\* never takes one without, and nothing would move it to dead.
EventNeverStranded == evStatus \in {"pending", "failed"} => evAttempts < evMax

\* As long as no lease is lost, the event keeps all three promises.
EventsAreKept == SolePass /\ PublishedMeansDelivered /\ EventNeverStranded

\* A subscriber whose success was recorded is not executed again by a retry: the
\* docstring of EventDelivery.
NoRerunAfterSuccess ==
    [][\A s \in Subs : acked[s] => dAttempts'[s] = dAttempts[s]]_vars

\* Whatever dispatchers stall, crash or race: a claim buys at most one execution
\* of each subscriber.
OneRunPerClaim == \A s \in Subs : dAttempts[s] <= evAttempts

\* The event ends published or dead.
EventSettles == <>[](evStatus \in {"absent", "published", "dead"})

\* No dispatcher, dead or alive, keeps the event leased for ever.
NoLeaseForever == []<>(evStatus # "dispatching")
=============================================================================
