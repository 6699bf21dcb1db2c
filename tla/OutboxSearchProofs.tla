------------------------- MODULE OutboxSearchProofs -------------------------
(***************************************************************************)
(* Two ends of the system that share nothing but this module.              *)
(*                                                                         *)
(* The outbox: what holds of EventOutbox for any number of dispatchers,    *)
(* subscribers, attempts, retries and faults.                              *)
(*                                                                         *)
(* Search: what is served its asker may read, is in force, was found and   *)
(* fits what was asked, whatever the indexes find and the models make; and *)
(* what is served to nearly the same question is near, comes from the same *)
(* model and cites nothing that is withdrawn.                              *)
(***************************************************************************)
EXTENDS EventOutbox, Retrieval, SemanticIndex, FiniteSetTheorems, SequenceTheorems,
        WellFoundedInduction, TLAPS

Places == {"idle", "ensure", "insert", "loop", "running", "completing", "failing",
           "marking", "finalizing", "recovering", "gone"}

Serving(d) == pc[d] \in {"running", "completing", "failing", "marking"}

\* What a retry has read of the event and its deliveries.
Reads == [read : {TRUE}, ended : SUBSET Subs, attempts : Nat, max : Nat,
          tries : [Subs -> Nat], bounds : [Subs -> Nat]]

\* A dispatcher that serves has a subscriber, and one that is about to write has decided what.
TypeInv ==
    /\ TypeOK
    /\ pc \in [Dispatchers -> Places]
    /\ opSeen \in [Operators -> {NotRead} \cup Reads]
    /\ \A d \in Dispatchers :
          /\ Serving(d) => cur[d] \in Subs
          /\ pc[d] = "marking" => verdict[d] \in {"failed", "dead"}
          /\ pc[d] = "finalizing" => verdict[d] \in {"published", "failed", "dead"}

\* The dispatchers that may still start the handler of s for the claim they have.
Owes(s, d) == InPass(d) /\ (pc[d] \in {"ensure", "insert"} \/ s \in todo[d])
Owing(s) == {d \in Dispatchers : Owes(s, d)}

\* Every claim is good for one execution: those that ran and those that still may are no more
\* than the claims.
RunsCounted ==
    \A s \in Subs :
        IsFiniteSet(Owing(s)) /\ dAttempts[s] + Cardinality(Owing(s)) <= evAttempts

-----------------------------------------------------------------------------
\* The first state is type correct.
LEMMA InitTyped == Init => TypeInv
BY OutboxAssumption
   DEF Init, TypeInv, TypeOK, InPass, Places, Serving

\* Every step of dispatchers, operators and time keeps the types.
LEMMA TypeStep == TypeInv /\ [Next]_vars => TypeInv'
<1> SUFFICES ASSUME TypeInv, [Next]_vars PROVE TypeInv'
  OBVIOUS
<1> USE OutboxAssumption DEF TypeInv, TypeOK, InPass, Places, Serving
<1>1. ASSUME NEW d \in Dispatchers, NEW place \in {"idle", "gone"}, Leave(d, place),
             UNCHANGED <<deliveries, requests>>, evStatus' \in {"absent", "pending",
                 "dispatching", "published", "failed", "dead"},
             evAttempts' \in Nat, evMax' \in Nat, evLock' \in Dispatchers \cup {NoOne},
             evBeat' \in {"none", "fresh", "stale"}, evDue' \in BOOLEAN,
             rowLock' \in Dispatchers \cup {NoOne}, faults' \in Nat
      PROVE  TypeInv'
  BY <1>1 DEF Leave, Goto, deliveries, requests
<1>2. ASSUME NEW d \in Dispatchers, DispatcherStep(d) PROVE TypeInv'
  <2>1. CASE ClaimEvent(d)
    BY <2>1 DEF ClaimEvent, NextAttempt, Goto, deliveries, locals, requests
  <2>2. CASE EnsureRead(d)
    BY <2>2 DEF EnsureRead, Goto, event, deliveries, requests
  <2>3. CASE EnsureWrite(d)
    BY <2>3 DEF EnsureWrite, Goto, event, requests
  <2>4. CASE EnsureConflict(d)
    BY <1>1, <2>4 DEF EnsureConflict, event
  <2>5. ASSUME NEW s \in Subs, SkipDelivery(d, s) PROVE TypeInv'
    BY <2>5 DEF SkipDelivery, Turn, event, deliveries, requests
  <2>6. ASSUME NEW s \in Subs, StartDelivery(d, s) PROVE TypeInv'
    BY <2>6 DEF StartDelivery, Turn, Goto, event, requests
  <2>7. CASE CompleteRead(d)
    BY <2>7 DEF CompleteRead, Goto, event, deliveries, locals, requests
  <2>8. CASE CompleteWrite(d)
    BY <2>8 DEF CompleteWrite, Goto, event, locals, requests
  <2>9. CASE CompleteAborts(d)
    BY <2>9 DEF CompleteAborts, Goto, Fault, event, deliveries, locals, requests
  <2>10. CASE FailRead(d)
    BY <2>10, ZenonT(120) DEF FailRead, AfterFailure, Goto, event, deliveries, requests
  <2>11. CASE FailWrite(d)
    BY <2>11 DEF FailWrite, Goto, event, requests
  <2>12. CASE FinalizeRead(d)
    BY <1>1, <2>12, ZenonT(120) DEF FinalizeRead, Outcome, Goto, event, deliveries, requests
  <2>13. CASE FinalizeWrite(d)
    BY <1>1, <2>13 DEF FinalizeWrite
  <2>14. CASE Heartbeat(d)
    BY <2>14 DEF Heartbeat, deliveries, locals, requests
  <2>15. CASE RecoverRead(d)
    BY <2>15 DEF RecoverRead, AfterFailure, Goto, event, deliveries, requests
  <2>16. CASE RecoverWrite(d)
    BY <2>16 DEF RecoverWrite, Leave, Goto, requests
  <2>17. ASSUME NEW place \in {"idle", "gone"}, GiveUp(d, place) PROVE TypeInv'
    BY <1>1, <2>17 DEF GiveUp, Fault, event
  <2> QED
    BY <1>2, <2>1, <2>2, <2>3, <2>4, <2>5, <2>6, <2>7, <2>8, <2>9, <2>10, <2>11, <2>12,
       <2>13, <2>14, <2>15, <2>16, <2>17 DEF DispatcherStep, Dispatch
<1>3. ASSUME NEW o \in Operators, RetryRead(o) PROVE TypeInv'
  <2>1. PICK seen \in Reads : opSeen' = [opSeen EXCEPT ![o] = seen]
    BY <1>3 DEF RetryRead, Reads
  <2>2. UNCHANGED <<event, rowLock, deliveries, pc, locals, faults>> /\ retries' = retries + 1
    BY <1>3 DEF RetryRead
  <2> QED
    BY <2>1, <2>2 DEF event, deliveries, locals
<1>4. ASSUME NEW o \in Operators, RetryWrite(o) PROVE TypeInv'
  <2>1. opSeen[o] \in Reads
    BY <1>4 DEF RetryWrite, NotRead
  <2>2. /\ opSeen[o].attempts \in Nat /\ opSeen[o].tries \in [Subs -> Nat]
        /\ opSeen[o].ended \subseteq Subs
    BY <2>1 DEF Reads
  <2>3. /\ dStatus' \in [Subs -> {"absent", "pending", "running", "succeeded", "failed", "dead"}]
        /\ dMax' \in [Subs -> Nat] /\ dDue' \in [Subs -> BOOLEAN]
        /\ evStatus' = "pending" /\ evMax' \in Nat /\ evDue' = TRUE
        /\ opSeen' \in [Operators -> {NotRead} \cup Reads]
    BY <1>4, <2>2 DEF RetryWrite
  <2>4. UNCHANGED <<evAttempts, evLock, evBeat, rowLock, dAttempts, acked, pc, locals, retries,
                    faults>>
    BY <1>4 DEF RetryWrite
  <2> QED
    BY <2>3, <2>4 DEF locals
<1>5. CASE Publish \/ LeaseAges \/ EventBackoffElapses
  BY <1>5 DEF Publish, LeaseAges, EventBackoffElapses, deliveries, locals, requests
<1>6. ASSUME NEW s \in Subs, DeliveryBackoffElapses(s) PROVE TypeInv'
  BY <1>6 DEF DeliveryBackoffElapses, event, locals, requests
<1>7. CASE UNCHANGED vars
  BY <1>7 DEF vars, event, deliveries, locals, requests
<1> QED
  BY <1>2, <1>3, <1>4, <1>5, <1>6, <1>7 DEF Next

\* Every reachable state is type correct, whoever stalls, crashes or retries.
THEOREM TypeCorrect == Spec => []TypeOK
<1>1. TypeInv => TypeOK
  BY DEF TypeInv
<1> QED
  BY <1>1, InitTyped, TypeStep, PTL DEF Spec

\* So are the parts of the program's state that only its places give a type.
LEMMA Typed == Spec => []TypeInv
BY InitTyped, TypeStep, PTL DEF Spec

-----------------------------------------------------------------------------
(* A claim buys one execution.                                             *)

\* Whoever goes on without a new claim and without starting a handler owes no more than before.
LEMMA OwingShrinks ==
  ASSUME RunsCounted, dAttempts' = dAttempts, evAttempts' = evAttempts,
         dAttempts \in [Subs -> Nat], evAttempts \in Nat,
         \A s \in Subs : \A d \in Dispatchers : Owes(s, d)' => Owes(s, d)
  PROVE  RunsCounted'
<1> SUFFICES ASSUME NEW s \in Subs
             PROVE  IsFiniteSet(Owing(s)') /\ dAttempts[s] + Cardinality(Owing(s)') <= evAttempts
  BY DEF RunsCounted
<1>1. Owing(s)' \in SUBSET Owing(s)
  BY DEF Owing
<1>2. IsFiniteSet(Owing(s)) /\ dAttempts[s] + Cardinality(Owing(s)) <= evAttempts
  BY DEF RunsCounted
<1>3. /\ IsFiniteSet(Owing(s)') /\ Cardinality(Owing(s)') <= Cardinality(Owing(s))
      /\ Cardinality(Owing(s)) \in Nat /\ Cardinality(Owing(s)') \in Nat
  BY <1>1, <1>2, FS_Subset, FS_CardinalityType
<1> QED
  BY <1>2, <1>3

\* A claim makes its dispatcher owe one execution of everybody.
LEMMA ClaimCounts ==
  ASSUME TypeInv, RunsCounted, NEW d \in Dispatchers, ClaimEvent(d)
  PROVE  RunsCounted'
<1> SUFFICES ASSUME NEW s \in Subs
             PROVE  IsFiniteSet(Owing(s)') /\ dAttempts[s] + Cardinality(Owing(s)') <= evAttempts'
  BY DEF RunsCounted, ClaimEvent, deliveries
<1>1. Owing(s)' \in SUBSET (Owing(s) \cup {d})
  BY DEF ClaimEvent, Goto, Owing, Owes, InPass, locals, TypeInv, TypeOK
<1>2. IsFiniteSet(Owing(s)) /\ dAttempts[s] + Cardinality(Owing(s)) <= evAttempts
  BY DEF RunsCounted
<1>3. /\ IsFiniteSet(Owing(s) \cup {d}) /\ Cardinality(Owing(s)) \in Nat
      /\ Cardinality(Owing(s) \cup {d}) <= Cardinality(Owing(s)) + 1
      /\ Cardinality(Owing(s) \cup {d}) \in Nat
  <2>1. IsFiniteSet(Owing(s) \cup {d}) /\ Cardinality(Owing(s)) \in Nat
    BY <1>2, FS_AddElement, FS_CardinalityType
  <2>2. Cardinality(Owing(s) \cup {d}) =
            IF d \in Owing(s) THEN Cardinality(Owing(s)) ELSE Cardinality(Owing(s)) + 1
    BY <1>2, FS_AddElement
  <2> QED
    BY <2>1, <2>2
<1>4. /\ IsFiniteSet(Owing(s)') /\ Cardinality(Owing(s)') <= Cardinality(Owing(s) \cup {d})
      /\ Cardinality(Owing(s)') \in Nat
  BY <1>1, <1>3, FS_Subset, FS_CardinalityType
<1>5. evAttempts' = evAttempts + 1 /\ evAttempts \in Nat /\ dAttempts[s] \in Nat
  BY DEF ClaimEvent, NextAttempt, TypeInv, TypeOK
<1> QED
  BY <1>2, <1>3, <1>4, <1>5

\* A handler that starts pays what its dispatcher owed.
LEMMA StartCounts ==
  ASSUME TypeInv, RunsCounted, NEW d \in Dispatchers, NEW u \in Subs, StartDelivery(d, u)
  PROVE  RunsCounted'
<1> SUFFICES ASSUME NEW s \in Subs
             PROVE  /\ IsFiniteSet(Owing(s)')
                    /\ dAttempts'[s] + Cardinality(Owing(s)') <= evAttempts'
  BY DEF RunsCounted
<1>1. /\ IsFiniteSet(Owing(s)) /\ dAttempts[s] + Cardinality(Owing(s)) <= evAttempts
      /\ Cardinality(Owing(s)) \in Nat /\ dAttempts[s] \in Nat /\ evAttempts \in Nat
      /\ evAttempts' = evAttempts
  BY FS_CardinalityType DEF RunsCounted, TypeInv, TypeOK, StartDelivery, event
<1>2. CASE s = u
  <2>1. d \in Owing(s) /\ Owing(s)' \in SUBSET (Owing(s) \ {d})
    BY <1>2 DEF StartDelivery, Turn, Goto, Owing, Owes, InPass, TypeInv, TypeOK
  <2>2. /\ IsFiniteSet(Owing(s) \ {d})
        /\ Cardinality(Owing(s) \ {d}) = Cardinality(Owing(s)) - 1
    BY <1>1, <2>1, FS_RemoveElement
  <2>3. /\ IsFiniteSet(Owing(s)') /\ Cardinality(Owing(s)') <= Cardinality(Owing(s)) - 1
        /\ Cardinality(Owing(s)') \in Nat
    BY <2>1, <2>2, FS_Subset, FS_CardinalityType
  <2>4. dAttempts'[s] = dAttempts[s] + 1
    BY <1>2 DEF StartDelivery, TypeInv, TypeOK
  <2> QED
    BY <1>1, <2>3, <2>4
<1>3. CASE s # u
  <2>1. Owing(s)' \in SUBSET Owing(s)
    BY DEF StartDelivery, Turn, Goto, Owing, Owes, InPass, TypeInv, TypeOK
  <2>2. /\ IsFiniteSet(Owing(s)') /\ Cardinality(Owing(s)') <= Cardinality(Owing(s))
        /\ Cardinality(Owing(s)') \in Nat
    BY <1>1, <2>1, FS_Subset, FS_CardinalityType
  <2>3. dAttempts'[s] = dAttempts[s]
    BY <1>3 DEF StartDelivery, TypeInv, TypeOK
  <2> QED
    BY <1>1, <2>2, <2>3
<1> QED
  BY <1>2, <1>3

\* Every other step leaves what is owed as it is, or less.
LEMMA RunsStep == TypeInv /\ RunsCounted /\ [Next]_vars => RunsCounted'
<1> SUFFICES ASSUME TypeInv, RunsCounted, [Next]_vars PROVE RunsCounted'
  OBVIOUS
<1>a. /\ dAttempts \in [Subs -> Nat] /\ evAttempts \in Nat
      /\ pc \in [Dispatchers -> Places] /\ todo \in [Dispatchers -> SUBSET Subs]
  BY DEF TypeInv, TypeOK
<1>1. ASSUME dAttempts' = dAttempts, evAttempts' = evAttempts, UNCHANGED <<pc, todo>>
      PROVE  RunsCounted'
  BY <1>1, <1>a, OwingShrinks DEF Owes, InPass
<1>2. ASSUME dAttempts' = dAttempts, evAttempts' = evAttempts, NEW d \in Dispatchers,
             NEW place \in {"idle", "gone"}, Leave(d, place)
      PROVE  RunsCounted'
  BY <1>2, <1>a, OwingShrinks DEF Leave, Goto, Owes, InPass
<1>3. ASSUME dAttempts' = dAttempts, evAttempts' = evAttempts, NEW d \in Dispatchers,
             NEW place \in Places \ {"ensure", "insert"}, Goto(d, place), todo' = todo, InPass(d),
             pc[d] \notin {"ensure", "insert"}
      PROVE  RunsCounted'
  BY <1>3, <1>a, OwingShrinks DEF Goto, Owes, InPass, Places
<1>4. ASSUME NEW d \in Dispatchers, DispatcherStep(d) PROVE RunsCounted'
  <2>1. CASE ClaimEvent(d)
    BY <2>1, ClaimCounts
  <2>2. CASE EnsureRead(d) \/ EnsureWrite(d)
    <3>1. dAttempts' = dAttempts /\ evAttempts' = evAttempts
      BY <2>2 DEF EnsureRead, EnsureWrite, event, deliveries
    <3>2. \A s \in Subs : \A c \in Dispatchers : Owes(s, c)' => Owes(s, c)
      BY <2>2, <1>a DEF EnsureRead, EnsureWrite, Goto, Owes, InPass
    <3> QED
      BY <3>1, <3>2, <1>a, OwingShrinks
  <2>3. CASE EnsureConflict(d) \/ FinalizeWrite(d) \/ RecoverWrite(d)
             \/ GiveUp(d, "idle") \/ GiveUp(d, "gone")
    BY <1>2, <2>3 DEF EnsureConflict, FinalizeWrite, RecoverWrite, GiveUp, event, deliveries
  <2>4. ASSUME NEW s \in Subs, SkipDelivery(d, s) PROVE RunsCounted'
    <3>1. dAttempts' = dAttempts /\ evAttempts' = evAttempts
      BY <2>4 DEF SkipDelivery, event, deliveries
    <3>2. \A u \in Subs : \A c \in Dispatchers : Owes(u, c)' => Owes(u, c)
      BY <2>4, <1>a DEF SkipDelivery, Turn, Owes, InPass
    <3> QED
      BY <3>1, <3>2, <1>a, OwingShrinks
  <2>5. ASSUME NEW s \in Subs, StartDelivery(d, s) PROVE RunsCounted'
    BY <2>5, StartCounts
  <2>6. CASE CompleteRead(d) \/ CompleteWrite(d) \/ CompleteAborts(d) \/ FailRead(d)
             \/ FailWrite(d)
    BY <1>3, <2>6 DEF CompleteRead, CompleteWrite, CompleteAborts, FailRead, FailWrite,
       Goto, InPass, Places, event, deliveries, locals
  <2>7. CASE FinalizeRead(d)
    BY <1>2, <1>3, <2>7 DEF FinalizeRead, InPass, Places, event, deliveries
  <2>8. CASE Heartbeat(d)
    BY <1>1, <2>8 DEF Heartbeat, deliveries, locals
  <2>9. CASE RecoverRead(d)
    <3>1. dAttempts' = dAttempts /\ evAttempts' = evAttempts
      BY <2>9 DEF RecoverRead, event, deliveries
    <3>2. \A u \in Subs : \A c \in Dispatchers : Owes(u, c)' => Owes(u, c)
      BY <2>9, <1>a DEF RecoverRead, Goto, Owes, InPass
    <3> QED
      BY <3>1, <3>2, <1>a, OwingShrinks
  <2> QED
    BY <1>4, <2>1, <2>2, <2>3, <2>4, <2>5, <2>6, <2>7, <2>8, <2>9 DEF DispatcherStep, Dispatch
<1>5. ASSUME NEW o \in Operators, RetryRead(o) \/ RetryWrite(o) PROVE RunsCounted'
  BY <1>1, <1>5 DEF RetryRead, RetryWrite, event, deliveries, locals
<1>6. CASE \/ Publish \/ LeaseAges \/ EventBackoffElapses
           \/ \E s \in Subs : DeliveryBackoffElapses(s)
  BY <1>1, <1>6 DEF Publish, LeaseAges, EventBackoffElapses, DeliveryBackoffElapses,
     event, deliveries, locals
<1>7. CASE UNCHANGED vars
  BY <1>1, <1>7 DEF vars, event, deliveries, locals
<1> QED
  BY <1>4, <1>5, <1>6, <1>7 DEF Next

\* Whatever dispatchers stall, crash or race, and however often an operator retries: a subscriber
\* runs at most once for a claim of the event.
THEOREM ClaimBuysOneRun == Spec => []OneRunPerClaim
<1>1. Init => RunsCounted
  <2> SUFFICES ASSUME Init, NEW s \in Subs
               PROVE  IsFiniteSet(Owing(s)) /\ dAttempts[s] + Cardinality(Owing(s)) <= evAttempts
    BY DEF RunsCounted
  <2>1. Owing(s) = {} /\ dAttempts[s] = 0 /\ evAttempts = 0
    BY DEF Init, Owing, Owes, InPass
  <2> QED
    BY <2>1, FS_EmptySet
<1>2. TypeInv /\ RunsCounted => OneRunPerClaim
  BY FS_CardinalityType DEF TypeInv, TypeOK, RunsCounted, OneRunPerClaim
<1> QED
  BY <1>1, <1>2, RunsStep, Typed, PTL DEF Spec

-----------------------------------------------------------------------------
(* What the lease keeps apart: dispatchers send their heartbeats in time,  *)
(* and nobody retries by hand.                                             *)

NoRequest == \A o \in Operators : ~opSeen[o].read

\* A pass has the lease, and it is fresh.
PassHasLease ==
    \A d \in Dispatchers : InPass(d) => evStatus = "dispatching" /\ evLock = d /\ evBeat = "fresh"

\* A scan has the row, of an event whose lease is not fresh.
ScanHasRow ==
    \A d \in Dispatchers : pc[d] = "recovering" =>
        rowLock = d /\ evStatus = "dispatching" /\ evBeat # "fresh"

LeaseInv == NoRequest /\ PassHasLease /\ ScanHasRow

\* What a pass and a scan have read of the deliveries is still so when they write, a recorded
\* success stands, and an event that has not ended has an attempt left.
ReadsStand ==
    \A d \in Dispatchers :
        /\ Serving(d) => dStatus[cur[d]] = "running"
        /\ pc[d] = "finalizing" =>
              /\ verdict[d] = "published" => \A s \in Rows : dStatus[s] = "succeeded"
              /\ verdict[d] = "failed" => evAttempts < evMax
        /\ pc[d] = "recovering" => \A s \in Subs : marks[d][s] # "none" => dStatus[s] = "running"
SuccessStands == \A s \in Subs : acked[s] => dStatus[s] = "succeeded"
AttemptsLeft == evStatus \in {"absent", "pending", "failed"} => evAttempts < evMax
DeliveryInv == ReadsStand /\ SuccessStands /\ PublishedMeansDelivered /\ AttemptsLeft

\* A lease is taken only where none is fresh, and given up with the pass.
LEMMA LeaseStep ==
  ASSUME Stalls = FALSE, MaxRetries = 0
  PROVE  TypeInv /\ LeaseInv /\ [Next]_vars => LeaseInv'
<1> SUFFICES ASSUME TypeInv, LeaseInv, [Next]_vars PROVE LeaseInv'
  OBVIOUS
<1>a. /\ pc \in [Dispatchers -> Places] /\ NoOne \notin Dispatchers
      /\ retries \in Nat
  BY OutboxAssumption DEF TypeInv, TypeOK
<1> USE <1>a DEF LeaseInv, NoRequest, PassHasLease, ScanHasRow, InPass
<1>1. ASSUME UNCHANGED <<evStatus, evLock, evBeat, rowLock, opSeen>>, NEW d \in Dispatchers,
             NEW place \in Places \ {"recovering"}, pc' = [pc EXCEPT ![d] = place],
             InPass(d) \/ place \in {"idle", "gone"}
      PROVE  LeaseInv'
  BY <1>1
<1>2. ASSUME NEW d \in Dispatchers, DispatcherStep(d) PROVE LeaseInv'
  <2>1. CASE ClaimEvent(d)
    BY <2>1 DEF ClaimEvent, EventClaimable, Goto, requests
  <2>2. CASE EnsureRead(d) \/ EnsureWrite(d) \/ EnsureConflict(d)
    BY <1>1, <2>2 DEF EnsureRead, EnsureWrite, EnsureConflict, Leave, Goto, event, requests, Places
  <2>3. ASSUME NEW s \in Subs, SkipDelivery(d, s) PROVE LeaseInv'
    BY <2>3 DEF SkipDelivery, event, requests
  <2>4. ASSUME NEW s \in Subs, StartDelivery(d, s) PROVE LeaseInv'
    BY <1>1, <2>4 DEF StartDelivery, Turn, Goto, event, requests, Places
  <2>5. CASE CompleteRead(d) \/ CompleteWrite(d) \/ CompleteAborts(d)
    BY <1>1, <2>5 DEF CompleteRead, CompleteWrite, CompleteAborts, Goto, event, requests, Places
  <2>6. CASE FailRead(d) \/ FailWrite(d) \/ FinalizeRead(d)
    BY <1>1, <2>6 DEF FailRead, FailWrite, FinalizeRead, Leave, Goto, event, requests, Places
  <2>7. CASE FinalizeWrite(d)
    BY <2>7 DEF FinalizeWrite, Leave, Goto, requests
  <2>8. CASE Heartbeat(d)
    BY <2>8 DEF Heartbeat, requests
  <2>9. CASE RecoverRead(d)
    BY <2>9 DEF RecoverRead, EventStale, Goto, event, requests
  <2>10. CASE RecoverWrite(d)
    BY <2>10 DEF RecoverWrite, Leave, Goto, requests
  <2>11. ASSUME NEW place \in {"idle", "gone"}, GiveUp(d, place) PROVE LeaseInv'
    BY <2>11 DEF GiveUp, Leave, Goto, event, requests
  <2> QED
    BY <1>2, <2>1, <2>2, <2>3, <2>4, <2>5, <2>6, <2>7, <2>8, <2>9, <2>10, <2>11
       DEF DispatcherStep, Dispatch
<1>3. ASSUME NEW o \in Operators, RetryRead(o) \/ RetryWrite(o) PROVE FALSE
  BY <1>3 DEF RetryRead, RetryWrite
<1>4. CASE Publish
  BY <1>4 DEF Publish, requests
<1>5. CASE LeaseAges
  BY <1>5 DEF LeaseAges, requests
<1>6. CASE EventBackoffElapses \/ \E s \in Subs : DeliveryBackoffElapses(s)
  BY <1>6 DEF EventBackoffElapses, DeliveryBackoffElapses, event, requests
<1>7. CASE UNCHANGED vars
  BY <1>7 DEF vars, event, requests
<1> QED
  BY <1>2, <1>3, <1>4, <1>5, <1>6, <1>7 DEF Next

\* A pass is alone: no other pass, and no scan.
LEMMA PassIsAlone ==
  ASSUME TypeInv, LeaseInv, NEW d \in Dispatchers, InPass(d),
         NEW c \in Dispatchers, InPass(c) \/ pc[c] = "recovering"
  PROVE  c = d
BY DEF LeaseInv, PassHasLease, ScanHasRow

\* So is a scan.
LEMMA ScanIsAlone ==
  ASSUME TypeInv, LeaseInv, NEW d \in Dispatchers, pc[d] = "recovering",
         NEW c \in Dispatchers, InPass(c) \/ pc[c] = "recovering"
  PROVE  c = d
BY DEF LeaseInv, PassHasLease, ScanHasRow

\* Only the dispatcher that has the event changes what its deliveries look like.
LEMMA DeliveryStep ==
  ASSUME Stalls = FALSE, MaxRetries = 0
  PROVE  TypeInv /\ LeaseInv /\ DeliveryInv /\ [Next]_vars => DeliveryInv'
<1> SUFFICES ASSUME TypeInv, LeaseInv, DeliveryInv, [Next]_vars PROVE DeliveryInv'
  OBVIOUS
<1>a. /\ pc \in [Dispatchers -> Places] /\ retries \in Nat
      /\ evAttempts \in Nat /\ evMax \in Nat
      /\ dStatus \in [Subs -> {"absent", "pending", "running", "succeeded", "failed", "dead"}]
      /\ acked \in [Subs -> BOOLEAN]
      /\ cur \in [Dispatchers -> Subs \cup {NoSub}]
      /\ verdict \in [Dispatchers -> {"none", "published", "failed", "dead"}]
      /\ marks \in [Dispatchers -> [Subs -> {"none", "failed", "dead"}]]
      /\ \A d \in Dispatchers : Serving(d) => cur[d] \in Subs
  BY DEF TypeInv, TypeOK
<1> USE <1>a DEF DeliveryInv, ReadsStand, SuccessStands, PublishedMeansDelivered, AttemptsLeft,
                 Rows, Serving
\* Nothing but the place of one dispatcher changes.
<1>1. ASSUME UNCHANGED <<evStatus, evAttempts, evMax, dStatus, acked, cur, verdict, marks>>,
             NEW d \in Dispatchers,
             NEW place \in Places \ {"running", "completing", "failing", "marking", "finalizing",
                                     "recovering"},
             pc' = [pc EXCEPT ![d] = place]
      PROVE  DeliveryInv'
  BY <1>1
<1>2. ASSUME UNCHANGED <<evStatus, evAttempts, evMax, dStatus, acked>>,
             NEW d \in Dispatchers, NEW place \in {"idle", "gone"}, Leave(d, place)
      PROVE  DeliveryInv'
  BY <1>2 DEF Leave, Goto
<1>3. ASSUME NEW d \in Dispatchers, InPass(d)
      PROVE  /\ \A c \in Dispatchers \ {d} : ~InPass(c) /\ pc[c] # "recovering"
             /\ pc[d] # "recovering" /\ evStatus = "dispatching"
  BY <1>3, PassIsAlone DEF LeaseInv, PassHasLease, InPass
<1>4. ASSUME NEW d \in Dispatchers, pc[d] = "recovering"
      PROVE  \A c \in Dispatchers : ~InPass(c) /\ (c # d => pc[c] # "recovering")
  BY <1>4, ScanIsAlone DEF InPass
<1>5. ASSUME NEW d \in Dispatchers, Dispatch(d) PROVE DeliveryInv'
  <2>0. /\ \A c \in Dispatchers \ {d} : ~InPass(c) /\ pc[c] # "recovering"
        /\ evStatus = "dispatching" /\ InPass(d)
    <3>1. InPass(d)
      BY <1>5 DEF Dispatch, EnsureRead, EnsureWrite, EnsureConflict, SkipDelivery, StartDelivery,
         Turn, CompleteRead, CompleteWrite, FailRead, FailWrite, FinalizeRead, FinalizeWrite,
         InPass
    <3> QED
      BY <1>3, <3>1
  <2> USE <2>0 DEF InPass
  <2>1. CASE EnsureRead(d)
    BY <2>1 DEF EnsureRead, Goto, event, deliveries
  <2>2. CASE EnsureWrite(d)
    BY <2>2 DEF EnsureWrite, Goto, event
  <2>3. CASE EnsureConflict(d)
    BY <1>2, <2>3 DEF EnsureConflict, event, deliveries
  <2>4. ASSUME NEW s \in Subs, SkipDelivery(d, s) PROVE DeliveryInv'
    BY <2>4 DEF SkipDelivery, event, deliveries
  <2>5. ASSUME NEW s \in Subs, StartDelivery(d, s) PROVE DeliveryInv'
    BY <2>5 DEF StartDelivery, Turn, Skip, Goto, event
  <2>6. CASE CompleteRead(d)
    BY <2>6 DEF CompleteRead, Goto, event, deliveries, locals
  <2>7. CASE CompleteWrite(d)
    BY <2>7 DEF CompleteWrite, Goto, event, locals
  <2>8. CASE FailRead(d)
    BY <2>8 DEF FailRead, AfterFailure, Goto, event, deliveries
  <2>9. CASE FailWrite(d)
    BY <2>9 DEF FailWrite, Goto, event
  <2>10. CASE FinalizeRead(d)
    BY <1>2, <2>10 DEF FinalizeRead, Outcome, Goto, event, deliveries
  <2>11. CASE FinalizeWrite(d)
    BY <2>11 DEF FinalizeWrite, Leave, Goto, deliveries
  <2> QED
    BY <1>5, <2>1, <2>2, <2>3, <2>4, <2>5, <2>6, <2>7, <2>8, <2>9, <2>10, <2>11 DEF Dispatch
<1>6. ASSUME NEW d \in Dispatchers, DispatcherStep(d) PROVE DeliveryInv'
  <2>1. CASE ClaimEvent(d)
    <3>1. evStatus \in {"pending", "failed"}
      BY <2>1 DEF ClaimEvent, EventClaimable
    <3>2. \A c \in Dispatchers : ~InPass(c) /\ pc[c] # "recovering"
      BY <3>1, <1>3 DEF LeaseInv, ScanHasRow
    <3> QED
      BY <2>1, <3>2 DEF ClaimEvent, Goto, deliveries, locals, InPass
  <2>2. CASE Heartbeat(d)
    BY <2>2 DEF Heartbeat, deliveries, locals
  <2>3. CASE RecoverRead(d)
    BY <2>3 DEF RecoverRead, Goto, event, deliveries
  <2>4. CASE RecoverWrite(d)
    <3>1. pc[d] = "recovering" /\ \A c \in Dispatchers \ {d} : ~InPass(c) /\ pc[c] # "recovering"
      BY <2>4, <1>4 DEF RecoverWrite
    <3>2. \A s \in Subs : marks[d][s] # "none" => dStatus[s] = "running"
      BY <3>1
    <3> QED
      BY <2>4, <3>1, <3>2 DEF RecoverWrite, Leave, Goto, InPass
  <2>5. CASE CompleteAborts(d)
    BY <2>5 DEF CompleteAborts, Goto, event, deliveries, locals
  <2>6. ASSUME NEW place \in {"idle", "gone"}, GiveUp(d, place) PROVE DeliveryInv'
    BY <1>2, <2>6 DEF GiveUp, event, deliveries
  <2> QED
    BY <1>5, <1>6, <2>1, <2>2, <2>3, <2>4, <2>5, <2>6 DEF DispatcherStep
<1>7. ASSUME NEW o \in Operators, RetryRead(o) \/ RetryWrite(o) PROVE FALSE
  BY <1>7 DEF RetryRead, RetryWrite, LeaseInv, NoRequest
<1>8. CASE \/ Publish \/ LeaseAges \/ EventBackoffElapses
           \/ \E s \in Subs : DeliveryBackoffElapses(s)
  BY <1>8 DEF Publish, LeaseAges, EventBackoffElapses, DeliveryBackoffElapses,
     event, deliveries, locals
<1>9. CASE UNCHANGED vars
  BY <1>9 DEF vars, event, deliveries, locals
<1> QED
  BY <1>6, <1>7, <1>8, <1>9 DEF Next

\* Together they are inductive.
LEMMA LeaseInductive ==
  ASSUME Stalls = FALSE, MaxRetries = 0
  PROVE  Spec => [](TypeInv /\ LeaseInv /\ DeliveryInv)
<1>1. Init => TypeInv /\ LeaseInv /\ DeliveryInv
  <2>1. Init => LeaseInv
    BY OutboxAssumption
       DEF Init, LeaseInv, NoRequest, PassHasLease, ScanHasRow, InPass, NotRead
  <2>2. Init => DeliveryInv
    BY OutboxAssumption
       DEF Init, DeliveryInv, ReadsStand, SuccessStands, AttemptsLeft, Serving,
           PublishedMeansDelivered
  <2> QED
    BY <2>1, <2>2, InitTyped
<1>2. TypeInv /\ LeaseInv /\ DeliveryInv /\ [Next]_vars => (TypeInv /\ LeaseInv /\ DeliveryInv)'
  BY TypeStep, LeaseStep, DeliveryStep
<1> QED
  BY <1>1, <1>2, PTL DEF Spec

\* As long as no lease is lost and nobody retries by hand, a dispatcher has the event for itself,
\* what is published was delivered, and what waits has an attempt left, whatever crashes.
THEOREM EventsKept ==
  ASSUME Stalls = FALSE, MaxRetries = 0
  PROVE  Spec => []EventsAreKept
<1>1. TypeInv /\ LeaseInv /\ DeliveryInv => EventsAreKept
  BY DEF LeaseInv, PassHasLease, DeliveryInv, AttemptsLeft, EventsAreKept, SolePass,
         EventNeverStranded
<1> QED
  BY <1>1, LeaseInductive, PTL

\* Under the same conditions a subscriber whose success was recorded is never executed again.
THEOREM NoRerun ==
  ASSUME Stalls = FALSE, MaxRetries = 0
  PROVE  Spec => NoRerunAfterSuccess
<1>1. TypeInv /\ DeliveryInv /\ [Next]_vars =>
        [\A s \in Subs : acked[s] => dAttempts'[s] = dAttempts[s]]_vars
  <2> SUFFICES ASSUME TypeInv, DeliveryInv, Next, NEW s \in Subs, acked[s]
               PROVE  dAttempts'[s] = dAttempts[s]
    OBVIOUS
  <2>1. dStatus[s] = "succeeded" /\ dAttempts \in [Subs -> Nat]
    BY DEF DeliveryInv, SuccessStands, TypeInv, TypeOK
  <2>2. ASSUME NEW d \in Dispatchers, NEW u \in Subs, StartDelivery(d, u)
        PROVE  dAttempts'[s] = dAttempts[s]
    BY <2>1, <2>2 DEF StartDelivery, Skip
  <2>3. ASSUME NEW d \in Dispatchers, DispatcherStep(d),
               ~\E u \in Subs : StartDelivery(d, u)
        PROVE  dAttempts' = dAttempts
    BY <2>3 DEF DispatcherStep, Dispatch, ClaimEvent, EnsureRead, EnsureWrite, EnsureConflict,
       SkipDelivery, CompleteRead, CompleteWrite, CompleteAborts, FailRead, FailWrite,
       FinalizeRead, FinalizeWrite, Heartbeat, RecoverRead, RecoverWrite, GiveUp, deliveries
  <2>4. ASSUME ~\E d \in Dispatchers : DispatcherStep(d) PROVE dAttempts' = dAttempts
    BY <2>4 DEF Next, Publish, LeaseAges, EventBackoffElapses, DeliveryBackoffElapses,
       RetryRead, RetryWrite, deliveries
  <2> QED
    BY <2>2, <2>3, <2>4
<1> QED
  BY <1>1, LeaseInductive, PTL DEF Spec, NoRerunAfterSuccess

-----------------------------------------------------------------------------
(* Search: the operators it is made of.                                    *)

LEMMA SomePlaces ==
  \A n \in Nat : IsFiniteSet(1..n) /\ Cardinality(1..n) = n
<1> SUFFICES ASSUME NEW n \in Nat PROVE IsFiniteSet(1..n) /\ Cardinality(1..n) = n
  OBVIOUS
<1>1. 1 \in Int /\ n \in Int
  OBVIOUS
<1>2. IsFiniteSet(1..n) /\ Cardinality(1..n) = IF 1 > n THEN 0 ELSE n - 1 + 1
  BY <1>1, FS_Interval
<1> QED
  BY <1>2

LEMMA PlacesWellFounded == IsWellFoundedOn({ss \in Nat \X Nat : ss[1] < ss[2]}, Nat)
BY NatLessThanWellFounded DEF OpToRel

\* A set of natural numbers that is not empty has a least element.
LEMMA LeastPlace ==
  ASSUME NEW T, T \subseteq Nat, T # {}
  PROVE  \E x \in T : \A y \in T : x <= y
<1> DEFINE R == {ss \in Nat \X Nat : ss[1] < ss[2]}
<1>1. \E x \in T : \A y \in T : ~(<<y, x>> \in R)
  <2> HIDE DEF R
  <2>1. IsWellFoundedOn(R, Nat)
    BY PlacesWellFounded DEF R
  <2> QED
    BY <2>1, WFMin
<1>2. PICK x \in T : \A y \in T : ~(<<y, x>> \in R)
  BY <1>1
<1>3. ASSUME NEW y \in T PROVE x <= y
  <2>1. x \in Nat /\ y \in Nat
    OBVIOUS
  <2>2. y < x => <<y, x>> \in R
    BY <2>1
  <2> QED
    BY <1>2, <2>1, <2>2
<1> QED
  BY <1>3

\* A strict order of all of a set.
Orders(B, S) ==
    /\ \A x \in S : <<x, x>> \notin B
    /\ \A x, y \in S : x # y => <<x, y>> \in B \/ <<y, x>> \in B
    /\ \A x, y, z \in S : <<x, y>> \in B /\ <<y, z>> \in B => <<x, z>> \in B

\* A finite set in order: each of its elements once, each after those before it.
LEMMA OrderIs ==
  ASSUME NEW S, IsFiniteSet(S), NEW B, Orders(B, S)
  PROVE  /\ Cardinality(S) \in Nat
         /\ InOrder(S, B) \in [1..Cardinality(S) -> S]
         /\ \A x \in S : \E n \in 1..Cardinality(S) : InOrder(S, B)[n] = x
         /\ \A m, n \in 1..Cardinality(S) :
               m < n => <<InOrder(S, B)[m], InOrder(S, B)[n]>> \in B
<1> DEFINE N == Cardinality(S)
           Pred(x) == {y \in S : <<y, x>> \in B}
           c == [x \in S |-> Cardinality(Pred(x)) + 1]
           o == InOrder(S, B)
<1>1. N \in Nat
  BY FS_CardinalityType
<1>2. ASSUME NEW x \in S
      PROVE  /\ IsFiniteSet(Pred(x)) /\ Cardinality(Pred(x)) \in Nat
             /\ Cardinality(Pred(x)) < N
  <2>1. Pred(x) \in SUBSET S /\ Pred(x) # S
    BY DEF Orders
  <2>2. IsFiniteSet(Pred(x)) /\ Cardinality(Pred(x)) <= N /\ Cardinality(Pred(x)) # N
    BY <2>1, FS_Subset
  <2> HIDE DEF Pred, N
  <2>3. Cardinality(Pred(x)) \in Nat
    BY <2>2, FS_CardinalityType
  <2> QED
    BY <1>1, <2>2, <2>3
<1>3. ASSUME NEW x \in S, NEW y \in S, <<x, y>> \in B
      PROVE  Cardinality(Pred(x)) < Cardinality(Pred(y))
  <2>1. Pred(x) \in SUBSET Pred(y) /\ Pred(x) # Pred(y)
    BY <1>3 DEF Orders
  <2>2. Cardinality(Pred(x)) <= Cardinality(Pred(y)) /\ Cardinality(Pred(x)) # Cardinality(Pred(y))
    BY <1>2, <2>1, FS_Subset
  <2> HIDE DEF Pred
  <2> QED
    BY <1>2, <2>2
<1>4. \A x, y \in S : Cardinality(Pred(x)) = Cardinality(Pred(y)) => x = y
  <2> SUFFICES ASSUME NEW x \in S, NEW y \in S, x # y
               PROVE  Cardinality(Pred(x)) # Cardinality(Pred(y))
    OBVIOUS
  <2>1. <<x, y>> \in B \/ <<y, x>> \in B
    BY DEF Orders
  <2> HIDE DEF Pred
  <2> QED
    BY <1>2, <1>3, <2>1
<1> HIDE DEF Pred
<1>5. c \in [S -> 1..N]
  BY <1>1, <1>2
<1>6. c \in Injection(S, 1..N)
  <2>1. \A x, y \in S : c[x] = c[y] => x = y
    BY <1>2, <1>4
  <2> QED
    BY <1>5, <2>1 DEF Injection, IsInjective
<1>7. \A k \in 1..N : \E x \in S : c[x] = k
  <2>1. IsFiniteSet(1..N) /\ Cardinality(1..N) = N
    BY <1>1, FS_Interval
  <2>2. c \in Surjection(S, 1..N)
    BY <1>6, <2>1, FS_Injection
  <2> QED
    BY <2>2 DEF Surjection
<1>8. o = [n \in 1..N |-> CHOOSE x \in S : Cardinality(Pred(x)) = n - 1]
  BY DEF InOrder, Pred
<1>9. ASSUME NEW n \in 1..N
      PROVE  o[n] \in S /\ Cardinality(Pred(o[n])) = n - 1
  <2>1. \E x \in S : Cardinality(Pred(x)) = n - 1
    BY <1>2, <1>7, <1>1
  <2>2. o[n] = CHOOSE x \in S : Cardinality(Pred(x)) = n - 1
    BY <1>8
  <2> QED
    BY <2>1, <2>2
<1>10. o \in [1..N -> S]
  BY <1>8, <1>9
<1>11. ASSUME NEW x \in S PROVE \E n \in 1..N : o[n] = x
  <2>1. Cardinality(Pred(x)) + 1 \in 1..N
    BY <1>1, <1>2
  <2> QED
    BY <1>1, <1>2, <1>4, <1>9, <2>1
<1>12. ASSUME NEW m \in 1..N, NEW n \in 1..N, m < n
       PROVE  <<o[m], o[n]>> \in B
  <2>1. o[m] \in S /\ o[n] \in S
        /\ Cardinality(Pred(o[m])) = m - 1 /\ Cardinality(Pred(o[n])) = n - 1
    BY <1>9
  <2>2. o[m] # o[n] /\ <<o[n], o[m]>> \notin B
    BY <1>1, <1>3, <1>12, <2>1
  <2> QED
    BY <2>1, <2>2 DEF Orders
<1> QED
  BY <1>1, <1>10, <1>11, <1>12

\* What stands at some places of a list is a list of as many, in the order of the places.
LEMMA ThoseAre ==
  ASSUME NEW T, NEW list \in Seq(T), NEW places \in SUBSET (DOMAIN list)
  PROVE  /\ Those(list, places) \in Seq(T)
         /\ Len(Those(list, places)) = Cardinality(places)
         /\ Len(Those(list, places)) <= Len(list)
         /\ \E at \in [DOMAIN Those(list, places) -> places] :
               /\ \A n \in DOMAIN Those(list, places) : Those(list, places)[n] = list[at[n]]
               /\ \A m, n \in DOMAIN Those(list, places) : m < n => at[m] < at[n]
<1> DEFINE B == {p \in places \X places : p[1] < p[2]}
           at == InOrder(places, B)
           N == Cardinality(places)
           those == Those(list, places)
<1>1. DOMAIN list = 1..Len(list) /\ Len(list) \in Nat /\ \A n \in DOMAIN list : list[n] \in T
  OBVIOUS
<1>2. IsFiniteSet(places) /\ N <= Len(list)
  <2>1. IsFiniteSet(DOMAIN list) /\ Cardinality(DOMAIN list) = Len(list)
    BY <1>1, SomePlaces
  <2> QED
    BY <2>1, FS_Subset
<1>3. Orders(B, places)
  <2>1. \A x \in places : x \in Int
    BY <1>1
  <2>2. \A x, y \in places : <<x, y>> \in B <=> x < y
    OBVIOUS
  <2> HIDE DEF B
  <2> QED
    BY <2>1, <2>2 DEF Orders
<1>4. /\ N \in Nat /\ at \in [1..N -> places]
      /\ \A m, n \in 1..N : m < n => <<at[m], at[n]>> \in B
  <2> HIDE DEF B
  <2> QED
    BY <1>2, <1>3, OrderIs
<1>5. those = [n \in 1..N |-> list[at[n]]]
  <2>1. those = [n \in DOMAIN at |-> list[at[n]]]
    BY DEF Those
  <2>2. DOMAIN at = 1..N
    BY <1>4
  <2> QED
    BY <2>1, <2>2
<1>6. \A m, n \in 1..N : m < n => at[m] < at[n]
  BY <1>4
<1> HIDE DEF at, those, N
<1>7. those \in Seq(T) /\ DOMAIN those = 1..N /\ Len(those) = N
  <2>1. \A n \in 1..N : list[at[n]] \in T
    BY <1>1, <1>4
  <2> QED
    BY <1>4, <1>5, <2>1, SeqDef
<1> QED
  BY <1>2, <1>4, <1>5, <1>6, <1>7, SMTT(60) DEF N, those

-----------------------------------------------------------------------------
(* The fusion of ranks.                                                    *)

Scored == [doc : STRING, idx : Nat, score : Nat, src : IndexNames]
Gain(list, weight, key, n) == IF Key(list[n]) = key THEN Share(weight, n) ELSE 0

\* The sums of the first numbers of a list.
SumsOf(g, n, u) ==
    /\ u \in [0..n -> Nat] /\ u[0] = 0
    /\ \A i \in 1..n : u[i] = u[i - 1] + g[i]

LEMMA SumsExist ==
  ASSUME NEW N \in Nat, NEW g \in [1..N -> Nat]
  PROVE  \E u : SumsOf(g, N, u)
<1> DEFINE T == {n \in 0..N : ~ \E u : SumsOf(g, n, u)}
<1>0. N \in 0..N
  OBVIOUS
<1> SUFFICES ASSUME T # {} PROVE FALSE
  BY <1>0
<1>1. PICK n \in T : \A m \in T : n <= m
  <2>1. T \subseteq Nat
    OBVIOUS
  <2> HIDE DEF T
  <2> QED
    BY <2>1, LeastPlace
<1>2. n # 0
  <2>1. SumsOf(g, 0, [i \in 0..0 |-> 0])
    BY DEF SumsOf
  <2> QED
    BY <2>1
<1>3. n \in 1..N /\ n - 1 \in 0..N /\ n - 1 \notin T
  BY <1>1, <1>2
<1>4. PICK u : SumsOf(g, n - 1, u)
  BY <1>3
<1> DEFINE v == [i \in 0..n |-> IF i = n THEN u[n - 1] + g[n] ELSE u[i]]
<1>5. SumsOf(g, n, v)
  <2>1. g[n] \in Nat /\ u[n - 1] \in Nat
    BY <1>3, <1>4 DEF SumsOf
  <2>2. v \in [0..n -> Nat] /\ v[0] = 0
    BY <1>3, <1>4, <2>1, SMTT(60) DEF SumsOf
  <2>3. ASSUME NEW i \in 1..n PROVE v[i] = v[i - 1] + g[i]
    <3>1. i = n \/ i \in 1..(n - 1)
      BY <1>3
    <3> QED
      BY <1>3, <1>4, <3>1, SMTT(60) DEF SumsOf
  <2> QED
    BY <2>2, <2>3 DEF SumsOf
<1> QED
  BY <1>5

\* A place in front is worth at least what a later one is.
LEMMA SharesFall ==
  ASSUME NEW weight \in Nat, NEW i \in Nat \ {0}
  PROVE  /\ Share(weight, i) \in Nat
         /\ \A j \in Nat : i <= j => Share(weight, j) <= Share(weight, i)
<1> DEFINE a == weight * Scale
<1>1. a \in Nat /\ RrfK \in Nat
  BY SearchAssumption DEF Scale
<1> HIDE DEF a
<1>2. \A n \in Nat \ {0} : a \div n \in Nat /\ n * (a \div n) <= a /\ a < n * ((a \div n) + 1)
  BY <1>1
<1>3. ASSUME NEW j \in Nat, i <= j PROVE a \div (RrfK + j) <= a \div (RrfK + i)
  <2> DEFINE b == RrfK + i
             c == RrfK + j
             q == a \div c
             p == a \div b
  <2>1. b \in Nat \ {0} /\ c \in Nat \ {0} /\ b <= c
    BY <1>1, <1>3
  <2>2. p \in Nat /\ q \in Nat /\ c * q <= a /\ a < b * (p + 1)
    BY <1>2, <2>1
  <2> HIDE DEF b, c, p, q
  <2>3. b * q <= c * q
    BY <2>1, <2>2
  <2>4. b * q < b * (p + 1)
    <3>1. b * q \in Nat /\ c * q \in Nat /\ b * (p + 1) \in Nat
      BY <2>1, <2>2
    <3> QED
      BY <1>1, <2>2, <2>3, <3>1
  <2>5. q < p + 1
    BY <2>1, <2>2, <2>4
  <2>6. q <= p
    BY <2>2, <2>5
  <2> QED
    BY <2>6 DEF b, c, p, q
<1>4. a \div (RrfK + i) \in Nat
  BY <1>1, <1>2
<1> QED
  BY <1>3, <1>4 DEF Share, a

\* What a chunk is worth in a list is the sum of what its places are worth.
LEMMA RankIs ==
  ASSUME NEW list \in Seq(Scored), NEW weight \in Nat, NEW key
  PROVE  \E u : /\ SumsOf([n \in 1..Len(list) |-> Gain(list, weight, key, n)], Len(list), u)
                /\ RankScore(list, weight, key) = u[Len(list)]
<1> DEFINE N == Len(list)
           G(n) == Gain(list, weight, key, n)
           g == [n \in 1..N |-> G(n)]
           Sums(u) == u = [n \in 0..N |-> IF n = 0 THEN 0 ELSE u[n - 1] + G(n)]
<1>1. N \in Nat
  OBVIOUS
<1>2. \A n \in 1..N : G(n) \in Nat
  <2>1. \A n \in 1..N : n \in Nat \ {0}
    BY <1>1
  <2>2. \A n \in 1..N : Share(weight, n) \in Nat
    BY <2>1, SharesFall
  <2> QED
    BY <2>2 DEF Gain
<1>3. RankScore(list, weight, key) = (CHOOSE u : Sums(u))[N]
  BY DEF RankScore, Gain
<1> HIDE DEF N, G
<1>4. g \in [1..N -> Nat]
  BY <1>2
<1>5. PICK u : SumsOf(g, N, u)
  BY <1>1, <1>4, SumsExist
<1>6. Sums(u)
  <2>1. u = [n \in 0..N |-> u[n]]
    BY <1>5 DEF SumsOf
  <2>2. ASSUME NEW n \in 0..N PROVE u[n] = IF n = 0 THEN 0 ELSE u[n - 1] + G(n)
    <3>1. n = 0 \/ n \in 1..N
      BY <1>1
    <3> QED
      BY <1>1, <1>5, <3>1 DEF SumsOf
  <2> QED
    BY <2>1, <2>2
<1> DEFINE w == CHOOSE v : Sums(v)
<1>7. Sums(w)
  <2> HIDE DEF Sums
  <2> QED
    BY <1>6
<1>8. w[0] = 0 /\ DOMAIN w = 0..N /\ w = [n \in 0..N |-> w[n]]
  <2> HIDE DEF w
  <2> QED
    BY <1>1, <1>7
<1>9. \A n \in 1..N : w[n] = w[n - 1] + G(n)
  <2> HIDE DEF w
  <2>1. \A n \in 1..N : n \in 0..N /\ n # 0
    BY <1>1
  <2> QED
    BY <1>7, <2>1
<1>10. \A n \in 0..N : w[n] \in Nat
  <2> DEFINE T == {n \in 0..N : w[n] \notin Nat}
  <2> SUFFICES ASSUME T # {} PROVE FALSE
    BY DEF T
  <2> HIDE DEF w
  <2>1. PICK n \in T : \A m \in T : n <= m
    <3>1. T \subseteq Nat
      BY <1>1
    <3> HIDE DEF T
    <3> QED
      BY <3>1, LeastPlace
  <2>2. n # 0
    BY <1>8
  <2>3. n \in 1..N /\ n - 1 \in 0..N /\ n - 1 \notin T
    BY <1>1, <2>1, <2>2
  <2> QED
    BY <1>2, <1>9, <2>3
<1>11. SumsOf(g, N, w)
  <2> HIDE DEF w
  <2> QED
    BY <1>8, <1>9, <1>10 DEF SumsOf
<1> QED
  BY <1>3, <1>11 DEF N, G

\* How often a list has a chunk up to a place.
UpTo(list, key, n) == {i \in DOMAIN list : Key(list[i]) = key /\ i <= n}
Times(list, key, n) == Cardinality(UpTo(list, key, n))

LEMMA TimesGrow ==
  ASSUME NEW list \in Seq(Scored), NEW key
  PROVE  /\ \A n \in 0..Len(list) : IsFiniteSet(UpTo(list, key, n)) /\ Times(list, key, n) \in Nat
         /\ Times(list, key, 0) = 0
         /\ \A n \in 1..Len(list) :
               Times(list, key, n)
                   = Times(list, key, n - 1) + (IF Key(list[n]) = key THEN 1 ELSE 0)
<1>1. Len(list) \in Nat /\ DOMAIN list = 1..Len(list) /\ IsFiniteSet(DOMAIN list)
  BY SomePlaces
<1>2. ASSUME NEW n \in 0..Len(list)
      PROVE  IsFiniteSet(UpTo(list, key, n)) /\ Times(list, key, n) \in Nat
  <2>1. UpTo(list, key, n) \in SUBSET (DOMAIN list)
    BY DEF UpTo
  <2>2. IsFiniteSet(UpTo(list, key, n))
    BY <1>1, <2>1, FS_Subset
  <2> QED
    BY <2>2, FS_CardinalityType DEF Times
<1>3. Times(list, key, 0) = 0
  <2>1. UpTo(list, key, 0) = {}
    BY <1>1 DEF UpTo
  <2> QED
    BY <2>1, FS_EmptySet DEF Times
<1>4. ASSUME NEW n \in 1..Len(list)
      PROVE  Times(list, key, n)
                 = Times(list, key, n - 1) + (IF Key(list[n]) = key THEN 1 ELSE 0)
  <2>1. n - 1 \in 0..Len(list) /\ n \in DOMAIN list
    BY <1>1
  <2>2. IsFiniteSet(UpTo(list, key, n - 1))
    BY <1>2, <2>1
  <2>3. n \notin UpTo(list, key, n - 1)
    BY <1>1 DEF UpTo
  <2>4. CASE Key(list[n]) = key
    <3>1. UpTo(list, key, n) = UpTo(list, key, n - 1) \cup {n}
      BY <1>1, <2>1, <2>4 DEF UpTo
    <3>2. Cardinality(UpTo(list, key, n - 1) \cup {n}) = Cardinality(UpTo(list, key, n - 1)) + 1
      BY <2>2, <2>3, FS_AddElement
    <3> QED
      BY <2>4, <3>1, <3>2 DEF Times
  <2>5. CASE Key(list[n]) # key
    <3>1. UpTo(list, key, n) = UpTo(list, key, n - 1)
      BY <1>1, <2>1, <2>5 DEF UpTo
    <3>2. Times(list, key, n - 1) \in Nat
      BY <1>2, <2>1
    <3> QED
      BY <2>5, <3>1, <3>2 DEF Times
  <2> QED
    BY <2>4, <2>5
<1> QED
  BY <1>2, <1>3, <1>4

\* What is ahead of a chunk was found more often before each place of it.
LEMMA AheadIs ==
  ASSUME NEW list \in Seq(Scored), NEW y, NEW x, Ahead(list, y, x)
  PROVE  \A n \in 1..Len(list) :
            Key(list[n]) = x => Times(list, y, n - 1) >= Times(list, x, n)
<1> SUFFICES ASSUME NEW n \in 1..Len(list), Key(list[n]) = x
             PROVE  Times(list, y, n - 1) >= Times(list, x, n)
  OBVIOUS
<1>1. Len(list) \in Nat /\ DOMAIN list = 1..Len(list)
  OBVIOUS
<1> DEFINE P(k) == {i \in DOMAIN list : Key(list[i]) = k}
<1>2. \A i \in P(x) : Cardinality({j \in P(y) : j < i}) >= Cardinality({j \in P(x) : j <= i})
  BY DEF Ahead
<1>3. n \in P(x)
  BY <1>1
<1>4. UpTo(list, y, n - 1) = {j \in P(y) : j < n}
  BY <1>1 DEF UpTo
<1>5. UpTo(list, x, n) = {j \in P(x) : j <= n}
  BY <1>1 DEF UpTo
<1> QED
  BY <1>2, <1>3, <1>4, <1>5 DEF Times

LEMMA AheadIsMore ==
  ASSUME NEW list \in Seq(Scored), NEW y, NEW x, Ahead(list, y, x)
  PROVE  \A n \in 0..Len(list) : Times(list, x, n) <= Times(list, y, n)
<1> DEFINE T == {n \in 0..Len(list) : ~(Times(list, x, n) <= Times(list, y, n))}
<1> SUFFICES ASSUME T # {} PROVE FALSE
  OBVIOUS
<1>1. Len(list) \in Nat
  OBVIOUS
<1>2. PICK n \in T : \A m \in T : n <= m
  <2>1. T \subseteq Nat
    BY <1>1
  <2> HIDE DEF T
  <2> QED
    BY <2>1, LeastPlace
<1>3. n # 0
  BY TimesGrow
<1>4. n \in 1..Len(list) /\ n - 1 \in 0..Len(list) /\ n - 1 \notin T
  BY <1>1, <1>2, <1>3
<1>5. /\ Times(list, x, n) \in Nat /\ Times(list, x, n - 1) \in Nat
      /\ Times(list, y, n) \in Nat /\ Times(list, y, n - 1) \in Nat
  BY <1>4, TimesGrow
<1> HIDE DEF T
<1>9. /\ Times(list, y, n) = Times(list, y, n - 1) + (IF Key(list[n]) = y THEN 1 ELSE 0)
      /\ Times(list, x, n) = Times(list, x, n - 1) + (IF Key(list[n]) = x THEN 1 ELSE 0)
  BY <1>4, TimesGrow, Zenon
<1>6. Times(list, y, n - 1) <= Times(list, y, n)
  BY <1>5, <1>9
<1>10. ~(Times(list, x, n) <= Times(list, y, n))
  BY <1>2 DEF T
<1>7. CASE Key(list[n]) = x
  <2>1. Times(list, y, n - 1) >= Times(list, x, n)
    BY <1>4, <1>7, AheadIs
  <2> QED
    BY <1>5, <1>6, <1>10, <2>1
<1>8. CASE Key(list[n]) # x
  <2>1. Times(list, x, n) = Times(list, x, n - 1)
    BY <1>5, <1>8, <1>9
  <2>2. Times(list, x, n - 1) <= Times(list, y, n - 1)
    BY <1>4 DEF T
  <2> QED
    BY <1>5, <1>6, <2>1, <2>2, <1>10
<1> QED
  BY <1>7, <1>8

\* A number of places is worth no more further back, and one more is worth one more.
LEMMA Products ==
  ASSUME NEW d \in Nat, NEW s \in Nat, NEW t \in Nat, t <= s
  PROVE  /\ d * t <= d * s /\ d * t \in Nat /\ d * s \in Nat
         /\ (d + 1) * t = d * t + t /\ (d - 1) * t = d * t - t
OBVIOUS

\* What is ahead in a list is worth no less by its places there.
LEMMA AheadIsWorthMore ==
  ASSUME NEW list \in Seq(Scored), NEW weight \in Nat, NEW y, NEW x, Ahead(list, y, x)
  PROVE  /\ RankScore(list, weight, x) \in Nat /\ RankScore(list, weight, y) \in Nat
         /\ RankScore(list, weight, x) <= RankScore(list, weight, y)
<1> DEFINE N == Len(list)
           G(k) == [n \in 1..N |-> Gain(list, weight, k, n)]
           C(k, n) == Times(list, k, n)
           S(n) == Share(weight, n)
<1>1. N \in Nat
  OBVIOUS
<1>2. PICK a : SumsOf(G(x), N, a) /\ RankScore(list, weight, x) = a[N]
  BY RankIs
<1>3. PICK b : SumsOf(G(y), N, b) /\ RankScore(list, weight, y) = b[N]
  BY RankIs
<1>4. \A n \in 1..N : S(n) \in Nat /\ \A m \in 1..N : m <= n => S(n) <= S(m)
  <2>1. \A n \in 1..N : n \in Nat \ {0}
    BY <1>1
  <2> QED
    BY <2>1, SharesFall
<1>5. /\ \A n \in 0..N : C(x, n) \in Nat /\ C(y, n) \in Nat /\ C(x, n) <= C(y, n)
      /\ C(x, 0) = 0 /\ C(y, 0) = 0
      /\ \A n \in 1..N : /\ C(x, n) = C(x, n - 1) + (IF Key(list[n]) = x THEN 1 ELSE 0)
                         /\ C(y, n) = C(y, n - 1) + (IF Key(list[n]) = y THEN 1 ELSE 0)
  BY TimesGrow, AheadIsMore
<1>6. /\ a[0] = 0 /\ b[0] = 0 /\ \A n \in 0..N : a[n] \in Nat /\ b[n] \in Nat
      /\ \A n \in 1..N : /\ a[n] = a[n - 1] + (IF Key(list[n]) = x THEN S(n) ELSE 0)
                         /\ b[n] = b[n - 1] + (IF Key(list[n]) = y THEN S(n) ELSE 0)
  BY <1>2, <1>3 DEF SumsOf, Gain
<1> HIDE DEF N, C, S
<1> DEFINE T == {n \in 1..N : ~(b[n] >= a[n] + (C(y, n) - C(x, n)) * S(n))}
<1>7. T = {}
  <2> SUFFICES ASSUME T # {} PROVE FALSE
    OBVIOUS
  <2>1. PICK n \in T : \A m \in T : n <= m
    <3>1. T \subseteq Nat
      BY <1>1
    <3> HIDE DEF T
    <3> QED
      BY <3>1, LeastPlace
  <2>2. n \in 1..N /\ n \in 0..N /\ n - 1 \in 0..N
    BY <1>1
  <2> DEFINE d == C(y, n - 1) - C(x, n - 1)
             t == S(n)
             ey == IF Key(list[n]) = y THEN 1 ELSE 0
             ex == IF Key(list[n]) = x THEN 1 ELSE 0
  <2>3. d \in Nat /\ t \in Nat /\ a[n - 1] \in Nat /\ b[n - 1] \in Nat
    <3>1. C(x, n - 1) \in Nat /\ C(y, n - 1) \in Nat /\ C(x, n - 1) <= C(y, n - 1)
      BY <1>5, <2>2
    <3>2. t \in Nat
      BY <1>4, <2>2
    <3>3. a[n - 1] \in Nat /\ b[n - 1] \in Nat
      BY <1>6, <2>2
    <3> QED
      BY <3>1, <3>2, <3>3
  <2>4. b[n - 1] >= a[n - 1] + d * t
    <3>1. CASE n = 1
      <4>1. n - 1 = 0 /\ d = 0 /\ 0 * t = 0
        BY <1>5, <2>3, <3>1
      <4> QED
        BY <1>6, <4>1
    <3>2. CASE n # 1
      <4>1. n - 1 \in 1..N /\ n - 1 \notin T /\ n - 1 <= n
        BY <1>1, <2>1, <2>2, <3>2
      <4> DEFINE s == S(n - 1)
      <4>2. s \in Nat /\ t <= s
        BY <1>4, <2>2, <4>1
      <4>3. b[n - 1] >= a[n - 1] + d * s
        BY <4>1
      <4> HIDE DEF s, t, d
      <4>4. d * t <= d * s /\ d * t \in Nat /\ d * s \in Nat
        BY <2>3, <4>2, Products
      <4> QED
        BY <2>3, <4>3, <4>4
    <3> QED
      BY <3>1, <3>2
  <2>5. C(y, n) - C(x, n) = d + ey - ex /\ d + ey - ex \in Nat
    <3>1. /\ C(x, n) = C(x, n - 1) + ex /\ C(y, n) = C(y, n - 1) + ey
      BY <1>5, <2>2
    <3>2. /\ C(x, n - 1) \in Nat /\ C(y, n - 1) \in Nat
          /\ C(x, n) \in Nat /\ C(y, n) \in Nat /\ C(x, n) <= C(y, n)
      BY <1>5, <2>2
    <3>3. ey \in {0, 1} /\ ex \in {0, 1}
      OBVIOUS
    <3> HIDE DEF ey, ex
    <3> QED
      BY <3>1, <3>2, <3>3
  <2>6. a[n] = a[n - 1] + ex * t /\ b[n] = b[n - 1] + ey * t
    BY <1>6, <2>2, <2>3
  <2>7. ~(b[n] >= a[n] + (d + ey - ex) * t)
    <3>1. ~(b[n] >= a[n] + (C(y, n) - C(x, n)) * S(n))
      BY <2>1
    <3> QED
      BY <2>5, <3>1
  <2>8. ey \in {0, 1} /\ ex \in {0, 1}
    OBVIOUS
  <2>9. /\ d * t \in Nat /\ (d + 1) * t = d * t + t /\ (d - 1) * t = d * t - t
        /\ 0 * t = 0 /\ 1 * t = t
    <3> HIDE DEF d, t
    <3> QED
      BY <2>3, Products
  <2> HIDE DEF d, t, ey, ex, T
  <2>10. CASE ey = 0 /\ ex = 0
    BY <2>3, <2>4, <2>6, <2>7, <2>9, <2>10
  <2>11. CASE ey = 1 /\ ex = 0
    BY <2>3, <2>4, <2>6, <2>7, <2>9, <2>11
  <2>12. CASE ey = 0 /\ ex = 1
    BY <2>3, <2>4, <2>6, <2>7, <2>9, <2>12
  <2>13. CASE ey = 1 /\ ex = 1
    <3>1. d + ey - ex = d
      BY <2>3, <2>13
    <3> QED
      BY <2>3, <2>4, <2>6, <2>7, <2>9, <2>13, <3>1
  <2> QED
    BY <2>8, <2>10, <2>11, <2>12, <2>13
<1>8. CASE N = 0
  BY <1>2, <1>3, <1>6, <1>8
<1>9. CASE N # 0
  <2>1. N \in 1..N /\ N \in 0..N
    BY <1>1, <1>9
  <2>2. b[N] >= a[N] + (C(y, N) - C(x, N)) * S(N)
    BY <1>7, <2>1
  <2>3. C(y, N) - C(x, N) \in Nat /\ S(N) \in Nat
    BY <1>4, <1>5, <2>1
  <2>4. (C(y, N) - C(x, N)) * S(N) \in Nat
    BY <2>3, Products
  <2> QED
    BY <1>2, <1>3, <1>6, <2>1, <2>2, <2>4 DEF N
<1> QED
  BY <1>8, <1>9

\* What has been found so far, list by list.
Recalled == search.dense \in Seq(Scored) /\ search.sparse \in Seq(Scored)

\* What is found stands somewhere first.
LEMMA FirstIs ==
  ASSUME NEW list \in Seq(Scored), NEW key, NEW n \in DOMAIN list, Key(list[n]) = key
  PROVE  /\ FirstAt(list, key) \in DOMAIN list /\ Key(list[FirstAt(list, key)]) = key
         /\ FirstAt(list, key) <= n
<1> DEFINE T == {i \in DOMAIN list : Key(list[i]) = key}
           IsFirst(i) == Key(list[i]) = key /\ \A j \in 1..(i - 1) : Key(list[j]) # key
<1>1. DOMAIN list = 1..Len(list) /\ Len(list) \in Nat
  OBVIOUS
<1>2. PICK m \in T : \A i \in T : m <= i
  <2>1. T \subseteq Nat /\ T # {}
    BY <1>1
  <2> HIDE DEF T
  <2> QED
    BY <2>1, LeastPlace
<1>3. m \in DOMAIN list /\ IsFirst(m)
  <2>1. \A j \in 1..(m - 1) : j \in DOMAIN list /\ ~(m <= j)
    BY <1>1
  <2> QED
    BY <1>2, <2>1
<1>4. FirstAt(list, key) = CHOOSE i \in DOMAIN list : IsFirst(i)
  BY DEF FirstAt
<1> DEFINE f == FirstAt(list, key)
<1>5. f \in DOMAIN list /\ IsFirst(f)
  <2> HIDE DEF IsFirst, f
  <2>1. \E i \in DOMAIN list : IsFirst(i)
    BY <1>3
  <2>2. f = CHOOSE i \in DOMAIN list : IsFirst(i)
    BY <1>4 DEF f
  <2> QED
    BY <2>1, <2>2
<1> HIDE DEF f
<1>6. f <= n
  <2>1. ~(n \in 1..(f - 1))
    BY <1>5
  <2> QED
    BY <1>1, <1>5, <2>1
<1> QED
  BY <1>5, <1>6 DEF f

LEMMA FoundTogether ==
  ASSUME Recalled
  PROVE  /\ search.dense \o search.sparse \in Seq(Scored)
         /\ \A n \in DOMAIN search.dense :
               n \in DOMAIN (search.dense \o search.sparse)
               /\ (search.dense \o search.sparse)[n] = search.dense[n]
         /\ \A n \in DOMAIN search.sparse :
               Len(search.dense) + n \in DOMAIN (search.dense \o search.sparse)
               /\ (search.dense \o search.sparse)[Len(search.dense) + n] = search.sparse[n]
         /\ \A n \in DOMAIN (search.dense \o search.sparse) :
               \/ n \in DOMAIN search.dense
               \/ /\ n \in Nat /\ n > Len(search.dense)
                  /\ n - Len(search.dense) \in DOMAIN search.sparse
         /\ \A k : k \in KeysFound
               <=> \E n \in DOMAIN (search.dense \o search.sparse) :
                      Key((search.dense \o search.sparse)[n]) = k
<1> DEFINE a == search.dense
           b == search.sparse
<1>1. a \in Seq(Scored) /\ b \in Seq(Scored)
  BY DEF Recalled
<1> HIDE DEF a, b
<1>2. /\ Len(a) \in Nat /\ DOMAIN a = 1..Len(a) /\ Len(b) \in Nat /\ DOMAIN b = 1..Len(b)
      /\ a \o b \in Seq(Scored) /\ Len(a \o b) = Len(a) + Len(b)
      /\ DOMAIN (a \o b) = 1..(Len(a) + Len(b))
  BY <1>1
<1>3. \A n \in DOMAIN a : n \in DOMAIN (a \o b) /\ (a \o b)[n] = a[n]
  BY <1>1, <1>2
<1>4. \A n \in DOMAIN b : Len(a) + n \in DOMAIN (a \o b) /\ (a \o b)[Len(a) + n] = b[n]
  BY <1>1, <1>2
<1>5. \A n \in DOMAIN (a \o b) :
         n \in DOMAIN a \/ (n \in Nat /\ n > Len(a) /\ n - Len(a) \in DOMAIN b)
  <2> SUFFICES ASSUME NEW n \in 1..(Len(a) + Len(b)), n \notin 1..Len(a)
               PROVE  n \in Nat /\ n > Len(a) /\ n - Len(a) \in 1..Len(b)
    BY <1>2
  <2> QED
    BY <1>2
<1>6. \A k : k \in KeysFound <=> \E n \in DOMAIN (a \o b) : Key((a \o b)[n]) = k
  BY DEF KeysFound, Range, a, b
<1> QED
  BY <1>2, <1>3, <1>4, <1>5, <1>6 DEF a, b

\* A chunk that is worth something in no list is worth nothing, and all else is a number.
LEMMA ScoreIs ==
  ASSUME Recalled, NEW key
  PROVE  FusedScore(key) \in Nat
<1>1. ASSUME NEW list \in Seq(Scored), NEW weight \in Nat
      PROVE  RankScore(list, weight, key) \in Nat
  <2>1. PICK u : /\ SumsOf([n \in 1..Len(list) |-> Gain(list, weight, key, n)], Len(list), u)
                 /\ RankScore(list, weight, key) = u[Len(list)]
    BY RankIs
  <2>2. Len(list) \in 0..Len(list)
    OBVIOUS
  <2> QED
    BY <2>1, <2>2 DEF SumsOf
<1>2. SparseWeight \in Nat
  BY DEF SparseWeight
<1>3. search.dense \in Seq(Scored) /\ search.sparse \in Seq(Scored) /\ 10 \in Nat
  BY DEF Recalled
<1>4. RankScore(search.dense, 10, key) \in Nat
  BY <1>1, <1>3
<1>5. RankScore(search.sparse, SparseWeight, key) \in Nat
  BY <1>1, <1>2, <1>3
<1>6. FusedScore(key) =
          RankScore(search.dense, 10, key) + RankScore(search.sparse, SparseWeight, key)
  BY DEF FusedScore
<1> QED
  BY <1>4, <1>5, <1>6

\* The ranks put what was found in order.
LEMMA RanksOrder ==
  ASSUME Recalled
  PROVE  IsFiniteSet(KeysFound) /\ Orders(RankedFirst, KeysFound)
<1> DEFINE all == search.dense \o search.sparse
           F(k) == FirstAt(all, k)
           V(k) == FusedScore(k)
           f == [k \in KeysFound |-> F(k)]
<1>1. all \in Seq(Scored)
  BY FoundTogether
<1>2. \A k \in KeysFound : F(k) \in DOMAIN all /\ Key(all[F(k)]) = k
  <2> SUFFICES ASSUME NEW k \in KeysFound PROVE F(k) \in DOMAIN all /\ Key(all[F(k)]) = k
    OBVIOUS
  <2>1. PICK n \in DOMAIN all : Key(all[n]) = k
    BY FoundTogether
  <2> HIDE DEF all
  <2> QED
    BY <1>1, <2>1, FirstIs
<1>3. \A k \in KeysFound : F(k) \in Nat /\ V(k) \in Nat
  <2>1. DOMAIN all \subseteq Nat
    <3> HIDE DEF all
    <3> QED
      BY <1>1
  <2> QED
    BY <1>2, <2>1, ScoreIs
<1>4. \A k, l \in KeysFound :
         <<k, l>> \in RankedFirst <=> V(k) > V(l) \/ (V(k) = V(l) /\ F(k) < F(l))
  BY DEF RankedFirst
<1> HIDE DEF all, F, V
<1>5. \A k, l \in KeysFound : F(k) = F(l) => k = l
  BY <1>2
<1>6. IsFiniteSet(KeysFound)
  <2>1. IsFiniteSet(DOMAIN all)
    BY <1>1, SomePlaces
  <2>2. f \in Injection(KeysFound, DOMAIN all)
    BY <1>2, <1>5 DEF Injection, IsInjective
  <2> QED
    BY <2>1, <2>2, FS_Injection
<1>7. Orders(RankedFirst, KeysFound)
  BY <1>3, <1>4, <1>5 DEF Orders
<1> QED
  BY <1>6, <1>7

\* What is ahead of a chunk has a place in front of each place of it.
LEMMA AheadIsFirst ==
  ASSUME NEW list \in Seq(Scored), NEW y, NEW x, Ahead(list, y, x),
         NEW n \in DOMAIN list, Key(list[n]) = x
  PROVE  \E m \in DOMAIN list : m < n /\ Key(list[m]) = y
<1>1. n \in 1..Len(list) /\ n \in 0..Len(list) /\ n - 1 \in 0..Len(list) /\ Len(list) \in Nat
  OBVIOUS
<1>2. Times(list, y, n - 1) >= Times(list, x, n)
  BY <1>1, AheadIs
<1>3. Times(list, x, n) = Times(list, x, n - 1) + 1 /\ Times(list, x, n - 1) \in Nat
  BY <1>1, TimesGrow
<1>4. UpTo(list, y, n - 1) # {}
  <2>1. Times(list, y, n - 1) # 0
    <3>1. Times(list, y, n - 1) \in Nat
      BY <1>1, TimesGrow
    <3> QED
      BY <1>2, <1>3, <3>1
  <2> QED
    BY <2>1, FS_EmptySet DEF Times
<1>5. PICK m \in UpTo(list, y, n - 1) : TRUE
  BY <1>4
<1> QED
  BY <1>1, <1>5 DEF UpTo

\* In the fusion of ranks no chunk comes before one that is ahead of it in both lists.
LEMMA RanksAgree ==
  ASSUME Recalled, NEW y \in KeysFound, NEW x \in KeysFound,
         Ahead(search.dense, y, x), Ahead(search.sparse, y, x)
  PROVE  <<y, x>> \in RankedFirst
<1> DEFINE a == search.dense
           b == search.sparse
           all == search.dense \o search.sparse
<1>1. a \in Seq(Scored) /\ b \in Seq(Scored) /\ all \in Seq(Scored)
  BY FoundTogether DEF Recalled
<1>2. FusedScore(x) <= FusedScore(y)
  <2>1. SparseWeight \in Nat
    BY DEF SparseWeight
  <2>2. /\ RankScore(a, 10, x) \in Nat /\ RankScore(a, 10, y) \in Nat
        /\ RankScore(a, 10, x) <= RankScore(a, 10, y)
    BY <1>1, AheadIsWorthMore
  <2>3. /\ RankScore(b, SparseWeight, x) \in Nat /\ RankScore(b, SparseWeight, y) \in Nat
        /\ RankScore(b, SparseWeight, x) <= RankScore(b, SparseWeight, y)
    BY <1>1, <2>1, AheadIsWorthMore
  <2>4. /\ FusedScore(x) = RankScore(a, 10, x) + RankScore(b, SparseWeight, x)
        /\ FusedScore(y) = RankScore(a, 10, y) + RankScore(b, SparseWeight, y)
    BY DEF FusedScore
  <2> QED
    BY <2>2, <2>3, <2>4
<1>3. PICK n \in DOMAIN all : n = FirstAt(all, x) /\ Key(all[n]) = x
  <2>1. PICK m \in DOMAIN all : Key(all[m]) = x
    BY FoundTogether
  <2> HIDE DEF all
  <2> QED
    BY <1>1, <2>1, FirstIs
<1>4. \E m \in DOMAIN all : m < n /\ Key(all[m]) = y
  <2>1. CASE n \in DOMAIN a
    <3>1. all[n] = a[n]
      BY <2>1, FoundTogether
    <3>2. PICK m \in DOMAIN a : m < n /\ Key(a[m]) = y
      BY <1>1, <1>3, <2>1, <3>1, AheadIsFirst
    <3>3. m \in DOMAIN all /\ all[m] = a[m]
      BY <3>2, FoundTogether, Zenon
    <3> QED
      BY <3>2, <3>3
  <2>2. CASE n > Len(a) /\ n - Len(a) \in DOMAIN b
    <3> DEFINE k == n - Len(a)
    <3>1. Len(a) \in Nat /\ n = Len(a) + k /\ k \in DOMAIN b /\ k \in Nat
      BY <1>1, <2>2
    <3>2. all[n] = b[k]
      BY <3>1, FoundTogether
    <3> HIDE DEF k
    <3>3. PICK m \in DOMAIN b : m < k /\ Key(b[m]) = y
      BY <1>1, <1>3, <3>1, <3>2, AheadIsFirst
    <3>4. Len(a) + m \in DOMAIN all /\ all[Len(a) + m] = b[m]
      BY <3>3, FoundTogether
    <3>5. Len(a) + m < n
      BY <1>1, <3>1, <3>3
    <3> QED
      BY <3>3, <3>4, <3>5
  <2> QED
    BY <2>1, <2>2, FoundTogether
<1>5. FirstAt(all, y) < FirstAt(all, x)
  <2>1. PICK m \in DOMAIN all : m < n /\ Key(all[m]) = y
    BY <1>4
  <2>2. FirstAt(all, y) \in DOMAIN all /\ FirstAt(all, y) <= m
    <3> HIDE DEF all
    <3> QED
      BY <1>1, <2>1, FirstIs
  <2> HIDE DEF all
  <2>3. DOMAIN all \subseteq Nat
    BY <1>1
  <2> QED
    BY <1>3, <2>1, <2>2, <2>3
<1>6. FusedScore(x) \in Nat /\ FusedScore(y) \in Nat
  BY ScoreIs
<1>7. FusedScore(y) > FusedScore(x) \/ FusedScore(y) = FusedScore(x)
  BY <1>2, <1>6
<1> QED
  BY <1>5, <1>7 DEF RankedFirst

-----------------------------------------------------------------------------
(* What the steps of a search make of its pool.                            *)

Item == [key : [doc : STRING, idx : Nat], score : Nat, srcs : SUBSET IndexNames,
         text : SUBSET Nat, summary : BOOLEAN]

\* An item names the indexes that found it, and says what they found.
Sound(h) == h.srcs # {} /\ h.srcs = SourcesOf(h.key) /\ h.key.idx \in h.text

\* The same item, but for its score.
Same(h, g) == h.key = g.key /\ h.srcs = g.srcs /\ h.text = g.text /\ h.summary = g.summary

LEMMA HitIs ==
  ASSUME Recalled, NEW n \in DOMAIN (search.dense \o search.sparse), NEW score \in Nat
  PROVE  LET h == AsHit(Key((search.dense \o search.sparse)[n]), score)
         IN  h \in Item /\ ~h.summary /\ Sound(h)
<1> DEFINE all == search.dense \o search.sparse
           k == Key(all[n])
           h == AsHit(k, score)
<1>1. all \in Seq(Scored)
  BY FoundTogether
<1>2. SourcesOf(k) = {g.src : g \in {x \in Range(all) : Key(x) = k}}
  BY DEF SourcesOf
<1>3. \A g \in Range(all) : g \in Scored
  <2> HIDE DEF all
  <2> QED
    BY <1>1 DEF Range
<1>4. all[n] \in Range(all) /\ all[n] \in Scored
  <2>1. n \in DOMAIN all
    OBVIOUS
  <2> HIDE DEF all
  <2> QED
    BY <1>1, <2>1 DEF Range
<1>5. SourcesOf(k) \in SUBSET IndexNames
  BY <1>2, <1>3 DEF Scored
<1>6. all[n].src \in SourcesOf(k)
  BY <1>2, <1>4
<1>7. k \in [doc : STRING, idx : Nat]
  BY <1>4 DEF Key, Scored
<1>8. /\ h.key = k /\ h.srcs = SourcesOf(k) /\ h.text = {k.idx} /\ h.summary = FALSE
      /\ h = [key |-> k, score |-> score, srcs |-> SourcesOf(k), text |-> {k.idx},
              summary |-> FALSE]
  BY DEF AsHit
<1> HIDE DEF k
<1>9. h \in Item
  <2>1. {k.idx} \in SUBSET Nat
    BY <1>7
  <2> QED
    BY <1>5, <1>7, <1>8, <2>1 DEF Item
<1>10. Sound(h) /\ ~h.summary
  BY <1>6, <1>8 DEF Sound
<1> QED
  BY <1>9, <1>10 DEF k

\* The best of a list are first.
LEMMA BestOrder ==
  ASSUME NEW list, NEW N \in Nat, DOMAIN list = 1..N, \A n \in 1..N : list[n].score \in Nat
  PROVE  /\ IsFiniteSet(DOMAIN list) /\ Cardinality(DOMAIN list) = N
         /\ Orders(BestFirst(list), DOMAIN list)
<1>1. \A m, n \in 1..N : <<m, n>> \in BestFirst(list)
         <=> \/ list[m].score > list[n].score
             \/ list[m].score = list[n].score /\ m < n
  BY DEF BestFirst
<1>2. \A n \in 1..N : n \in Nat
  OBVIOUS
<1>3. Orders(BestFirst(list), 1..N)
  BY <1>1, <1>2 DEF Orders
<1> QED
  BY <1>3, SomePlaces

LEMMA ByScoreIs ==
  ASSUME Recalled, NEW list \in {search.dense, search.sparse}
  PROVE  /\ ByScore(list) \in Seq(Item)
         /\ \A n \in DOMAIN ByScore(list) : ~ByScore(list)[n].summary /\ Sound(ByScore(list)[n])
<1> DEFINE all == search.dense \o search.sparse
           N == Len(list)
           o == InOrder(DOMAIN list, BestFirst(list))
           H(n) == AsHit(Key(list[o[n]]), list[o[n]].score)
           b == ByScore(list)
<1>1. list \in Seq(Scored)
  BY DEF Recalled
<1>2. N \in Nat /\ DOMAIN list = 1..N /\ \A n \in 1..N : list[n] \in Scored
  BY <1>1
<1>3. \A n \in 1..N : list[n].score \in Nat
  BY <1>2 DEF Scored
<1>4. /\ IsFiniteSet(DOMAIN list) /\ Cardinality(DOMAIN list) = N
      /\ Orders(BestFirst(list), DOMAIN list)
  BY <1>2, <1>3, BestOrder
<1>5. o \in [1..N -> DOMAIN list]
  BY <1>4, OrderIs
<1>6. \A m \in DOMAIN list : \E k \in DOMAIN all : all[k] = list[m]
  BY FoundTogether
<1>7. b = [n \in 1..N |-> H(n)]
  <2>1. b = [n \in DOMAIN o |-> H(n)]
    BY DEF ByScore
  <2> QED
    BY <1>5, <2>1
<1> HIDE DEF o
<1>8. ASSUME NEW n \in 1..N
      PROVE  H(n) \in Item /\ ~H(n).summary /\ Sound(H(n))
  <2>1. o[n] \in DOMAIN list /\ list[o[n]].score \in Nat
    BY <1>2, <1>3, <1>5
  <2>2. PICK k \in DOMAIN all : all[k] = list[o[n]]
    BY <1>6, <2>1
  <2>3. H(n) = AsHit(Key(all[k]), list[o[n]].score)
    BY <2>2
  <2> HIDE DEF H
  <2> QED
    BY <2>1, <2>3, HitIs, Zenon
<1> HIDE DEF H, b, N
<1> QED
  BY <1>2, <1>7, <1>8, SeqDef DEF b

LEMMA ByRankIs ==
  ASSUME Recalled
  PROVE  /\ ByRank \in Seq(Item)
         /\ \A n \in DOMAIN ByRank : ~ByRank[n].summary /\ Sound(ByRank[n])
         /\ \A i, j \in DOMAIN ByRank :
               i < j => ~(/\ Ahead(search.dense, ByRank[j].key, ByRank[i].key)
                          /\ Ahead(search.sparse, ByRank[j].key, ByRank[i].key))
<1> DEFINE all == search.dense \o search.sparse
           N == Cardinality(KeysFound)
           o == InOrder(KeysFound, RankedFirst)
           H(n) == AsHit(o[n], FusedScore(o[n]))
<1>1. IsFiniteSet(KeysFound) /\ Orders(RankedFirst, KeysFound)
  BY RanksOrder
<1>2. /\ N \in Nat /\ o \in [1..N -> KeysFound]
      /\ \A m, n \in 1..N : m < n => <<o[m], o[n]>> \in RankedFirst
  BY <1>1, OrderIs
<1>3. ByRank = [n \in 1..N |-> H(n)]
  <2>1. ByRank = [n \in DOMAIN o |-> H(n)]
    BY DEF ByRank
  <2> QED
    BY <1>2, <2>1
<1> HIDE DEF o, N
<1>4. \A n \in 1..N : H(n).key = o[n]
  BY DEF AsHit
<1>5. ASSUME NEW n \in 1..N
      PROVE  H(n) \in Item /\ ~H(n).summary /\ Sound(H(n))
  <2>1. PICK k \in DOMAIN all : Key(all[k]) = o[n]
    BY <1>2, FoundTogether
  <2>2. H(n) = AsHit(Key(all[k]), FusedScore(o[n])) /\ FusedScore(o[n]) \in Nat
    BY <2>1, ScoreIs
  <2> HIDE DEF H
  <2> QED
    BY <2>2, HitIs
<1> HIDE DEF H
<1>6. ASSUME NEW i \in 1..N, NEW j \in 1..N, i < j,
             Ahead(search.dense, o[j], o[i]), Ahead(search.sparse, o[j], o[i])
      PROVE  FALSE
  <2>1. <<o[i], o[j]>> \in RankedFirst /\ o[i] \in KeysFound /\ o[j] \in KeysFound
    BY <1>2, <1>6
  <2>2. <<o[j], o[i]>> \in RankedFirst
    BY <1>6, <2>1, RanksAgree
  <2> QED
    BY <1>1, <2>1, <2>2 DEF Orders
<1>7. ByRank \in Seq(Item)
  BY <1>2, <1>3, <1>5, SeqDef
<1> QED
  BY <1>3, <1>4, <1>5, <1>6, <1>7

LEMMA TakeIs ==
  ASSUME NEW T, NEW list \in Seq(T), NEW n \in Nat
  PROVE  /\ Take(list, n) \in Seq(T) /\ Len(Take(list, n)) <= n
         /\ \A i \in DOMAIN Take(list, n) : i \in DOMAIN list /\ Take(list, n)[i] = list[i]
<1> DEFINE k == IF Len(list) < n THEN Len(list) ELSE n
<1>1. Take(list, n) = SubSeq(list, 1, k)
  BY DEF Take
<1>2. Len(list) \in Nat /\ k \in Nat /\ k <= Len(list) /\ k <= n
  OBVIOUS
<1> HIDE DEF k
<1>3. /\ SubSeq(list, 1, k) \in Seq(T) /\ Len(SubSeq(list, 1, k)) = k
      /\ DOMAIN SubSeq(list, 1, k) = 1..k
      /\ \A i \in 1..k : i \in DOMAIN list /\ SubSeq(list, 1, k)[i] = list[i]
  BY <1>2
<1> QED
  BY <1>1, <1>2, <1>3

LEMMA ThoseFrom ==
  ASSUME NEW pool \in Seq(Item), NEW places \in SUBSET (DOMAIN pool)
  PROVE  /\ Those(pool, places) \in Seq(Item) /\ Len(Those(pool, places)) <= Len(pool)
         /\ \A n \in DOMAIN Those(pool, places) :
               \E m \in places : Those(pool, places)[n] = pool[m]
         /\ \A i, j \in DOMAIN Those(pool, places) : i # j =>
               \E k, l \in places : /\ k # l /\ Those(pool, places)[i] = pool[k]
                                   /\ Those(pool, places)[j] = pool[l]
<1> DEFINE those == Those(pool, places)
<1>1. /\ those \in Seq(Item) /\ Len(those) <= Len(pool)
      /\ \E at \in [DOMAIN those -> places] :
            /\ \A n \in DOMAIN those : those[n] = pool[at[n]]
            /\ \A m, n \in DOMAIN those : m < n => at[m] < at[n]
  BY ThoseAre
<1> HIDE DEF those
<1>2. PICK at \in [DOMAIN those -> places] :
         /\ \A n \in DOMAIN those : those[n] = pool[at[n]]
         /\ \A m, n \in DOMAIN those : m < n => at[m] < at[n]
  BY <1>1
<1>3. \A n \in DOMAIN those : at[n] \in places /\ those[n] = pool[at[n]]
  BY <1>2
<1>4. ASSUME NEW i \in DOMAIN those, NEW j \in DOMAIN those, i # j
      PROVE  at[i] # at[j]
  <2>1. i \in Nat /\ j \in Nat
    BY <1>1
  <2>2. \A k \in places : k \in Nat
    OBVIOUS
  <2>3. i < j \/ j < i
    BY <1>4, <2>1
  <2> QED
    BY <1>2, <2>2, <2>3
<1> QED
  BY <1>1, <1>3, <1>4 DEF those

LEMMA DiverseIs ==
  ASSUME NEW pool \in Seq(Item), NEW n \in Nat \ {0}, NEW list \in Diverse(pool, n)
  PROVE  /\ list \in Seq(Item) /\ Len(list) <= n
         /\ \A i \in DOMAIN list : \E m \in DOMAIN pool : list[i] = pool[m]
<1>1. Len(pool) \in Nat /\ DOMAIN pool = 1..Len(pool) /\ \A i \in DOMAIN pool : pool[i] \in Item
  OBVIOUS
<1>2. CASE "mmr" \in switches /\ Len(pool) > n
  <2>1. PICK f \in Injection(1..(n - 1), 2..Len(pool)) :
           list = <<pool[1]>> \o [i \in 1..(n - 1) |-> pool[f[i]]]
    BY <1>2 DEF Diverse
  <2> DEFINE rest == [i \in 1..(n - 1) |-> pool[f[i]]]
  <2>2. \A i \in 1..(n - 1) : f[i] \in DOMAIN pool
    <3>1. f \in [1..(n - 1) -> 2..Len(pool)]
      BY DEF Injection
    <3> QED
      BY <1>1, <3>1
  <2>3. rest \in Seq(Item) /\ Len(rest) = n - 1
    <3>1. n - 1 \in Nat /\ \A i \in 1..(n - 1) : pool[f[i]] \in Item
      BY <1>1, <2>2
    <3> QED
      BY <3>1, SeqDef
  <2>4. 1 \in DOMAIN pool /\ pool[1] \in Item
    BY <1>1, <1>2
  <2>5. \A i \in 1..Len(rest) : \E m \in DOMAIN pool : rest[i] = pool[m]
    BY <2>2, <2>3
  <2> HIDE DEF rest
  <2>6. <<pool[1]>> \o rest \in Seq(Item) /\ Len(<<pool[1]>> \o rest) = n
    BY <2>3, <2>4
  <2>7. ASSUME NEW i \in DOMAIN (<<pool[1]>> \o rest)
        PROVE  \E m \in DOMAIN pool : (<<pool[1]>> \o rest)[i] = pool[m]
    <3>1. i \in 1..n
      BY <2>6
    <3>2. CASE i = 1
      <4>1. (<<pool[1]>> \o rest)[i] = pool[1]
        BY <2>3, <2>4, <3>2
      <4> QED
        BY <2>4, <4>1
    <3>3. CASE i # 1
      <4>1. i - 1 \in 1..Len(rest) /\ (<<pool[1]>> \o rest)[i] = rest[i - 1]
        BY <2>3, <2>4, <3>1, <3>3
      <4> QED
        BY <2>5, <4>1
    <3> QED
      BY <3>2, <3>3
  <2>8. list = <<pool[1]>> \o rest
    BY <2>1 DEF rest
  <2> QED
    BY <2>6, <2>7, <2>8
<1>3. CASE ~("mmr" \in switches /\ Len(pool) > n)
  <2>1. list = Take(pool, n)
    BY <1>3 DEF Diverse
  <2> QED
    BY <2>1, TakeIs
<1> QED
  BY <1>2, <1>3

\* Two items that are not of one passage, or whose passage nobody knows.
Apart(h, g) ==
    h.text \cap g.text = {} \/ h.key.doc # g.key.doc \/ PassageOf(h.key) = 0

\* A chunk is in its passage, and passages that differ have no chunk in common.
Around(key) ==
    {c \in DOMAIN librarySeen[key.doc].passage :
        PassageOf([key EXCEPT !.idx = c]) = PassageOf(key)}

LEMMA AroundIs ==
  ASSUME librarySeen \in Snapshots,
         NEW k \in [doc : STRING, idx : Nat], PassageOf(k) # 0
  PROVE  /\ Around(k) \in SUBSET Nat /\ k.idx \in Around(k)
         /\ \A l \in [doc : STRING, idx : Nat] :
               l.doc = k.doc /\ PassageOf(l) # PassageOf(k) => Around(k) \cap Around(l) = {}
<1>1. k.doc \in DOMAIN librarySeen /\ k.idx \in DOMAIN librarySeen[k.doc].passage
  BY DEF PassageOf
<1>2. DOMAIN librarySeen[k.doc].passage \subseteq Nat
  <2>1. librarySeen[k.doc].passage \in Seq(Nat)
    BY <1>1, SearchAssumption
  <2> DEFINE passage == librarySeen[k.doc].passage
  <2>2. passage \in Seq(Nat)
    BY <2>1
  <2> HIDE DEF passage
  <2>3. DOMAIN passage \subseteq Nat
    BY <2>2
  <2> QED
    BY <2>3 DEF passage
<1>3. [k EXCEPT !.idx = k.idx] = k
  OBVIOUS
<1>4. ASSUME NEW l \in [doc : STRING, idx : Nat], l.doc = k.doc, PassageOf(l) # PassageOf(k),
             NEW c \in Around(k) \cap Around(l)
      PROVE  FALSE
  <2>1. [k EXCEPT !.idx = c] = [l EXCEPT !.idx = c]
    BY <1>4
  <2> QED
    BY <1>4, <2>1 DEF Around
<1> QED
  BY <1>1, <1>2, <1>3, <1>4 DEF Around

LEMMA WidenedIs ==
  ASSUME librarySeen \in Snapshots, NEW pool \in Seq(Item)
  PROVE  /\ Widened(pool) \in Seq(Item) /\ Len(Widened(pool)) <= Len(pool)
         /\ \A n \in DOMAIN Widened(pool) : \E m \in DOMAIN pool :
               /\ Widened(pool)[n].key = pool[m].key /\ Widened(pool)[n].srcs = pool[m].srcs
               /\ Widened(pool)[n].summary = pool[m].summary
               /\ pool[m].key.idx \in pool[m].text =>
                     Widened(pool)[n].key.idx \in Widened(pool)[n].text
         /\ \A i, j \in DOMAIN Widened(pool) : i # j => Apart(Widened(pool)[i], Widened(pool)[j])
<1> DEFINE N == Len(pool)
           o == InOrder(DOMAIN pool, BestFirst(pool))
           best == [n \in 1..N |-> pool[o[n]]]
           Other(a, b) == ~(a.doc = b.doc /\ PassageOf(a) = PassageOf(b))
           kept == {n \in 1..N : /\ PassageOf(best[n].key) # 0
                                /\ \A m \in 1..(n - 1) : Other(best[m].key, best[n].key)}
           told == Those(best, kept)
           W(n) == [told[n] EXCEPT !.text = Around(told[n].key)]
           w == Widened(pool)
<1>1. N \in Nat /\ DOMAIN pool = 1..N /\ \A n \in 1..N : pool[n] \in Item
  OBVIOUS
<1>2. /\ o \in [1..N -> 1..N]
      /\ \A x \in 1..N : \E n \in 1..N : o[n] = x
  <2>1. \A n \in 1..N : pool[n].score \in Nat
    BY <1>1 DEF Item
  <2>2. /\ IsFiniteSet(DOMAIN pool) /\ Cardinality(DOMAIN pool) = N
        /\ Orders(BestFirst(pool), DOMAIN pool)
    BY <1>1, <2>1, BestOrder
  <2>3. /\ o \in [1..Cardinality(DOMAIN pool) -> DOMAIN pool]
        /\ \A x \in DOMAIN pool : \E n \in 1..Cardinality(DOMAIN pool) : o[n] = x
    BY <2>2, OrderIs
  <2> HIDE DEF o, N
  <2> QED
    BY <1>1, <2>2, <2>3
<1>3. w = IF kept = {} THEN pool ELSE [n \in DOMAIN told |-> W(n)]
  <2> DEFINE best0 == [n \in DOMAIN o |-> pool[o[n]]]
             kept0 == {n \in DOMAIN best0 :
                        /\ PassageOf(best0[n].key) # 0
                        /\ \A m \in 1..(n - 1) : Other(best0[m].key, best0[n].key)}
             told0 == Those(best0, kept0)
  <2>1. w = IF kept0 = {} THEN pool
            ELSE [n \in DOMAIN told0 |-> [told0[n] EXCEPT !.text = Around(told0[n].key)]]
    BY DEF Widened, Around
  <2>2. best0 = best
    BY <1>2
  <2>3. DOMAIN best0 = 1..N
    BY <1>2
  <2>4. kept0 = kept
    <3> HIDE DEF best0, best, Other
    <3> QED
      BY <2>2, <2>3
  <2> HIDE DEF best0, best, kept0, kept, w
  <2> QED
    BY <2>1, <2>2, <2>4
<1> HIDE DEF o, w, N
<1>4. best \in Seq(Item) /\ Len(best) = N /\ DOMAIN best = 1..N
  <2>1. \A n \in 1..N : pool[o[n]] \in Item
    BY <1>1, <1>2
  <2> QED
    BY <1>1, <2>1, SeqDef
<1>5. \A n \in 1..N : o[n] \in DOMAIN pool /\ best[n] = pool[o[n]]
  BY <1>1, <1>2
<1> HIDE DEF best
<1>6. CASE kept = {}
  <2>1. \A n \in 1..N : PassageOf(best[n].key) = 0
    <3> DEFINE T == {n \in 1..N : PassageOf(best[n].key) # 0}
    <3> SUFFICES ASSUME T # {} PROVE FALSE
      OBVIOUS
    <3>1. PICK n \in T : \A m \in T : n <= m
      <4>1. T \subseteq Nat
        BY <1>1
      <4> HIDE DEF T
      <4> QED
        BY <4>1, LeastPlace
    <3>2. n \in 1..N /\ PassageOf(best[n].key) # 0
      OBVIOUS
    <3>3. ASSUME NEW m \in 1..(n - 1) PROVE Other(best[m].key, best[n].key)
      <4>1. m \in 1..N /\ ~(n <= m)
        BY <1>1, <3>2
      <4>2. PassageOf(best[m].key) = 0
        BY <3>1, <4>1
      <4> QED
        BY <3>2, <4>2
    <3> QED
      BY <1>6, <3>2, <3>3
  <2>2. ASSUME NEW m \in DOMAIN pool PROVE PassageOf(pool[m].key) = 0
    <3>1. PICK n \in 1..N : o[n] = m
      BY <1>1, <1>2
    <3>2. best[n] = pool[m]
      BY <1>5, <3>1
    <3> QED
      BY <2>1, <3>1, <3>2
  <2>3. w = pool
    BY <1>3, <1>6
  <2> QED
    BY <1>1, <2>2, <2>3 DEF w, Apart, N
<1>7. CASE kept # {}
  <2>1. kept \in SUBSET (DOMAIN best)
    BY <1>4
  <2>2. /\ told \in Seq(Item) /\ Len(told) <= N
        /\ \A n \in DOMAIN told : \E m \in kept : told[n] = best[m]
        /\ \A i, j \in DOMAIN told : i # j =>
              \E k, l \in kept : k # l /\ told[i] = best[k] /\ told[j] = best[l]
    <3> HIDE DEF kept
    <3> QED
      BY <1>4, <2>1, ThoseFrom, SMTT(60)
  <2>3. w = [n \in DOMAIN told |-> W(n)]
    BY <1>3, <1>7
  <2> HIDE DEF told
  <2>4. \A n \in DOMAIN told : told[n] \in Item /\ told[n].key \in [doc : STRING, idx : Nat]
                             /\ PassageOf(told[n].key) # 0
    <3> SUFFICES ASSUME NEW n \in DOMAIN told
                 PROVE  /\ told[n] \in Item /\ told[n].key \in [doc : STRING, idx : Nat]
                        /\ PassageOf(told[n].key) # 0
      OBVIOUS
    <3>1. told[n] \in Item
      BY <2>2
    <3>2. PICK m \in kept : told[n] = best[m]
      BY <2>2
    <3> QED
      BY <3>1, <3>2 DEF Item
  <2>5. \A n \in DOMAIN told : /\ Around(told[n].key) \in SUBSET Nat
                             /\ told[n].key.idx \in Around(told[n].key)
    BY <2>4, AroundIs
  <2>6. \A n \in DOMAIN told :
           /\ W(n) \in Item /\ W(n).key = told[n].key /\ W(n).srcs = told[n].srcs
           /\ W(n).summary = told[n].summary /\ W(n).text = Around(told[n].key)
    BY <2>4, <2>5 DEF Item
  <2> HIDE DEF W
  <2>7. w \in Seq(Item) /\ DOMAIN w = DOMAIN told /\ Len(w) = Len(told)
    <3>1. DOMAIN told = 1..Len(told) /\ Len(told) \in Nat
      BY <2>2
    <3> QED
      BY <2>3, <2>6, <3>1, SeqDef
  <2>8. ASSUME NEW n \in DOMAIN w
        PROVE  \E m \in DOMAIN pool :
                  /\ w[n].key = pool[m].key /\ w[n].srcs = pool[m].srcs
                  /\ w[n].summary = pool[m].summary /\ w[n].key.idx \in w[n].text
    <3>1. w[n] = W(n) /\ n \in DOMAIN told
      BY <2>3
    <3>2. PICK m \in kept : told[n] = best[m]
      BY <2>2, <3>1
    <3>3. o[m] \in DOMAIN pool /\ told[n] = pool[o[m]]
      BY <1>5, <3>2
    <3> QED
      BY <2>5, <2>6, <3>1, <3>3
  <2>9. ASSUME NEW i \in DOMAIN w, NEW j \in DOMAIN w, i # j
        PROVE  Apart(w[i], w[j])
    <3>1. i \in DOMAIN told /\ j \in DOMAIN told /\ w[i] = W(i) /\ w[j] = W(j)
      BY <2>3
    <3>2. PICK k \in kept, l \in kept : k # l /\ told[i] = best[k] /\ told[j] = best[l]
      BY <2>2, <2>9, <3>1, SMTT(60)
    <3>3. \A n \in kept : n \in 1..N /\ \A m \in 1..(n - 1) : Other(best[m].key, best[n].key)
      OBVIOUS
    <3>4. k \in 1..(l - 1) \/ l \in 1..(k - 1)
      BY <1>1, <3>2, <3>3
    <3>5. Other(told[i].key, told[j].key)
      BY <3>2, <3>3, <3>4
    <3>6. \/ told[i].key.doc # told[j].key.doc
          \/ Around(told[i].key) \cap Around(told[j].key) = {}
      BY <2>4, <3>1, <3>5, AroundIs
    <3> QED
      BY <2>6, <3>1, <3>6 DEF Apart
  <2> QED
    BY <1>1, <2>2, <2>7, <2>8, <2>9 DEF w, N
<1> QED
  BY <1>6, <1>7

-----------------------------------------------------------------------------
(* The invariant of a search.                                              *)

Decisions == {Decision(ask) : ask \in Searches}
Early == {"rewrite", "decompose", "recall"}
Filtered == {"select", "summaries", "govern", "served"}
Chosen == {"summaries", "govern", "served"}
SearchRecord ==
    [pc : Early \cup {"rerank", "filter"} \cup Filtered, ask : Searches, decision : Decisions,
     rewritten : BOOLEAN, queries : Nat, dense : Seq(Scored), sparse : Seq(Scored),
     fused : Seq(Item), pool : Seq(Item), governed : BOOLEAN]

SoundIn(s, h) ==
    /\ h.srcs # {} /\ h.key.idx \in h.text
    /\ h.srcs = {g.src : g \in {x \in Range(s.dense \o s.sparse) : Key(x) = h.key}}

\* All passages of the pool were found.
SoundPool(s) == \A n \in DOMAIN s.pool : ~s.pool[n].summary => SoundIn(s, s.pool[n])

\* After the filter its asker may read them.
ReadablePool(s) ==
    s.pc \in Filtered /\ Filters(s.ask) =>
        \A n \in DOMAIN s.pool : ~s.pool[n].summary => Passes(s.pool[n].key.doc, s.ask)

\* After the choice there are as many as were asked for, and none of the passage of another;
\* the summaries among them lose their text in the end.
FittingPool(s) ==
    s.pc \in Chosen =>
        /\ Len(s.pool) <= s.ask.topk
        /\ s.pc # "served" => ~s.ask.debug
        /\ "small_to_big" \in switches /\ ~s.ask.debug =>
              \A i, j \in DOMAIN s.pool :
                  i # j /\ (s.pc = "served" \/ ~(s.pool[i].summary \/ s.pool[j].summary)) =>
                      Apart(s.pool[i], s.pool[j])

\* What is served is in force.
ValidPool(s) ==
    s.pc = "served" =>
        \A n \in DOMAIN s.pool :
            s.pool[n].key.doc \in Blocked =>
                \/ s.ask.debug
                \/ ~s.governed /\ (s.ask.tenant = "" \/ "fail_open" \in switches)

AgreeingFusion(s) ==
    s.pc = "rerank" /\ s.decision.route \in {"hybrid", "sparse_first"} =>
        \A i, j \in DOMAIN s.fused :
            i < j => ~(/\ Ahead(s.dense, s.fused[j].key, s.fused[i].key)
                       /\ Ahead(s.sparse, s.fused[j].key, s.fused[i].key))

SearchHolds(s) ==
    /\ s \in SearchRecord
    /\ s.pc \in Early => s.pool = <<>>
    /\ SoundPool(s) /\ ReadablePool(s) /\ FittingPool(s) /\ ValidPool(s) /\ AgreeingFusion(s)

SearchInv ==
    /\ librarySeen \in Snapshots /\ subs \in Nat
    /\ search = NoSearch \/ SearchHolds(search)

\* The library and the switches stay as they are while a search is made.
LEMMA SearchFrame ==
  ASSUME librarySeen' = librarySeen, switches' = switches, SearchHolds(search')
  PROVE  SearchHolds(search)'
<1>1. SoundPool(search)' /\ AgreeingFusion(search)' /\ (search \in SearchRecord)'
  BY DEF SearchHolds, SoundPool, SoundIn, AgreeingFusion
<1>2. \A key : PassageOf(key) = PassageOf(key)'
  BY DEF PassageOf
<1>3. \A doc, ask : Passes(doc, ask) = Passes(doc, ask)'
  BY DEF Passes, AclOk
<1>4. Blocked = Blocked'
  BY DEF Blocked
<1>5. ReadablePool(search)'
  BY <1>3 DEF SearchHolds, ReadablePool
<1>6. FittingPool(search)'
  BY <1>2 DEF SearchHolds, FittingPool, Apart
<1>7. ValidPool(search)'
  BY <1>4 DEF SearchHolds, ValidPool
<1>8. (search.pc \in Early => search.pool = <<>>)'
  BY DEF SearchHolds
<1> QED
  BY <1>1, <1>5, <1>6, <1>7, <1>8 DEF SearchHolds

\* An item stems from another: it is the same chunk, as it was found.
Stems(h, g) ==
    /\ h.key = g.key /\ h.srcs = g.srcs /\ h.summary = g.summary
    /\ g.key.idx \in g.text => h.key.idx \in h.text

LEMMA StemsKept ==
  ASSUME NEW s, NEW t, t.dense = s.dense, t.sparse = s.sparse, t.ask = s.ask,
         \A n \in DOMAIN t.pool : ~t.pool[n].summary =>
            \E m \in DOMAIN s.pool : Stems(t.pool[n], s.pool[m])
  PROVE  /\ SoundPool(s) => SoundPool(t)
         /\ (Filters(s.ask) => \A n \in DOMAIN s.pool :
                                  ~s.pool[n].summary => Passes(s.pool[n].key.doc, s.ask))
               => ReadablePool(t)
<1>1. ASSUME NEW n \in DOMAIN t.pool, ~t.pool[n].summary, SoundPool(s)
      PROVE  SoundIn(t, t.pool[n])
  <2>1. PICK m \in DOMAIN s.pool : Stems(t.pool[n], s.pool[m])
    BY <1>1
  <2>2. SoundIn(s, s.pool[m])
    BY <1>1, <2>1 DEF Stems, SoundPool
  <2> QED
    BY <2>1, <2>2 DEF Stems, SoundIn
<1>2. ASSUME NEW n \in DOMAIN t.pool, ~t.pool[n].summary, Filters(s.ask),
             \A m \in DOMAIN s.pool :
                ~s.pool[m].summary => Passes(s.pool[m].key.doc, s.ask)
      PROVE  Passes(t.pool[n].key.doc, s.ask)
  <2>1. PICK m \in DOMAIN s.pool : Stems(t.pool[n], s.pool[m])
    BY <1>2
  <2> QED
    BY <1>2, <2>1 DEF Stems
<1> QED
  BY <1>1, <1>2 DEF SoundPool, ReadablePool

LEMMA StartStep ==
  ASSUME StartSearch
  PROVE  SearchHolds(search')
<1>1. PICK ask \in Searches :
         search' = [pc |-> "rewrite", ask |-> ask, decision |-> Decision(ask),
                    rewritten |-> FALSE, queries |-> 1, dense |-> <<>>, sparse |-> <<>>,
                    fused |-> <<>>, pool |-> <<>>, governed |-> TRUE]
  BY DEF StartSearch
<1>2. Decision(ask) \in Decisions
  BY DEF Decisions
<1>3. <<>> \in Seq(Scored) /\ <<>> \in Seq(Item) /\ DOMAIN <<>> = {}
  OBVIOUS
<1>4. search' \in SearchRecord
  BY <1>1, <1>2, <1>3 DEF SearchRecord, Early
<1>5. search'.pc = "rewrite" /\ search'.pool = <<>>
  BY <1>1
<1> QED
  BY <1>3, <1>4, <1>5
  DEF SearchHolds, SoundPool, ReadablePool, FittingPool, ValidPool, AgreeingFusion, Filtered,
      Chosen

\* Before the fusion the pool is empty, whatever else is known.
LEMMA EarlyHolds ==
  ASSUME NEW t \in SearchRecord, t.pc \in Early, t.pool = <<>>
  PROVE  SearchHolds(t)
<1>1. DOMAIN t.pool = {}
  OBVIOUS
<1> QED
  BY <1>1
  DEF SearchHolds, SoundPool, ReadablePool, FittingPool, ValidPool, AgreeingFusion, Filtered,
      Chosen, Early

LEMMA RewordStep ==
  ASSUME SearchHolds(search), Reword
  PROVE  SearchHolds(search')
<1>1. search \in SearchRecord /\ search.pool = <<>>
  BY DEF SearchHolds, Reword, Early
<1>2. PICK b \in BOOLEAN :
         \/ search' = [search EXCEPT !.pc = "decompose"]
         \/ search' = [search EXCEPT !.pc = "decompose", !.rewritten = b]
  <2>1. \A b \in Trials : b \in BOOLEAN
    BY DEF Trials
  <2>2. (rewrites = "better") \in BOOLEAN
    OBVIOUS
  <2> QED
    BY <2>1, <2>2 DEF Reword
<1>3. search' \in SearchRecord /\ search'.pc \in Early /\ search'.pool = <<>>
  BY <1>1, <1>2 DEF SearchRecord, Early
<1> QED
  BY <1>3, EarlyHolds

LEMMA DecomposeStep ==
  ASSUME SearchHolds(search), subs \in Nat, Decompose
  PROVE  SearchHolds(search') /\ subs' \in Nat
<1>1. search \in SearchRecord /\ search.pool = <<>>
  BY DEF SearchHolds, Decompose, Early
<1>2. \A n \in Wordings : n \in Nat
  BY SearchAssumption DEF Wordings
<1>3. subs' \in Nat
  BY <1>2 DEF Decompose
<1>4. PICK n \in Nat :
         \/ search' = [search EXCEPT !.pc = "recall"]
         \/ search' = [search EXCEPT !.pc = "recall", !.queries = n]
  BY <1>2 DEF Decompose
<1>5. search' \in SearchRecord /\ search'.pc \in Early /\ search'.pool = <<>>
  BY <1>1, <1>4 DEF SearchRecord, Early
<1> QED
  BY <1>3, <1>5, EarlyHolds

LEMMA TaggedIs ==
  ASSUME NEW index \in IndexNames, NEW list \in Lists(index)
  PROVE  Tagged(list, index) \in Seq(Scored)
<1> DEFINE Raw == [doc : STRING, idx : Nat, score : Nat]
<1>1. list \in Seq(Raw)
  <2>1. Found[index] \in SUBSET Seq(Raw)
    BY SearchAssumption
  <2>2. <<>> \in Seq(Raw)
    OBVIOUS
  <2> QED
    BY <2>1, <2>2, Zenon DEF Lists
<1>2. /\ DOMAIN list = 1..Len(list) /\ Len(list) \in Nat
      /\ \A i \in DOMAIN list : list[i] \in Raw
  <2> HIDE DEF Raw
  <2> QED
    BY <1>1
<1> DEFINE T(i) == [doc |-> list[i].doc, idx |-> list[i].idx, score |-> list[i].score,
                    src |-> index]
<1>3. \A i \in DOMAIN list : T(i) \in Scored
  BY <1>2 DEF Scored
<1>4. Tagged(list, index) = [i \in 1..Len(list) |-> T(i)]
  BY <1>2 DEF Tagged
<1> HIDE DEF T
<1> QED
  BY <1>2, <1>3, <1>4, SeqDef

LEMMA AskStep ==
  ASSUME SearchHolds(search), AskIndexes
  PROVE  SearchHolds(search')
<1>1. search \in SearchRecord /\ search.pool = <<>> /\ search.queries > 0
  BY DEF SearchHolds, AskIndexes, Early
<1>2. PICK cloud \in Lists("dense_cloud"), bge \in Lists("dense_bge"), words \in Lists("bm25") :
         search' = [search EXCEPT !.queries = @ - 1,
                                  !.dense = @ \o Tagged(cloud, "dense_cloud")
                                              \o Tagged(bge, "dense_bge"),
                                  !.sparse = @ \o Tagged(words, "bm25")]
  BY DEF AskIndexes
<1> DEFINE a == Tagged(cloud, "dense_cloud")
           b == Tagged(bge, "dense_bge")
           c == Tagged(words, "bm25")
<1>3. a \in Seq(Scored) /\ b \in Seq(Scored) /\ c \in Seq(Scored)
  BY TaggedIs DEF IndexNames
<1> HIDE DEF a, b, c
<1>4. search.dense \in Seq(Scored) /\ search.sparse \in Seq(Scored) /\ search.queries \in Nat
  BY <1>1 DEF SearchRecord
<1>5. /\ search.dense \o a \o b \in Seq(Scored) /\ search.sparse \o c \in Seq(Scored)
      /\ search.queries - 1 \in Nat
  BY <1>1, <1>3, <1>4
<1>6. search' = [search EXCEPT !.queries = search.queries - 1,
                               !.dense = search.dense \o a \o b,
                               !.sparse = search.sparse \o c]
  BY <1>2 DEF a, b, c
<1>7. search.pc \in Early
  BY DEF AskIndexes, Early
<1>8. search' \in SearchRecord /\ search'.pc \in Early /\ search'.pool = <<>>
  BY <1>1, <1>5, <1>6, <1>7 DEF SearchRecord
<1> QED
  BY <1>8, EarlyHolds

LEMMA FuseStep ==
  ASSUME SearchHolds(search), Fuse
  PROVE  SearchHolds(search')
<1> DEFINE list == IF search.decision.route = "sparse" THEN ByScore(search.sparse)
                   ELSE IF search.decision.route = "dense" THEN ByScore(search.dense) ELSE ByRank
           cap == PoolCap(search.ask.topk)
           pool == IF search.ask.debug THEN list ELSE Take(list, cap)
           t == search'
<1>1. search \in SearchRecord /\ Recalled
  BY DEF SearchHolds, SearchRecord, Recalled
<1>2. t = [search EXCEPT !.pc = "rerank", !.fused = list, !.pool = pool]
  BY DEF Fuse
<1>3. list \in Seq(Item) /\ \A n \in DOMAIN list : ~list[n].summary /\ Sound(list[n])
  BY <1>1, ByScoreIs, ByRankIs
<1>4. search.decision.route \in {"hybrid", "sparse_first"} => list = ByRank
  OBVIOUS
<1>5. cap \in Nat
  <2>1. search.ask.topk \in Nat
    BY <1>1, SearchAssumption DEF SearchRecord
  <2> QED
    BY <2>1 DEF PoolCap
<1> HIDE DEF list, cap
<1>6. pool \in Seq(Item) /\ \A n \in DOMAIN pool : ~pool[n].summary /\ Sound(pool[n])
  <2>1. CASE search.ask.debug
    BY <1>3, <2>1
  <2>2. CASE ~search.ask.debug
    <3>1. /\ Take(list, cap) \in Seq(Item)
          /\ \A i \in DOMAIN Take(list, cap) : i \in DOMAIN list /\ Take(list, cap)[i] = list[i]
      BY <1>3, <1>5, TakeIs
    <3> QED
      BY <1>3, <2>2, <3>1
  <2> QED
    BY <2>1, <2>2
<1> HIDE DEF pool
<1>7. /\ t \in SearchRecord /\ t.pc = "rerank" /\ t.fused = list /\ t.pool = pool
      /\ t.dense = search.dense /\ t.sparse = search.sparse /\ t.decision = search.decision
  BY <1>1, <1>2, <1>3, <1>6 DEF SearchRecord
<1> HIDE DEF t
<1>8. SoundPool(t)
  BY <1>6, <1>7 DEF SoundPool, SoundIn, Sound, SourcesOf
<1>9. AgreeingFusion(t)
  BY <1>1, <1>4, <1>7, ByRankIs DEF AgreeingFusion
<1>10. SearchHolds(t)
  BY <1>7, <1>8, <1>9
  DEF SearchHolds, Early, ReadablePool, FittingPool, ValidPool, Filtered, Chosen
<1> QED
  BY <1>10 DEF t

LEMMA RerankStep ==
  ASSUME SearchHolds(search), Rerank
  PROVE  SearchHolds(search')
<1> DEFINE n == Len(search.pool)
           most == IF search.ask.debug THEN 2 * search.ask.topk ELSE PoolCap(search.ask.topk)
           kept == IF n < most THEN n ELSE most
           t == search'
<1>1. search \in SearchRecord /\ search.pool \in Seq(Item) /\ SoundPool(search)
  BY DEF SearchHolds, SearchRecord
<1>2. n \in Nat /\ most \in Nat /\ kept \in Nat /\ kept <= n
  <2>1. search.ask.topk \in Nat
    BY <1>1, SearchAssumption DEF SearchRecord
  <2>2. PoolCap(search.ask.topk) \in Nat
    BY <2>1 DEF PoolCap
  <2>3. n \in Nat
    BY <1>1
  <2>4. most \in Nat
    BY <2>1, <2>2
  <2> HIDE DEF n, most
  <2> QED
    BY <2>3, <2>4
<1>3. PICK pool \in Seq(Item) :
         /\ t = [search EXCEPT !.pc = "filter", !.pool = pool]
         /\ \A i \in DOMAIN pool : \E m \in DOMAIN search.pool : Stems(pool[i], search.pool[m])
  <2>1. CASE t = [search EXCEPT !.pc = "filter", !.pool = Take(search.pool, most)]
    <3>1. /\ Take(search.pool, most) \in Seq(Item)
          /\ \A i \in DOMAIN Take(search.pool, most) :
                i \in DOMAIN search.pool /\ Take(search.pool, most)[i] = search.pool[i]
      BY <1>1, <1>2, TakeIs
    <3> QED
      BY <2>1, <3>1 DEF Stems
  <2>2. CASE \E order \in Injection(1..kept, 1..n) :
               t = [search EXCEPT !.pc = "filter",
                      !.pool = [i \in 1..kept |-> [@[order[i]] EXCEPT !.score = n - i]]]
    <3>1. PICK order \in Injection(1..kept, 1..n) :
             t = [search EXCEPT !.pc = "filter",
                    !.pool = [i \in 1..kept |-> [search.pool[order[i]] EXCEPT !.score = n - i]]]
      BY <2>2, Zenon
    <3> DEFINE H(i) == [search.pool[order[i]] EXCEPT !.score = n - i]
               pool == [i \in 1..kept |-> H(i)]
    <3>2. ASSUME NEW i \in 1..kept
          PROVE  /\ order[i] \in DOMAIN search.pool
                 /\ H(i) \in Item /\ Stems(H(i), search.pool[order[i]])
      <4>1. order[i] \in 1..n
        BY DEF Injection
      <4>2. order[i] \in DOMAIN search.pool /\ search.pool[order[i]] \in Item
        BY <1>1, <4>1
      <4>3. n - i \in Nat
        BY <1>2
      <4> QED
        BY <4>2, <4>3 DEF Item, Stems
    <3> HIDE DEF H
    <3>3. pool \in Seq(Item) /\ DOMAIN pool = 1..kept
      BY <1>2, <3>2, SeqDef, SMTT(60)
    <3>4. \A i \in DOMAIN pool : \E m \in DOMAIN search.pool : Stems(pool[i], search.pool[m])
      BY <3>2, <3>3
    <3>5. t = [search EXCEPT !.pc = "filter", !.pool = pool]
      BY <3>1 DEF H
    <3> QED
      BY <3>3, <3>4, <3>5, Zenon
  <2>3. \/ t = [search EXCEPT !.pc = "filter", !.pool = Take(search.pool, most)]
        \/ \E order \in Injection(1..kept, 1..n) :
               t = [search EXCEPT !.pc = "filter",
                      !.pool = [i \in 1..kept |-> [@[order[i]] EXCEPT !.score = n - i]]]
    BY Zenon DEF Rerank
  <2> QED
    BY <2>1, <2>2, <2>3, Zenon
<1>4. /\ t \in SearchRecord /\ t.pc = "filter" /\ t.pool = pool
      /\ t.dense = search.dense /\ t.sparse = search.sparse /\ t.ask = search.ask
  BY <1>1, <1>3 DEF SearchRecord
<1> HIDE DEF t
<1>5. SoundPool(t)
  BY <1>1, <1>3, <1>4, StemsKept
<1>6. SearchHolds(t)
  BY <1>4, <1>5
  DEF SearchHolds, Early, ReadablePool, FittingPool, ValidPool, AgreeingFusion, Filtered, Chosen
<1> QED
  BY <1>6 DEF t

LEMMA FilterStep ==
  ASSUME SearchHolds(search), Filter
  PROVE  SearchHolds(search')
<1> DEFINE old == search.pool
           places == {i \in DOMAIN old : Passes(old[i].key.doc, search.ask)}
           pool == IF Filters(search.ask) THEN Those(old, places) ELSE old
           t == search'
<1>1. search \in SearchRecord /\ old \in Seq(Item) /\ SoundPool(search)
  BY DEF SearchHolds, SearchRecord
<1>2. t = [search EXCEPT !.pc = "select", !.pool = pool]
  BY SMTT(60) DEF Filter
<1>3. /\ pool \in Seq(Item)
      /\ \A n \in DOMAIN pool : \E m \in DOMAIN old : pool[n] = old[m]
      /\ Filters(search.ask) => \A n \in DOMAIN pool : Passes(pool[n].key.doc, search.ask)
  <2>1. CASE Filters(search.ask)
    <3>1. /\ Those(old, places) \in Seq(Item)
          /\ \A n \in DOMAIN Those(old, places) : \E m \in places : Those(old, places)[n] = old[m]
      <4>1. places \in SUBSET (DOMAIN old)
        OBVIOUS
      <4> HIDE DEF old, places
      <4> QED
        BY <1>1, <4>1, ThoseFrom
    <3> QED
      BY <2>1, <3>1
  <2>2. CASE ~Filters(search.ask)
    BY <1>1, <2>2
  <2> QED
    BY <2>1, <2>2
<1> HIDE DEF pool
<1>4. /\ t \in SearchRecord /\ t.pc = "select" /\ t.pool = pool
      /\ t.dense = search.dense /\ t.sparse = search.sparse /\ t.ask = search.ask
  BY <1>1, <1>2, <1>3 DEF SearchRecord, Filtered
<1> HIDE DEF t
<1>5. SoundPool(t)
  <2>1. \A n \in DOMAIN t.pool : \E m \in DOMAIN search.pool : Stems(t.pool[n], search.pool[m])
    BY <1>3, <1>4 DEF Stems
  <2> QED
    BY <1>1, <1>4, <2>1, StemsKept
<1>6. ReadablePool(t)
  BY <1>3, <1>4 DEF ReadablePool
<1>7. SearchHolds(t)
  BY <1>4, <1>5, <1>6
  DEF SearchHolds, Early, FittingPool, ValidPool, AgreeingFusion, Chosen
<1> QED
  BY <1>7 DEF t

LEMMA SelectStep ==
  ASSUME librarySeen \in Snapshots, SearchHolds(search), Select
  PROVE  SearchHolds(search')
<1> DEFINE old == search.pool
           t == search'
<1>1. /\ search \in SearchRecord /\ old \in Seq(Item) /\ SoundPool(search)
      /\ ReadablePool(search) /\ search.pc = "select"
  BY DEF SearchHolds, SearchRecord, Select
<1>2. search.ask.topk \in Nat \ {0}
  BY <1>1, SearchAssumption DEF SearchRecord
<1>3. PICK list \in Diverse(old, search.ask.topk) :
         t = [search EXCEPT
                !.pc = IF search.ask.debug THEN "served" ELSE "summaries",
                !.pool = IF "small_to_big" \in switches /\ ~search.ask.debug
                         THEN Widened(list) ELSE list]
  BY DEF Select
<1>4. /\ list \in Seq(Item) /\ Len(list) <= search.ask.topk
      /\ \A i \in DOMAIN list : \E m \in DOMAIN old : list[i] = old[m]
  <2> HIDE DEF old
  <2> QED
    BY <1>1, <1>2, DiverseIs
<1> DEFINE wide == "small_to_big" \in switches /\ ~search.ask.debug
           pool == IF wide THEN Widened(list) ELSE list
<1>5. /\ pool \in Seq(Item) /\ Len(pool) <= search.ask.topk
      /\ \A n \in DOMAIN pool : \E m \in DOMAIN old : Stems(pool[n], old[m])
      /\ wide => \A i, j \in DOMAIN pool : i # j => Apart(pool[i], pool[j])
  <2>1. CASE wide
    <3>1. /\ Widened(list) \in Seq(Item) /\ Len(Widened(list)) <= Len(list)
          /\ \A n \in DOMAIN Widened(list) : \E m \in DOMAIN list : Stems(Widened(list)[n], list[m])
          /\ \A i, j \in DOMAIN Widened(list) :
                i # j => Apart(Widened(list)[i], Widened(list)[j])
      BY <1>4, WidenedIs DEF Stems
    <3>2. Len(Widened(list)) <= search.ask.topk
      <4>1. Len(Widened(list)) \in Nat /\ Len(list) \in Nat
        BY <1>4, <3>1
      <4> QED
        BY <1>2, <1>4, <3>1, <4>1
    <3> HIDE DEF wide, old
    <3> QED
      BY <1>4, <2>1, <3>1, <3>2
  <2>2. CASE ~wide
    BY <1>4, <2>2 DEF Stems
  <2> QED
    BY <2>1, <2>2
<1> HIDE DEF pool
<1>6. /\ t \in SearchRecord /\ t.pool = pool
      /\ t.pc = IF search.ask.debug THEN "served" ELSE "summaries"
      /\ t.dense = search.dense /\ t.sparse = search.sparse /\ t.ask = search.ask
  BY <1>1, <1>3, <1>5 DEF SearchRecord, Filtered, pool
<1> HIDE DEF t
<1>7. SoundPool(t) /\ ReadablePool(t)
  <2>1. Filters(search.ask) => \A n \in DOMAIN search.pool :
           ~search.pool[n].summary => Passes(search.pool[n].key.doc, search.ask)
    BY <1>1 DEF ReadablePool, Filtered
  <2> QED
    BY <1>1, <1>5, <1>6, <2>1, StemsKept, SMTT(60)
<1>8. FittingPool(t)
  <2>1. t.pc # "served" => ~t.ask.debug
    BY <1>6
  <2>2. ASSUME "small_to_big" \in switches, ~t.ask.debug
        PROVE  \A i, j \in DOMAIN t.pool : i # j => Apart(t.pool[i], t.pool[j])
    <3>1. wide
      BY <1>6, <2>2
    <3> HIDE DEF wide
    <3> QED
      BY <1>5, <1>6, <3>1
  <2>3. Len(t.pool) <= t.ask.topk
    BY <1>5, <1>6
  <2> QED
    BY <2>1, <2>2, <2>3 DEF FittingPool
<1>9. ValidPool(t)
  BY <1>6 DEF ValidPool
<1>10. t.pc # "rerank" /\ t.pc \notin Early
  BY <1>6 DEF Early
<1>11. SearchHolds(t)
  BY <1>6, <1>7, <1>8, <1>9, <1>10 DEF SearchHolds, AgreeingFusion
<1> QED
  BY <1>11 DEF t

LEMMA SummariesStep ==
  ASSUME librarySeen \in Snapshots, SearchHolds(search), Summaries
  PROVE  SearchHolds(search')
<1> DEFINE old == search.pool
           t == search'
<1>1. /\ search \in SearchRecord /\ old \in Seq(Item) /\ SoundPool(search)
      /\ ReadablePool(search) /\ FittingPool(search) /\ search.pc = "summaries"
  BY DEF SearchHolds, SearchRecord, Summaries
<1>2. search.ask.topk \in Nat
  BY <1>1, SearchAssumption DEF SearchRecord
<1>0. PICK near \in SUBSET Told : \E told \in SetToSeqs(near) :
         t = [search EXCEPT !.pc = "govern",
                !.pool = Take(@ \o [i \in DOMAIN told |-> SummaryOf(told[i])], search.ask.topk)]
  BY Zenon DEF Summaries
<1>3. PICK told \in SetToSeqs(near) :
         t = [search EXCEPT !.pc = "govern",
                !.pool = Take(@ \o [i \in DOMAIN told |-> SummaryOf(told[i])], search.ask.topk)]
  BY <1>0, Zenon
<1> DEFINE tail == [i \in DOMAIN told |-> SummaryOf(told[i])]
           both == old \o tail
           pool == Take(both, search.ask.topk)
<1>4. tail \in Seq(Item) /\ \A i \in DOMAIN tail : tail[i].summary
  <2>1. IsFiniteSet(DOMAIN librarySeen) /\ DOMAIN librarySeen \subseteq STRING
    BY SearchAssumption
  <2>2. near \in SUBSET (DOMAIN librarySeen)
    BY DEF Told
  <2>3. Cardinality(near) \in Nat
    <3>1. IsFiniteSet(near)
      BY <2>1, <2>2, FS_Subset
    <3> QED
      BY <3>1, FS_CardinalityType
  <2>4. told \in [1..Cardinality(near) -> near]
    BY DEF SetToSeqs
  <2>5. \A d \in near : SummaryOf(d) \in Item /\ SummaryOf(d).summary
    <3> SUFFICES ASSUME NEW d \in near PROVE SummaryOf(d) \in Item /\ SummaryOf(d).summary
      OBVIOUS
    <3>1. d \in STRING /\ {} \in SUBSET IndexNames /\ {0} \in SUBSET Nat
      BY <2>1, <2>2
    <3> QED
      BY <3>1 DEF SummaryOf, Item
  <2>6. \A i \in 1..Cardinality(near) : SummaryOf(told[i]) \in Item /\ SummaryOf(told[i]).summary
    BY <2>4, <2>5
  <2>7. tail = [i \in 1..Cardinality(near) |-> SummaryOf(told[i])]
    BY <2>4
  <2> HIDE DEF tail
  <2> QED
    BY <2>3, <2>6, <2>7, SeqDef
<1> HIDE DEF tail
<1>5. /\ both \in Seq(Item) /\ \A i \in DOMAIN both :
            \/ i \in DOMAIN old /\ both[i] = old[i]
            \/ both[i].summary
  <2> HIDE DEF old
  <2>1. /\ both \in Seq(Item) /\ DOMAIN both = 1..(Len(old) + Len(tail))
        /\ Len(old) \in Nat /\ Len(tail) \in Nat
    BY <1>1, <1>4
  <2>2. ASSUME NEW i \in DOMAIN both
        PROVE  (i \in DOMAIN old /\ both[i] = old[i]) \/ both[i].summary
    <3>1. i \in Nat /\ i >= 1 /\ i <= Len(old) + Len(tail)
      BY <2>1
    <3>2. CASE i <= Len(old)
      BY <1>1, <1>4, <2>1, <3>1, <3>2
    <3>3. CASE ~(i <= Len(old))
      <4>1. i - Len(old) \in DOMAIN tail /\ both[i] = tail[i - Len(old)]
        BY <1>1, <1>4, <2>1, <3>1, <3>3
      <4> QED
        BY <1>4, <4>1
    <3> QED
      BY <3>2, <3>3
  <2> QED
    BY <2>1, <2>2
<1> HIDE DEF both
<1>6. /\ pool \in Seq(Item) /\ Len(pool) <= search.ask.topk
      /\ \A n \in DOMAIN pool : ~pool[n].summary => n \in DOMAIN old /\ pool[n] = old[n]
  <2>1. /\ pool \in Seq(Item) /\ Len(pool) <= search.ask.topk
        /\ \A i \in DOMAIN pool : i \in DOMAIN both /\ pool[i] = both[i]
    BY <1>2, <1>5, TakeIs
  <2> HIDE DEF pool
  <2> QED
    BY <1>5, <2>1
<1>7. /\ t \in SearchRecord /\ t.pool = pool /\ t.pc = "govern"
      /\ t.dense = search.dense /\ t.sparse = search.sparse /\ t.ask = search.ask
  <2>1. t = [search EXCEPT !.pc = "govern", !.pool = pool]
    BY <1>3 DEF both, tail
  <2> HIDE DEF pool
  <2> QED
    BY <1>1, <1>6, <2>1 DEF SearchRecord, Filtered
<1> HIDE DEF t, pool
<1>8. SoundPool(t) /\ ReadablePool(t)
  <2>1. Filters(search.ask) => \A n \in DOMAIN search.pool :
           ~search.pool[n].summary => Passes(search.pool[n].key.doc, search.ask)
    BY <1>1 DEF ReadablePool, Filtered
  <2>2. \A n \in DOMAIN t.pool : ~t.pool[n].summary =>
           \E m \in DOMAIN search.pool : Stems(t.pool[n], search.pool[m])
    BY <1>6, <1>7 DEF Stems
  <2> QED
    BY <1>1, <1>7, <2>1, <2>2, StemsKept
<1>9. FittingPool(t)
  <2>1. ~t.ask.debug /\ t.pc # "served"
    BY <1>1, <1>7 DEF FittingPool, Chosen
  <2>2. ASSUME "small_to_big" \in switches, NEW i \in DOMAIN t.pool, NEW j \in DOMAIN t.pool,
               i # j, ~(t.pool[i].summary \/ t.pool[j].summary)
        PROVE  Apart(t.pool[i], t.pool[j])
    <3>1. /\ i \in DOMAIN search.pool /\ t.pool[i] = search.pool[i]
          /\ j \in DOMAIN search.pool /\ t.pool[j] = search.pool[j]
      BY <1>6, <1>7, <2>2
    <3>2. ~(search.pool[i].summary \/ search.pool[j].summary)
      BY <2>2, <3>1
    <3>3. \A m, n \in DOMAIN search.pool :
             m # n /\ ~(search.pool[m].summary \/ search.pool[n].summary) =>
                Apart(search.pool[m], search.pool[n])
      BY <1>1, <2>2 DEF FittingPool, Chosen
    <3> QED
      BY <2>2, <3>1, <3>2, <3>3
  <2>3. Len(t.pool) <= t.ask.topk
    BY <1>6, <1>7
  <2> QED
    BY <2>1, <2>2, <2>3 DEF FittingPool
<1>10. SearchHolds(t)
  BY <1>7, <1>8, <1>9 DEF SearchHolds, Early, AgreeingFusion, ValidPool
<1> QED
  BY <1>10 DEF t

LEMMA GovernStep ==
  ASSUME SearchHolds(search), Govern
  PROVE  SearchHolds(search')
<1> DEFINE old == search.pool
           t == search'
           unsure == search.ask.tenant # "" /\ "fail_open" \notin switches
           valid == {i \in DOMAIN old : old[i].key.doc \notin Blocked}
<1>1. /\ search \in SearchRecord /\ old \in Seq(Item) /\ SoundPool(search)
      /\ ReadablePool(search) /\ FittingPool(search) /\ search.pc = "govern"
  BY Zenon DEF SearchHolds, SearchRecord, Govern
<1>2. search.ask.topk \in Nat
  BY <1>1, SearchAssumption DEF SearchRecord
<1>3. PICK known \in BOOLEAN :
         LET pool == IF known THEN Those(old, valid) ELSE IF unsure THEN <<>> ELSE old
             human == IF "ai_exclude" \notin switches THEN pool
                      ELSE Those(pool, {i \in DOMAIN pool :
                                           pool[i].summary \/ TypeIn(pool[i]) # "ai_evolution"})
         IN  t = [search EXCEPT !.pc = "served", !.governed = known,
                                !.pool = [i \in DOMAIN human |-> Presented(human[i])]]
  BY Zenon DEF Govern
<1> DEFINE pool == IF known THEN Those(old, valid) ELSE IF unsure THEN <<>> ELSE old
           people == {i \in DOMAIN pool : pool[i].summary \/ TypeIn(pool[i]) # "ai_evolution"}
           human == IF "ai_exclude" \notin switches THEN pool ELSE Those(pool, people)
           shown == [i \in DOMAIN human |-> Presented(human[i])]
           InForce(h) == h.key.doc \in Blocked =>
                            ~known /\ (search.ask.tenant = "" \/ "fail_open" \in switches)
           Taken(list, from) ==
               /\ list \in Seq(Item) /\ Len(list) <= Len(from)
               /\ \A n \in DOMAIN list : \E m \in DOMAIN from : list[n] = from[m]
               /\ \A i, j \in DOMAIN list : i # j =>
                     \E k, l \in DOMAIN from : k # l /\ list[i] = from[k] /\ list[j] = from[l]
<1>4. ASSUME NEW from \in Seq(Item), NEW places \in SUBSET (DOMAIN from)
      PROVE  Taken(Those(from, places), from)
  <2>1. /\ Those(from, places) \in Seq(Item) /\ Len(Those(from, places)) <= Len(from)
        /\ \A n \in DOMAIN Those(from, places) :
              \E m \in places : Those(from, places)[n] = from[m]
        /\ \A i, j \in DOMAIN Those(from, places) : i # j =>
              \E k, l \in places : /\ k # l /\ Those(from, places)[i] = from[k]
                                  /\ Those(from, places)[j] = from[l]
    BY ThoseFrom
  <2> QED
    BY <2>1
<1>5. Taken(pool, old) /\ \A n \in DOMAIN pool : InForce(pool[n])
  <2>1. CASE known
    <3>1. valid \in SUBSET (DOMAIN old)
      OBVIOUS
    <3>2. Taken(Those(old, valid), old)
      <4> HIDE DEF old, valid, Taken
      <4> QED
        BY <1>1, <1>4, <3>1
    <3>3. \A n \in DOMAIN Those(old, valid) : \E m \in valid : Those(old, valid)[n] = old[m]
      <4> HIDE DEF old, valid
      <4> QED
        BY <1>1, <3>1, ThoseFrom
    <3>4. \A m \in valid : InForce(old[m])
      OBVIOUS
    <3>5. pool = Those(old, valid)
      BY <2>1
    <3> HIDE DEF pool, valid, Taken, InForce, old
    <3> QED
      BY <3>2, <3>3, <3>4, <3>5
  <2>2. CASE ~known /\ unsure
    <3>1. pool = <<>>
      BY <2>2
    <3>2. Len(old) \in Nat
      BY <1>1
    <3> HIDE DEF pool, old
    <3>3. pool \in Seq(Item) /\ DOMAIN pool = {} /\ Len(pool) <= Len(old)
      BY <3>1, <3>2
    <3> QED
      BY <3>3
  <2>3. CASE ~known /\ ~unsure
    <3>1. pool = old
      BY <2>3
    <3>2. Len(old) \in Nat
      BY <1>1
    <3>3. \A h : InForce(h)
      BY <2>3
    <3> HIDE DEF pool, old, InForce
    <3> QED
      BY <1>1, <3>1, <3>2, <3>3
  <2> QED
    BY <2>1, <2>2, <2>3, Zenon
<1> HIDE DEF old, pool, InForce
<1>6. Taken(human, pool)
  <2>1. pool \in Seq(Item) /\ Len(pool) \in Nat
    BY <1>5
  <2>2. CASE "ai_exclude" \notin switches
    BY <2>1, <2>2
  <2>3. CASE "ai_exclude" \in switches
    <3>1. people \in SUBSET (DOMAIN pool) /\ human = Those(pool, people)
      BY <2>3
    <3> HIDE DEF people, human, Taken
    <3> QED
      BY <1>4, <2>1, <3>1
  <2> QED
    BY <2>2, <2>3
<1>7. Taken(human, old) /\ \A n \in DOMAIN human : InForce(human[n])
  <2>1. human \in Seq(Item) /\ Len(human) <= Len(old)
    <3>1. Len(human) \in Nat /\ Len(pool) \in Nat /\ Len(old) \in Nat
      BY <1>1, <1>5, <1>6
    <3> QED
      BY <1>5, <1>6, <3>1
  <2> HIDE DEF human
  <2>2. \A n \in DOMAIN human : InForce(human[n]) /\ \E m \in DOMAIN old : human[n] = old[m]
    BY <1>5, <1>6
  <2>3. \A i, j \in DOMAIN human : i # j =>
           \E k, l \in DOMAIN old : k # l /\ human[i] = old[k] /\ human[j] = old[l]
    <3> SUFFICES ASSUME NEW i \in DOMAIN human, NEW j \in DOMAIN human, i # j
                 PROVE  \E k, l \in DOMAIN old : k # l /\ human[i] = old[k] /\ human[j] = old[l]
      OBVIOUS
    <3>1. PICK k \in DOMAIN pool, l \in DOMAIN pool :
             k # l /\ human[i] = pool[k] /\ human[j] = pool[l]
      BY <1>6
    <3> QED
      BY <1>5, <3>1
  <2> QED
    BY <2>1, <2>2, <2>3
<1> HIDE DEF human
<1>8. \A h \in Item : /\ Presented(h) \in Item /\ Presented(h).key = h.key
                      /\ Presented(h).srcs = h.srcs /\ Presented(h).summary = h.summary
                      /\ ~h.summary => Presented(h) = h
                      /\ h.summary => Presented(h).text = {}
  BY DEF Presented, Item
<1>9. human \in Seq(Item) /\ DOMAIN human = 1..Len(human) /\ Len(human) \in Nat
      /\ \A n \in DOMAIN human : human[n] \in Item
  BY <1>7
<1>10. shown \in Seq(Item) /\ Len(shown) = Len(human) /\ DOMAIN shown = DOMAIN human
       /\ \A n \in DOMAIN shown : shown[n] = Presented(human[n])
  <2>1. shown = [i \in 1..Len(human) |-> Presented(human[i])]
    BY <1>9
  <2>2. \A i \in 1..Len(human) : Presented(human[i]) \in Item
    BY <1>8, <1>9
  <2> HIDE DEF shown
  <2> QED
    BY <1>9, <2>1, <2>2, SeqDef
<1>11. /\ t \in SearchRecord /\ t.pool = shown /\ t.pc = "served" /\ t.governed = known
       /\ t.dense = search.dense /\ t.sparse = search.sparse /\ t.ask = search.ask
  <2>1. t = [search EXCEPT !.pc = "served", !.governed = known, !.pool = shown]
    BY <1>3, Zenon DEF human, pool, old
  <2> HIDE DEF shown
  <2> QED
    BY <1>1, <1>10, <2>1 DEF SearchRecord, Filtered
<1> HIDE DEF t, shown
<1>12. \A n \in DOMAIN shown :
          /\ shown[n] = Presented(human[n]) /\ human[n] \in Item
          /\ shown[n].key = human[n].key /\ shown[n].summary = human[n].summary
          /\ ~shown[n].summary => shown[n] = human[n]
          /\ shown[n].summary => shown[n].text = {}
  BY <1>8, <1>9, <1>10
<1>13. SoundPool(t) /\ ReadablePool(t)
  <2>1. Filters(search.ask) => \A n \in DOMAIN search.pool :
           ~search.pool[n].summary => Passes(search.pool[n].key.doc, search.ask)
    BY <1>1 DEF ReadablePool, Filtered
  <2>2. ASSUME NEW n \in DOMAIN t.pool, ~t.pool[n].summary
        PROVE  \E m \in DOMAIN search.pool : Stems(t.pool[n], search.pool[m])
    <3>1. n \in DOMAIN human /\ t.pool[n] = human[n]
      BY <1>10, <1>11, <1>12, <2>2
    <3>2. PICK m \in DOMAIN old : human[n] = old[m]
      BY <1>7, <3>1
    <3> QED
      BY <3>1, <3>2 DEF Stems, old
  <2> QED
    BY <1>1, <1>11, <2>1, <2>2, StemsKept
<1>14. ValidPool(t)
  <2>1. \A n \in DOMAIN t.pool : InForce(t.pool[n])
    BY <1>7, <1>10, <1>11, <1>12 DEF InForce
  <2> QED
    BY <1>11, <2>1 DEF ValidPool, InForce
<1>15. FittingPool(t)
  <2>1. Len(t.pool) <= t.ask.topk
    <3>1. Len(old) <= search.ask.topk /\ Len(old) \in Nat
      BY <1>1 DEF FittingPool, Chosen, old
    <3> QED
      BY <1>2, <1>7, <1>9, <1>10, <1>11, <3>1
  <2>2. ASSUME "small_to_big" \in switches, ~t.ask.debug,
               NEW i \in DOMAIN t.pool, NEW j \in DOMAIN t.pool, i # j
        PROVE  Apart(t.pool[i], t.pool[j])
    <3>1. CASE t.pool[i].summary \/ t.pool[j].summary
      <4>1. t.pool[i].text = {} \/ t.pool[j].text = {}
        BY <1>11, <1>12, <3>1
      <4> QED
        BY <4>1 DEF Apart
    <3>2. CASE ~(t.pool[i].summary \/ t.pool[j].summary)
      <4>1. /\ i \in DOMAIN human /\ t.pool[i] = human[i]
            /\ j \in DOMAIN human /\ t.pool[j] = human[j]
        BY <1>10, <1>11, <1>12, <3>2
      <4>2. PICK k \in DOMAIN old, l \in DOMAIN old :
               k # l /\ human[i] = old[k] /\ human[j] = old[l]
        BY <1>7, <2>2, <4>1
      <4>3. ~search.ask.debug
        BY <1>11, <2>2
      <4>4. /\ search.pool[k] = t.pool[i] /\ search.pool[l] = t.pool[j]
            /\ k \in DOMAIN search.pool /\ l \in DOMAIN search.pool
        BY <4>1, <4>2 DEF old
      <4> QED
        BY <1>1, <2>2, <3>2, <4>2, <4>3, <4>4 DEF FittingPool, Chosen
    <3> QED
      BY <3>1, <3>2
  <2> QED
    BY <1>11, <2>1, <2>2 DEF FittingPool
<1>16. SearchHolds(t)
  BY <1>11, <1>13, <1>14, <1>15 DEF SearchHolds, Early, AgreeingFusion
<1> QED
  BY <1>16 DEF t

-----------------------------------------------------------------------------
(* The theorem of the search.                                              *)

LEMMA SearchInitially == RetrievalInit => SearchInv
BY DEF RetrievalInit, SearchInv

LEMMA SearchInductive == SearchInv /\ [RetrievalNext]_searchVars => SearchInv'
<1> SUFFICES ASSUME SearchInv, [RetrievalNext]_searchVars
             PROVE  SearchInv'
  OBVIOUS
<1> USE DEF SearchInv
<1>1. ASSUME SearchHolds(search'), librarySeen' = librarySeen, switches' = switches,
             subs' \in Nat
      PROVE  SearchInv'
  BY <1>1, SearchFrame
<1>2. search.pc # "idle" => SearchHolds(search)
  BY DEF NoSearch
<1>3. CASE StartSearch
  BY <1>1, <1>3, StartStep, Zenon DEF StartSearch
<1>4. CASE Reword
  BY <1>1, <1>2, <1>4, RewordStep, Zenon DEF Reword
<1>5. CASE Decompose
  BY <1>1, <1>2, <1>5, DecomposeStep, Zenon DEF Decompose
<1>6. CASE AskIndexes
  BY <1>1, <1>2, <1>6, AskStep, Zenon DEF AskIndexes
<1>7. CASE Fuse
  BY <1>1, <1>2, <1>7, FuseStep, Zenon DEF Fuse
<1>8. CASE Rerank
  BY <1>1, <1>2, <1>8, RerankStep, Zenon DEF Rerank
<1>9. CASE Filter
  BY <1>1, <1>2, <1>9, FilterStep, Zenon DEF Filter
<1>10. CASE Select
  BY <1>1, <1>2, <1>10, SelectStep, Zenon DEF Select
<1>11. CASE Summaries
  BY <1>1, <1>2, <1>11, SummariesStep, Zenon DEF Summaries
<1>12. CASE Govern
  BY <1>1, <1>2, <1>12, GovernStep, Zenon DEF Govern
<1>13. CASE AskAgain
  BY <1>13 DEF AskAgain
<1>14. CASE UNCHANGED searchVars
  <2>1. search' = search /\ librarySeen' = librarySeen /\ switches' = switches /\ subs' = subs
    BY <1>14 DEF searchVars
  <2> QED
    BY <1>1, <2>1
<1> QED
  BY <1>3, <1>4, <1>5, <1>6, <1>7, <1>8, <1>9, <1>10, <1>11, <1>12, <1>13, <1>14
  DEF RetrievalNext

LEMMA SearchImplies == SearchInv => RetrievalHolds
<1> SUFFICES ASSUME SearchInv, search.pc # "idle"
             PROVE  /\ ServedIsAllowed /\ ServedIsValid /\ ServedWasFound
                    /\ ServedFitsThePrompt /\ FusionAgrees
  BY DEF RetrievalHolds
<1>1. /\ search \in SearchRecord /\ search.pool \in Seq(Item) /\ SoundPool(search)
      /\ ReadablePool(search) /\ FittingPool(search) /\ ValidPool(search)
      /\ AgreeingFusion(search)
  BY DEF SearchInv, SearchHolds, SearchRecord, NoSearch
<1>2. search.ask.topk \in Nat
  BY <1>1, SearchAssumption DEF SearchRecord
<1>3. \A h \in Range(ItemsServed) :
         search.pc = "served" /\ \E n \in DOMAIN search.pool : h = search.pool[n]
  BY DEF ItemsServed, Range
<1>4. ServedIsAllowed
  <2> SUFFICES ASSUME NEW h \in Passages
               PROVE  LET ask == search.ask  doc == h.key.doc
                      IN  /\ ask.tenant # "" =>
                                doc \in DOMAIN librarySeen /\ librarySeen[doc].tenant = ask.tenant
                          /\ doc \in DOMAIN librarySeen =>
                                /\ ask.type # "" => librarySeen[doc].type = ask.type
                                /\ librarySeen[doc].dept \notin {"", ask.dept} /\ ask.dept # "" =>
                                      ask.role = "admin"
                                /\ (/\ librarySeen[doc].dept # "" /\ librarySeen[doc].roles # {}
                                    /\ ask.role # "") =>
                                      ask.role \in librarySeen[doc].roles \cup {"admin"}
    BY DEF ServedIsAllowed
  <2>1. search.pc = "served" /\ ~h.summary
    BY <1>3 DEF Passages
  <2>2. PICK n \in DOMAIN search.pool : h = search.pool[n]
    BY <1>3 DEF Passages
  <2>3. Filters(search.ask) => Passes(h.key.doc, search.ask)
    BY <1>1, <2>1, <2>2 DEF ReadablePool, Filtered
  <2> DEFINE ask == search.ask
             doc == h.key.doc
             row == librarySeen[doc]
  <2>4. CASE ~Filters(ask)
    <3>1. ask.tenant = "" /\ ask.type = "" /\ ask.dept = "" /\ ask.role = ""
      BY <2>4 DEF Filters
    <3> HIDE DEF ask, doc
    <3> QED
      BY <3>1 DEF ask, doc
  <2>5. CASE Passes(doc, ask)
    <3>1. ask.tenant # "" => doc \in DOMAIN librarySeen /\ row.tenant = ask.tenant
      BY <2>5 DEF Passes
    <3>2. ASSUME doc \in DOMAIN librarySeen
          PROVE  (ask.type # "" => row.type = ask.type) /\ AclOk(row.dept, row.roles, ask)
      BY <2>5, <3>2 DEF Passes
    <3>3. ASSUME doc \in DOMAIN librarySeen, row.dept \notin {"", ask.dept}, ask.dept # ""
          PROVE  ask.role = "admin"
      BY <3>2, <3>3 DEF AclOk
    <3>4. ASSUME doc \in DOMAIN librarySeen, row.dept # "", row.roles # {}, ask.role # ""
          PROVE  ask.role \in row.roles \cup {"admin"}
      BY <3>2, <3>4 DEF AclOk
    <3> QED
      BY <3>1, <3>2, <3>3, <3>4
  <2> QED
    BY <2>3, <2>4, <2>5
<1>5. ServedIsValid
  <2> SUFFICES ASSUME NEW h \in Range(ItemsServed), h.key.doc \in Blocked
               PROVE  \/ search.ask.debug
                      \/ ~search.governed /\ (search.ask.tenant = "" \/ "fail_open" \in switches)
    BY DEF ServedIsValid
  <2>1. PICK n \in DOMAIN search.pool : h = search.pool[n]
    BY <1>3
  <2>2. search.pc = "served"
    BY <1>3
  <2> QED
    BY <1>1, <2>1, <2>2 DEF ValidPool
<1>6. ServedWasFound
  BY <1>1, <1>3 DEF ServedWasFound, Passages, SoundPool, SoundIn, SourcesOf
<1>7. ServedFitsThePrompt
  <2>1. CASE search.pc = "served"
    <3>1. ItemsServed = search.pool
      BY <2>1 DEF ItemsServed
    <3> QED
      BY <1>1, <2>1, <3>1 DEF ServedFitsThePrompt, FittingPool, Chosen, Apart
  <2>2. CASE search.pc # "served"
    <3>1. ItemsServed = <<>>
      BY <2>2 DEF ItemsServed
    <3> QED
      BY <1>2, <3>1 DEF ServedFitsThePrompt
  <2> QED
    BY <2>1, <2>2
<1>8. FusionAgrees
  BY <1>1 DEF FusionAgrees, AgreeingFusion
<1> QED
  BY <1>4, <1>5, <1>6, <1>7, <1>8

\* Whatever the indexes find, however models reword, order and choose, and whatever fails: what a
\* search serves its asker may read, and it is in force unless nobody could tell; each passage
\* names the indexes that found it and holds what they found; there is no more than was asked
\* for, and with passages nothing twice; and where ranks are fused no chunk comes before one
\* that is ahead of it in both lists.
THEOREM SearchesHold == RetrievalSpec => []RetrievalHolds
<1>1. RetrievalInit => SearchInv
  BY SearchInitially
<1>2. SearchInv /\ [RetrievalNext]_searchVars => SearchInv'
  BY SearchInductive
<1>3. SearchInv => RetrievalHolds
  BY SearchImplies
<1> QED
  BY <1>1, <1>2, <1>3, PTL DEF RetrievalSpec

-----------------------------------------------------------------------------
(* The index of nearly the same questions.                                 *)

\* An index that has every question once, and has not too many.
GoodIndex(index) ==
    /\ IsFiniteSet(index) /\ Cardinality(index) <= IndexLimit
    /\ \A e, f \in index : SameQuestion(e, f) => e = f

AtHome == \A r, s \in Seekers : homeOf[r] = homeOf[s]

SeekInv ==
    /\ DOMAIN seeker = Seekers /\ blind \in BOOLEAN /\ GoodIndex(semIndex)
    /\ \A r \in Seekers :
          /\ seeker[r].at = "fetch" =>
                /\ Near(seeker[r].words, seeker[r].entry) >= Medium
                /\ seeker[r].entry.key[1] = seeker[r].model
          /\ seeker[r].at = "write" =>
                GoodIndex(seeker[r].read) /\ seeker[r].blind \in BOOLEAN

\* Who writes holds the lock of his process, and nobody else holds it.
SemLockInv ==
    /\ DOMAIN semLock = Homes /\ homeOf \in [Seekers -> Homes]
    /\ \A r \in Seekers : seeker[r].at = "write" => semLock[homeOf[r]] = r
    /\ \A h \in Homes : semLock[h] # NobodyInside =>
          /\ semLock[h] \in Seekers /\ homeOf[semLock[h]] = h
          /\ seeker[semLock[h]].at = "write"

\* In one process, who writes knows all that is in the index, unless he could not read it.
KnownInv ==
    AtHome /\ ~blind =>
        /\ semLost = {}
        /\ \A r \in Seekers : seeker[r].at = "write" /\ ~seeker[r].blind =>
              semIndex \subseteq seeker[r].read

SemInv == SeekInv /\ SemLockInv /\ KnownInv /\ ServedIsNear

-----------------------------------------------------------------------------

LEMMA EmptyIsGood == GoodIndex({})
  BY FS_EmptySet, SemanticAssumption DEF GoodIndex

\* What is written of a good index is good, and nothing is left out of it while there is room.
LEMMA AddedIsGood ==
    ASSUME NEW index, GoodIndex(index), NEW entry, NEW written \in Added(index, entry)
    PROVE  /\ GoodIndex(written)
           /\ Cardinality(index) < IndexLimit => QuestionsIn(index) \subseteq QuestionsIn(written)
<1> DEFINE same == {e \in index : SameQuestion(e, entry)}
           rest == index \ same
<1>1. /\ IsFiniteSet(index) /\ Cardinality(index) \in Nat /\ Cardinality(index) <= IndexLimit
      /\ \A e, f \in index : SameQuestion(e, f) => e = f
  BY FS_CardinalityType DEF GoodIndex
<1>2. IsFiniteSet(rest) /\ Cardinality(rest) <= Cardinality(index) /\ Cardinality(rest) \in Nat
  BY <1>1, FS_Subset, FS_CardinalityType
<1>3. ASSUME NEW kept \in SUBSET index, IsFiniteSet(kept), Cardinality(kept) < IndexLimit,
             \A e \in kept : ~SameQuestion(e, entry)
      PROVE  GoodIndex(kept \cup {entry})
  <2>1. /\ IsFiniteSet(kept \cup {entry})
        /\ Cardinality(kept \cup {entry}) <= Cardinality(kept) + 1
    BY <1>3, FS_AddElement, FS_CardinalityType
  <2>2. Cardinality(kept) \in Nat /\ Cardinality(kept \cup {entry}) \in Nat
    BY <1>3, <2>1, FS_CardinalityType
  <2>3. Cardinality(kept \cup {entry}) <= IndexLimit
    BY <1>3, <2>1, <2>2, SemanticAssumption
  <2>4. ASSUME NEW e \in kept \cup {entry}, NEW f \in kept \cup {entry}, SameQuestion(e, f)
        PROVE  e = f
    <3>1. SameQuestion(f, e)
      BY <2>4 DEF SameQuestion
    <3> QED  BY <1>1, <1>3, <2>4, <3>1
  <2> QED  BY <2>1, <2>3, <2>4 DEF GoodIndex
<1>4. CASE same # {} \/ Cardinality(index) < IndexLimit
  <2>1. written = rest \cup {entry}
    BY <1>4 DEF Added
  <2>2. Cardinality(rest) < IndexLimit
    <3>1. CASE same # {}
      <4>1. PICK e \in index : e \in same
        BY <3>1
      <4>2. rest \subseteq index \ {e}
        BY <4>1
      <4>3. /\ IsFiniteSet(index \ {e})
            /\ Cardinality(index \ {e}) = Cardinality(index) - 1
        BY <1>1, <4>1, FS_RemoveElement
      <4>4. Cardinality(rest) <= Cardinality(index) - 1
        BY <4>2, <4>3, FS_Subset
      <4> HIDE DEF rest
      <4> QED  BY <1>1, <1>2, <4>4, SemanticAssumption
    <3>2. CASE Cardinality(index) < IndexLimit
      <4> HIDE DEF rest
      <4> QED  BY <1>1, <1>2, <3>2, SemanticAssumption
    <3> QED  BY <1>4, <3>1, <3>2
  <2>3. GoodIndex(written)
    <3>1. rest \in SUBSET index /\ \A e \in rest : ~SameQuestion(e, entry)
      OBVIOUS
    <3> HIDE DEF rest
    <3> QED  BY <1>2, <1>3, <2>1, <2>2, <3>1
  <2>4. QuestionsIn(index) \subseteq QuestionsIn(written)
    BY <2>1 DEF QuestionsIn, SameQuestion
  <2> QED  BY <2>3, <2>4
<1>5. CASE ~(same # {} \/ Cardinality(index) < IndexLimit)
  <2>1. PICK kept \in SUBSET index :
          Cardinality(kept) = KeptOnFull /\ written = kept \cup {entry}
    BY <1>5 DEF Added
  <2>2. IsFiniteSet(kept) /\ Cardinality(kept) < IndexLimit
    BY <1>1, <2>1, FS_Subset, SemanticAssumption
  <2> QED  BY <1>3, <1>5, <2>1, <2>2
<1> QED  BY <1>4, <1>5

LEMMA InitSem == SemanticInit => SemInv
<1> SUFFICES ASSUME SemanticInit PROVE SemInv
  OBVIOUS
<1> USE DEF SemanticInit
<1>1. \A r \in Seekers : seeker[r].at = "rest"
  BY DEF NotSeeking
<1>2. SeekInv
  BY <1>1, EmptyIsGood DEF SeekInv
<1>3. SemLockInv
  BY <1>1 DEF SemLockInv
<1>4. KnownInv /\ ServedIsNear
  BY <1>1 DEF KnownInv, ServedIsNear
<1> QED  BY <1>2, <1>3, <1>4 DEF SemInv

\* A step that leaves the index and the locks alone: who writes goes on as he was.
LEMMA SeekerMoves ==
    ASSUME SemInv, NEW r \in Seekers, NEW s, seeker' = [seeker EXCEPT ![r] = s],
           seeker[r].at # "write", s.at # "write",
           s.at = "fetch" => Near(s.words, s.entry) >= Medium /\ s.entry.key[1] = s.model,
           UNCHANGED <<homeOf, semIndex, semLock, semLost, blind>>, ServedIsNear'
    PROVE  SemInv'
<1> USE DEF SemInv
<1>1. /\ DOMAIN seeker' = Seekers /\ seeker'[r] = s
      /\ \A q \in Seekers : q # r => seeker'[q] = seeker[q]
  BY DEF SeekInv
<1>2. SeekInv'
  BY <1>1 DEF SeekInv, GoodIndex
<1>3. SemLockInv'
  BY <1>1 DEF SemLockInv
<1>4. KnownInv'
  BY <1>1 DEF KnownInv, AtHome
<1> QED  BY <1>2, <1>3, <1>4

LEMMA SeekKeeps ==
    ASSUME SemInv, NEW r \in Seekers, NEW words, NEW model, Seek(r, words, model)
    PROVE  SemInv'
<1> DEFINE answer == [at |-> "answer", words |-> words, model |-> model]
           fetch(e) == [at |-> "fetch", entry |-> e, words |-> words, model |-> model]
<1>1. seeker[r].at # "write" /\ UNCHANGED <<homeOf, semIndex, semLock, semLost, blind>>
  BY DEF Seek, NotSeeking
<1>2. ServedIsNear'
  BY DEF Seek, ServedIsNear
<1>3. CASE seeker' = [seeker EXCEPT ![r] = answer]
  <2>1. answer.at # "write" /\ answer.at # "fetch"
    OBVIOUS
  <2> HIDE DEF answer
  <2> QED  BY <1>1, <1>2, <1>3, <2>1, SeekerMoves
<1>4. ASSUME NEW e \in Nearest(words, model), Near(words, e) >= Medium,
             seeker' = [seeker EXCEPT ![r] = fetch(e)]
      PROVE  SemInv'
  <2> DEFINE f == fetch(e)
  <2>1. e.key[1] = model
    BY DEF Nearest, EntriesFor
  <2>2. f.at = "fetch" /\ f.words = words /\ f.entry = e /\ f.model = model
    OBVIOUS
  <2>3. seeker' = [seeker EXCEPT ![r] = f]
    BY <1>4
  <2> HIDE DEF f
  <2>4. f.at # "write" /\ Near(f.words, f.entry) >= Medium /\ f.entry.key[1] = f.model
    BY <1>4, <2>1, <2>2
  <2> QED  BY <1>1, <1>2, <2>3, <2>4, SeekerMoves
<1> HIDE DEF answer
<1>5. \/ seeker' = [seeker EXCEPT ![r] = answer]
      \/ \E e \in Nearest(words, model) :
            Near(words, e) >= Medium /\ seeker' = [seeker EXCEPT ![r] = fetch(e)]
  BY DEF Seek, answer
<1> QED  BY <1>3, <1>4, <1>5

LEMMA FetchKeeps == ASSUME SemInv, NEW r \in Seekers, Fetch(r) PROVE SemInv'
<1> DEFINE s == seeker[r]
           answer == [at |-> "answer", words |-> s.words, model |-> s.model]
<1>1. s.at = "fetch" /\ UNCHANGED <<homeOf, semIndex, semLock, semLost, blind>>
  BY DEF Fetch
<1>2. ServedIsNear'
  <2>1. Near(s.words, s.entry) >= Medium /\ s.entry.key[1] = s.model
    BY <1>1 DEF SemInv, SeekInv
  <2> DEFINE served == [want |-> s.words, entry |-> s.entry, model |-> s.model,
                        withdrawn |-> semRedis[s.entry.key] = "cites d" /\ semBlocked,
                        version |-> semVersion]
  <2>2. CASE semServed' = Unserved
    BY <2>2 DEF ServedIsNear
  <2>3. CASE InForceNow(semRedis[s.entry.key]) /\ semServed' = served
    <3>1. /\ semServed'.want = s.words /\ semServed'.entry = s.entry
          /\ semServed'.model = s.model
      BY <2>3
    <3>2. ~semServed'.withdrawn
      BY <2>3 DEF InForceNow
    <3> QED  BY <2>1, <3>1, <3>2 DEF ServedIsNear, Near
  <2> QED  BY <2>2, <2>3 DEF Fetch
<1>3. NotSeeking.at = "rest" /\ answer.at = "answer"
  BY DEF NotSeeking
<1>4. seeker' = [seeker EXCEPT ![r] = NotSeeking] \/ seeker' = [seeker EXCEPT ![r] = answer]
  BY DEF Fetch
<1> HIDE DEF answer
<1> QED  BY <1>1, <1>2, <1>3, <1>4, SeekerMoves

LEMMA AnsweredKeeps == ASSUME SemInv, NEW r \in Seekers, Answered(r) PROVE SemInv'
<1> DEFINE s == seeker[r]
           embed == [at |-> "embed", words |-> s.words, model |-> s.model,
                     key |-> <<s.model, s.words, semVersion>>]
<1>1. s.at = "answer" /\ UNCHANGED <<homeOf, semIndex, semLock, semLost, blind>>
  BY DEF Answered
<1>2. ServedIsNear'
  BY DEF Answered, ServedIsNear
<1>3. NotSeeking.at = "rest" /\ embed.at = "embed"
  BY DEF NotSeeking
<1>4. seeker' = [seeker EXCEPT ![r] = NotSeeking] \/ seeker' = [seeker EXCEPT ![r] = embed]
  BY DEF Answered
<1> HIDE DEF embed
<1> QED  BY <1>1, <1>2, <1>3, <1>4, SeekerMoves

LEMMA ReadKeeps == ASSUME SemInv, NEW r \in Seekers, ReadForAdd(r) PROVE SemInv'
<1> DEFINE old == seeker[r]
           ToWrite(index, unread) == [at |-> "write", words |-> old.words, model |-> old.model,
                                      key |-> old.key, read |-> index, blind |-> unread]
<1> USE DEF SemInv
<1>1. /\ old.at = "embed" /\ UNCHANGED <<homeOf, semIndex, semLost, blind>>
      /\ ServedIsNear'
  BY DEF ReadForAdd, ServedIsNear
<1>2. CASE seeker' = [seeker EXCEPT ![r] = NotSeeking] /\ semLock' = semLock
  <2>1. NotSeeking.at = "rest"
    BY DEF NotSeeking
  <2> QED  BY <1>1, <1>2, <2>1, SeekerMoves
<1>3. ASSUME NEW index, NEW unread \in BOOLEAN, GoodIndex(index),
             ~unread => index = semIndex,
             seeker' = [seeker EXCEPT ![r] = ToWrite(index, unread)],
             semLock[homeOf[r]] = NobodyInside, semLock' = [semLock EXCEPT ![homeOf[r]] = r]
      PROVE  SemInv'
  <2> DEFINE s == ToWrite(index, unread)
  <2>1. s.at = "write" /\ s.read = index /\ s.blind = unread
    OBVIOUS
  <2>2. seeker' = [seeker EXCEPT ![r] = s]
    BY <1>3
  <2> HIDE DEF s, ToWrite
  <2>3. /\ DOMAIN seeker' = Seekers /\ seeker'[r] = s
        /\ \A q \in Seekers : q # r => seeker'[q] = seeker[q]
    BY <2>2 DEF SeekInv
  <2>4. /\ homeOf[r] \in Homes /\ DOMAIN semLock' = Homes /\ semLock'[homeOf[r]] = r
        /\ \A h \in Homes : h # homeOf[r] => semLock'[h] = semLock[h]
    BY <1>3 DEF SemLockInv
  <2>5. SeekInv'
    BY <1>1, <1>3, <2>1, <2>3 DEF SeekInv, GoodIndex
  <2>6. SemLockInv'
    <3>1. \A q \in Seekers : seeker'[q].at = "write" => semLock'[homeOf[q]] = q
      <4> SUFFICES ASSUME NEW q \in Seekers, seeker'[q].at = "write"
                   PROVE  semLock'[homeOf[q]] = q
        OBVIOUS
      <4>1. CASE q = r
        BY <2>4, <4>1
      <4>2. CASE q # r
        <5>1. semLock[homeOf[q]] = q /\ homeOf[q] \in Homes /\ q # NobodyInside
          BY <2>3, <4>2, SemanticAssumption DEF SemLockInv
        <5> QED  BY <1>3, <2>4, <5>1
      <4> QED  BY <4>1, <4>2
    <3>2. \A h \in Homes : semLock'[h] # NobodyInside =>
            /\ semLock'[h] \in Seekers /\ homeOf[semLock'[h]] = h
            /\ seeker'[semLock'[h]].at = "write"
      <4> SUFFICES ASSUME NEW h \in Homes, semLock'[h] # NobodyInside
                   PROVE  /\ semLock'[h] \in Seekers /\ homeOf[semLock'[h]] = h
                          /\ seeker'[semLock'[h]].at = "write"
        OBVIOUS
      <4>1. CASE h = homeOf[r]
        BY <2>1, <2>3, <2>4, <4>1
      <4>2. CASE h # homeOf[r]
        <5>1. /\ semLock'[h] \in Seekers /\ homeOf[semLock'[h]] = h
              /\ seeker[semLock'[h]].at = "write"
          BY <2>4, <4>2 DEF SemLockInv
        <5> QED  BY <2>3, <4>2, <5>1
      <4> QED  BY <4>1, <4>2
    <3> QED  BY <1>1, <2>4, <3>1, <3>2 DEF SemLockInv
  <2>7. KnownInv'
    <3> SUFFICES ASSUME AtHome, ~blind
                 PROVE  /\ semLost = {}
                        /\ \A q \in Seekers : seeker'[q].at = "write" /\ ~seeker'[q].blind =>
                              semIndex \subseteq seeker'[q].read
      BY <1>1 DEF KnownInv, AtHome
    <3> QED  BY <1>3, <2>1, <2>3 DEF KnownInv
  <2> QED  BY <1>1, <2>5, <2>6, <2>7
<1>4. \/ seeker' = [seeker EXCEPT ![r] = NotSeeking] /\ semLock' = semLock
      \/ /\ semLock[homeOf[r]] = NobodyInside /\ semLock' = [semLock EXCEPT ![homeOf[r]] = r]
         /\ \/ seeker' = [seeker EXCEPT ![r] = ToWrite(semIndex, FALSE)]
            \/ seeker' = [seeker EXCEPT ![r] = ToWrite({}, TRUE)]
  BY DEF ReadForAdd
<1>5. GoodIndex(semIndex) /\ GoodIndex({}) /\ TRUE \in BOOLEAN /\ FALSE \in BOOLEAN
  BY EmptyIsGood DEF SeekInv
<1>6. CASE /\ semLock[homeOf[r]] = NobodyInside /\ semLock' = [semLock EXCEPT ![homeOf[r]] = r]
           /\ seeker' = [seeker EXCEPT ![r] = ToWrite(semIndex, FALSE)]
  <2> HIDE DEF ToWrite
  <2> QED  BY <1>3, <1>5, <1>6
<1>7. CASE /\ semLock[homeOf[r]] = NobodyInside /\ semLock' = [semLock EXCEPT ![homeOf[r]] = r]
           /\ seeker' = [seeker EXCEPT ![r] = ToWrite({}, TRUE)]
  <2> HIDE DEF ToWrite
  <2> QED  BY <1>3, <1>5, <1>7
<1> QED  BY <1>2, <1>4, <1>6, <1>7

LEMMA WriteKeeps == ASSUME SemInv, NEW r \in Seekers, WriteAdded(r) PROVE SemInv'
<1> USE DEF SemInv
<1> DEFINE s == seeker[r]
<1>1. /\ s.at = "write" /\ homeOf' = homeOf /\ ServedIsNear'
      /\ seeker' = [seeker EXCEPT ![r] = NotSeeking]
      /\ semLock' = [semLock EXCEPT ![homeOf[r]] = NobodyInside]
  BY DEF WriteAdded, ServedIsNear
<1>2. /\ GoodIndex(s.read) /\ s.blind \in BOOLEAN /\ semLock[homeOf[r]] = r
      /\ homeOf[r] \in Homes
  BY <1>1 DEF SeekInv, SemLockInv
<1>3. /\ DOMAIN seeker' = Seekers /\ seeker'[r].at = "rest"
      /\ \A q \in Seekers : q # r => seeker'[q] = seeker[q]
  BY <1>1 DEF SeekInv, NotSeeking
<1>4. /\ DOMAIN semLock' = Homes /\ semLock'[homeOf[r]] = NobodyInside
      /\ \A h \in Homes : h # homeOf[r] => semLock'[h] = semLock[h]
  BY <1>1, <1>2 DEF SemLockInv
<1>5. \/ UNCHANGED <<semIndex, semLost, blind>>
      \/ /\ GoodIndex(semIndex') /\ blind' = (blind \/ s.blind)
         /\ \/ semLost' = semLost
            \/ /\ semLost' = semLost \cup (QuestionsIn(semIndex) \ QuestionsIn(semIndex'))
               /\ QuestionsIn(s.read) \subseteq QuestionsIn(semIndex')
  BY <1>2, AddedIsGood DEF WriteAdded
<1>6. SeekInv'
  <2>1. blind' \in BOOLEAN /\ GoodIndex(semIndex')
    BY <1>2, <1>5 DEF SeekInv, GoodIndex
  <2>2. GoodIndex(semIndex)'
    BY <2>1 DEF GoodIndex
  <2> QED  BY <1>3, <2>1, <2>2 DEF SeekInv, GoodIndex
<1>7. SemLockInv'
  <2>1. \A q \in Seekers : seeker'[q].at = "write" => semLock'[homeOf[q]] = q
    <3> SUFFICES ASSUME NEW q \in Seekers, seeker'[q].at = "write"
                 PROVE  semLock'[homeOf[q]] = q
      OBVIOUS
    <3>1. q # r /\ semLock[homeOf[q]] = q /\ homeOf[q] \in Homes
      BY <1>3 DEF SemLockInv
    <3> QED  BY <1>2, <1>4, <3>1
  <2>2. \A h \in Homes : semLock'[h] # NobodyInside =>
          /\ semLock'[h] \in Seekers /\ homeOf[semLock'[h]] = h
          /\ seeker'[semLock'[h]].at = "write"
    <3> SUFFICES ASSUME NEW h \in Homes, semLock'[h] # NobodyInside
                 PROVE  /\ semLock'[h] \in Seekers /\ homeOf[semLock'[h]] = h
                        /\ seeker'[semLock'[h]].at = "write"
      OBVIOUS
    <3>1. h # homeOf[r] /\ semLock'[h] = semLock[h]
      BY <1>4
    <3>2. /\ semLock[h] \in Seekers /\ homeOf[semLock[h]] = h
          /\ seeker[semLock[h]].at = "write"
      BY <3>1 DEF SemLockInv
    <3> QED  BY <1>3, <3>1, <3>2
  <2> QED  BY <1>1, <1>4, <2>1, <2>2 DEF SemLockInv
<1>8. KnownInv'
  <2> SUFFICES ASSUME AtHome, ~blind'
               PROVE  /\ semLost' = {}
                      /\ \A q \in Seekers : seeker'[q].at = "write" /\ ~seeker'[q].blind =>
                            semIndex' \subseteq seeker'[q].read
    BY <1>1 DEF KnownInv, AtHome
  <2>1. ASSUME NEW q \in Seekers PROVE seeker'[q].at # "write"
    <3>1. CASE q = r
      BY <1>3, <3>1
    <3>2. CASE q # r /\ seeker[q].at = "write"
      BY <1>2, <3>2 DEF AtHome, SemLockInv
    <3> QED  BY <1>3, <3>1, <3>2
  <2>2. CASE UNCHANGED <<semIndex, semLost, blind>>
    BY <2>1, <2>2 DEF KnownInv
  <2>3. CASE /\ blind' = (blind \/ s.blind)
             /\ \/ semLost' = semLost
                \/ /\ semLost' = semLost \cup (QuestionsIn(semIndex) \ QuestionsIn(semIndex'))
                   /\ QuestionsIn(s.read) \subseteq QuestionsIn(semIndex')
    <3>1. ~blind /\ ~s.blind
      BY <1>2, <2>3 DEF SeekInv
    <3>2. semLost = {} /\ semIndex \subseteq s.read
      BY <1>1, <3>1 DEF KnownInv
    <3>3. QuestionsIn(semIndex) \subseteq QuestionsIn(s.read)
      BY <3>2 DEF QuestionsIn
    <3> QED  BY <2>1, <2>3, <3>2, <3>3
  <2> QED  BY <1>5, <2>2, <2>3
<1> QED  BY <1>1, <1>6, <1>7, <1>8

LEMMA MeanwhileKeeps == ASSUME SemInv, Meanwhile PROVE SemInv'
<1> USE DEF SemInv
<1>1. /\ UNCHANGED <<homeOf, semLock, seeker, semLost, blind>> /\ ServedIsNear'
      /\ semIndex' = {} \/ semIndex' = semIndex
  BY DEF Meanwhile, ServedIsNear
<1>2. SeekInv'
  <2>1. GoodIndex(semIndex)'
    BY <1>1, EmptyIsGood DEF SeekInv, GoodIndex
  <2> QED  BY <1>1, <2>1 DEF SeekInv, GoodIndex
<1>3. SemLockInv'
  BY <1>1 DEF SemLockInv
<1>4. KnownInv'
  BY <1>1 DEF KnownInv, AtHome
<1> QED  BY <1>1, <1>2, <1>3, <1>4

\* What is served for a question that is nearly the same was made for one as near as it must be,
\* and of a document in force; the index has every question once and keeps its size; and an entry
\* is lost only between processes or to one who could not read the index.
THEOREM SemanticStaysKept == SemanticSpec => []SemanticKept
<1>1. SemInv => SemanticKept
  <2> SUFFICES ASSUME SemInv PROVE SemanticKept
    OBVIOUS
  <2>1. OncePerQuestion
    BY DEF SemInv, SeekInv, GoodIndex, OncePerQuestion
  <2>2. NoneLostAtHome
    BY DEF SemInv, KnownInv, AtHome, NoneLostAtHome
  <2>3. LockedToWrite
    BY SemanticAssumption DEF SemInv, SemLockInv, LockedToWrite
  <2> QED  BY <2>1, <2>2, <2>3 DEF SemInv, SemanticKept
<1>2. SemInv /\ [SemanticNext]_semVars => SemInv'
  <2> SUFFICES ASSUME SemInv, [SemanticNext]_semVars PROVE SemInv'
    OBVIOUS
  <2>1. CASE SemanticNext
    BY <2>1, SeekKeeps, FetchKeeps, AnsweredKeeps, ReadKeeps, WriteKeeps, MeanwhileKeeps
       DEF SemanticNext
  <2>2. CASE UNCHANGED semVars
    BY <2>2 DEF semVars, SemInv, SeekInv, SemLockInv, KnownInv, ServedIsNear, GoodIndex, AtHome
  <2> QED  BY <2>1, <2>2
<1> QED  BY <1>1, <1>2, InitSem, PTL DEF SemanticSpec
=============================================================================
