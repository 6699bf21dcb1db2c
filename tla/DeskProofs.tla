----------------------------- MODULE DeskProofs -----------------------------
(***************************************************************************)
(* What people decide, for any number of them: the row lock keeps a ticket *)
(* on its way; the decision about the plan for an alert stands, with one   *)
(* ticket for the alert, however often its task is run; a drill is scored  *)
(* fairly, whatever overlaps its end; a signed document has every          *)
(* signature, and its chain tells when somebody was at it; an annotation   *)
(* loses no reply and becomes one issue a version; and an evidence gap     *)
(* marked "synced" is served, and while operations do not overlap it shows *)
(* what is served and is asked for once.                                   *)
(***************************************************************************)
EXTENDS TicketFlow, AlertDisposal, DrillSession, DocSignoff, DocAnnotation, EvidenceGap,
        FiniteSetTheorems, SequenceTheorems, WellFoundedInduction, TLAPS

-----------------------------------------------------------------------------
(* Tickets.                                                                *)


\* What the proof needs to know of the types.
FlowTypes ==
    /\ ticketPc \in [Clerks -> {"idle", "locked", "syncing", "writing"}]
    /\ ticketOp \in [Clerks -> Operations]
    /\ ticketState \in TicketStatus

\* A request that holds the row still sees the status it checked.
HeldRow ==
    \A c \in Clerks : ticketPc[c] = "locked" =>
        ticketLock = c /\ ~ticketDeleted /\ ticketState \in From(ticketOp[c])

FlowInv == FlowTypes /\ HeldRow

\* What an operation leads to is a successor of what it starts from, or the same.
LEMMA OperationsAreLegal ==
  ASSUME NEW o \in Operations \ {"delete"}, NEW s \in From(o), NEW t \in To(o)
  PROVE  t \in TicketStatus /\ (t = s \/ t \in Successors(s))
  BY DEF From, To, Operations, Successors, TicketStatus

\* Every step of a request keeps the invariant.
LEMMA FlowStep == FlowInv /\ [TicketNext]_ticketVars => FlowInv'
<1> SUFFICES ASSUME FlowInv, [TicketNext]_ticketVars PROVE FlowInv'
  OBVIOUS
<1> USE TicketAssumption DEF FlowInv, FlowTypes, HeldRow
<1>1. ASSUME NEW c \in Clerks, NEW o \in Operations, LockRow(c, o) PROVE FlowInv'
  BY <1>1 DEF LockRow, MayLock, ClerkGoes
<1>2. ASSUME NEW c \in Clerks, Commit(c) PROVE FlowInv'
  <2>1. ticketLock = c /\ \A d \in Clerks \ {c} : ticketPc[d] # "locked"
    BY <1>2 DEF Commit
  <2>2. \A d \in Clerks : ticketPc'[d] # "locked"
    BY <1>2, <2>1 DEF Commit, ClerkGoes
  <2>3. ticketState' \in TicketStatus
    BY <1>2, OperationsAreLegal DEF Commit
  <2>4. QED
    BY <1>2, <2>2, <2>3 DEF Commit, ClerkGoes
<1>3. ASSUME NEW c \in Clerks, DeleteTicket(c) PROVE FlowInv'
  <2>1. \A d \in Clerks : ticketPc'[d] # "locked"
    BY <1>3 DEF DeleteTicket, ClerkGoes
  <2>2. QED
    BY <1>3, <2>1 DEF DeleteTicket, ClerkGoes
<1>4. ASSUME NEW c \in Clerks, ReadRun(c) \/ NothingNew(c) \/ WriteRun(c) PROVE FlowInv'
  BY <1>4 DEF ReadRun, NothingNew, WriteRun, ClerkGoes, ticketRow
<1>5. ASSUME NEW c \in Clerks, Stops(c) PROVE FlowInv'
  BY <1>5 DEF Stops, ClerkGoes
<1>6. CASE UNCHANGED ticketVars
  BY <1>6 DEF ticketVars, ticketRow, ticketRequests
<1>7. QED
  BY <1>1, <1>2, <1>3, <1>4, <1>5, <1>6 DEF TicketNext

\* However many requests handle a ticket at once, it moves along its life cycle
\* only, and not at all once it is deleted: LegalMove.
THEOREM TicketMovesLegally == TicketSpec => LegalMove
<1> DEFINE Move == /\ ticketState' # ticketState =>
                         ~ticketDeleted /\ ticketState' \in Successors(ticketState)
                   /\ ticketDeleted => ticketDeleted'
<1>1. TicketInit => FlowInv
  BY DEF TicketInit, FlowInv, FlowTypes, HeldRow, TicketStatus, Operations
<1>2. FlowInv /\ [TicketNext]_ticketVars => [Move]_ticketVars
  <2> SUFFICES ASSUME FlowInv, [TicketNext]_ticketVars PROVE Move
    OBVIOUS
  <2>1. CASE UNCHANGED <<ticketState, ticketDeleted>>
    BY <2>1
  <2>2. ASSUME NEW c \in Clerks, Commit(c) PROVE Move
    <3>1. /\ ~ticketDeleted /\ ticketState \in From(ticketOp[c])
          /\ ticketOp[c] \in Operations \ {"delete"}
      BY <2>2 DEF Commit, FlowInv, FlowTypes, HeldRow
    <3>2. ticketState' \in To(ticketOp[c]) /\ ticketDeleted' = ticketDeleted
      BY <2>2 DEF Commit
    <3>3. QED
      BY <3>1, <3>2, OperationsAreLegal
  <2>3. ASSUME NEW c \in Clerks, DeleteTicket(c) PROVE Move
    BY <2>3 DEF DeleteTicket
  <2>4. QED
    BY <2>1, <2>2, <2>3
    DEF TicketNext, LockRow, ReadRun, NothingNew, WriteRun, Stops, ticketRow, ticketVars
<1>3. QED
  BY <1>1, <1>2, FlowStep, PTL DEF TicketSpec, LegalMove

-----------------------------------------------------------------------------
(* The disposal of an alert.                                               *)

\* A row of the table, and the places of a worker.
AlertRow == [status : DisposalStatus, plan : {"none", "plan", "failed"}, ticketed : BOOLEAN]
HandlerPlaces == {"idle", "agent", "answered", "failed", "writePlan", "writeFailure",
                  "succeeded", "raised"}

RowTypes ==
    /\ disposal \in AlertRow
    /\ handlerPc \in [Handlers -> HandlerPlaces] /\ handlerView \in [Handlers -> AlertRow]
    /\ task \in {"none", "queued", "running", "done", "dead"} /\ taken \in 0..TaskAttempts
    /\ holder \in Handlers \cup {NoHandler} /\ tickets \in Nat
    /\ decisions \in 0..DisposalDecisions /\ disposalFaults \in 0..DisposalMaxFaults

\* Until a lease is lost or a worker dies, the one worker at the task holds its lease ...
HolderInv ==
    disposalFaults = 0 =>
        \A w \in Handlers : handlerPc[w] # "idle" => holder = w /\ task = "running"

\* ... and once the plan is written the task has succeeded: nobody writes to the row again.
PlanInv ==
    disposalFaults = 0 /\ disposal.plan = "plan" =>
        /\ \A w \in Handlers : handlerPc[w] \in {"idle", "succeeded"}
        /\ \/ task = "done"
           \/ task = "running" /\ \E w \in Handlers : handlerPc[w] = "succeeded"

\* Before the alert is handed over there is no task, and without a task nobody works.
TriggerInv ==
    /\ disposal.status = "none" => task = "none"
    /\ task = "none" => \A w \in Handlers : handlerPc[w] = "idle"

DisposalInv == RowTypes /\ TriggerInv /\ OneTicket /\ HolderInv /\ PlanInv

\* What a worker flushes is a row: its status and plan are the worker's where they differ from
\* what it had loaded, its ticket is the table's.
LEMMA FlushedDisposal ==
  ASSUME RowTypes, NEW w \in Handlers, NEW plan \in {"plan", "failed"}
  PROVE  LET row == Flushed(disposal, handlerView[w],
                            [handlerView[w] EXCEPT !.status = "proposed", !.plan = plan]) IN
         /\ row \in AlertRow /\ row.ticketed = disposal.ticketed
         /\ row.plan = "plan" => plan = "plan" \/ disposal.plan = "plan"
         /\ row.status \in {"proposed", disposal.status}
<1>1. disposal \in AlertRow /\ handlerView[w] \in AlertRow
  BY DEF RowTypes
<1> QED
  BY ONLY <1>1, plan \in {"plan", "failed"} DEF Flushed, AlertRow, DisposalStatus

\* At the start the invariant holds ...
LEMMA DisposalStart == DisposalInit => DisposalInv
BY DisposalAssumption
   DEF DisposalInit, DisposalInv, RowTypes, TriggerInv, OneTicket, HolderInv, PlanInv, NoDisposal,
       AlertRow, DisposalStatus, HandlerPlaces

\* ... a worker's write keeps it ...
LEMMA WriteKeeps ==
  ASSUME DisposalInv, NEW w \in Handlers, WritePlan(w) \/ WriteFailure(w)
  PROVE  DisposalInv'
<1> USE DEF AtHandler
<1>1. PICK plan \in {"plan", "failed"} :
         /\ disposal' = Flushed(disposal, handlerView[w],
                               [handlerView[w] EXCEPT !.status = "proposed", !.plan = plan])
         /\ handlerPc' = [handlerPc EXCEPT ![w] = IF plan = "plan" THEN "succeeded" ELSE "raised"]
         /\ handlerPc[w] \in {"writePlan", "writeFailure"}
  BY DEF WritePlan, WriteFailure
<1>2. /\ disposal' \in AlertRow /\ disposal'.ticketed = disposal.ticketed
      /\ disposal'.plan = "plan" => plan = "plan" \/ disposal.plan = "plan"
      /\ disposal'.status \in {"proposed", disposal.status}
  BY <1>1, FlushedDisposal DEF DisposalInv
<1>3. /\ UNCHANGED <<task, taken, holder, tickets, decisions, disposalFaults>>
      /\ handlerView' = [handlerView EXCEPT ![w] = NoDisposal] /\ NoDisposal \in AlertRow
  BY DEF WritePlan, WriteFailure, NoDisposal, AlertRow, DisposalStatus
<1>4. RowTypes'
  BY <1>1, <1>2, <1>3 DEF DisposalInv, RowTypes, HandlerPlaces
<1>5. OneTicket'
  BY <1>2, <1>3 DEF DisposalInv, OneTicket
<1>6. HolderInv'
  BY <1>1, <1>3 DEF DisposalInv, HolderInv, RowTypes
<1>7. PlanInv'
  <2>1. ASSUME disposalFaults = 0 PROVE \A v \in Handlers : handlerPc[v] # "idle" => v = w
    BY <1>1, <2>1 DEF DisposalInv, HolderInv
  <2>2. disposalFaults = 0 => disposal.plan # "plan" /\ task = "running"
    BY <1>1 DEF DisposalInv, PlanInv, HolderInv
  <2> QED
    BY <1>1, <1>2, <1>3, <2>1, <2>2 DEF DisposalInv, PlanInv, RowTypes
<1>8. TriggerInv'
  BY <1>1, <1>2, <1>3 DEF DisposalInv, TriggerInv
<1> QED
  BY <1>4, <1>5, <1>6, <1>7, <1>8 DEF DisposalInv

\* ... and so does every other step.
LEMMA DisposalStep ==
  ASSUME DisposalInv, [DisposalNext]_disposalVars
  PROVE  DisposalInv'
<1> USE DisposalAssumption DEF AtHandler, Fault, HandlerPlaces
<1>0. CASE UNCHANGED disposalVars
  BY <1>0 DEF disposalVars, DisposalInv, RowTypes, TriggerInv, OneTicket, HolderInv, PlanInv
<1>1. CASE Trigger
  <2>1. /\ disposal' \in AlertRow /\ disposal'.plan = "none" /\ disposal'.status = "pending"
        /\ disposal'.ticketed = disposal.ticketed
    BY <1>1 DEF Trigger, NoDisposal, AlertRow, DisposalStatus
  <2>2. \A w \in Handlers : handlerPc[w] = "idle"
    BY <1>1 DEF Trigger, NoDisposal, DisposalInv, TriggerInv
  <2> QED
    BY <1>1, <2>1, <2>2
       DEF Trigger, DisposalInv, RowTypes, TriggerInv, OneTicket, HolderInv, PlanInv
<1>2. ASSUME NEW w \in Handlers, TakeTask(w) PROVE DisposalInv'
  <2>1. RowTypes'
    BY <1>2 DEF TakeTask, DisposalInv, RowTypes
  <2>2. HolderInv' /\ PlanInv'
    BY <1>2 DEF TakeTask, DisposalInv, RowTypes, HolderInv, PlanInv
  <2> QED
    BY <1>2, <2>1, <2>2 DEF TakeTask, DisposalInv, RowTypes, TriggerInv, OneTicket
<1>3. ASSUME NEW w \in Handlers, AgentEnds(w) \/ LoadDisposal(w) \/ WriteFails(w)
      PROVE  DisposalInv'
  <2>1. NoDisposal \in AlertRow
    BY DEF NoDisposal, AlertRow, DisposalStatus
  <2>2. RowTypes'
    BY <1>3, <2>1 DEF AgentEnds, LoadDisposal, WriteFails, DisposalInv, RowTypes
  <2>3. HolderInv' /\ PlanInv'
    BY <1>3 DEF AgentEnds, LoadDisposal, WriteFails, DisposalInv, RowTypes, HolderInv, PlanInv
  <2> QED
    BY <1>3, <2>2, <2>3
       DEF AgentEnds, LoadDisposal, WriteFails, DisposalInv, TriggerInv, OneTicket
<1>4. ASSUME NEW w \in Handlers, EndTask(w) PROVE DisposalInv'
  <2>1. RowTypes'
    BY <1>4 DEF EndTask, Outcome, DisposalInv, RowTypes
  <2>2. HolderInv'
    BY <1>4 DEF EndTask, DisposalInv, RowTypes, HolderInv
  <2>3. PlanInv'
    <3>1. SUFFICES ASSUME disposalFaults = 0, disposal.plan = "plan" PROVE PlanInv'
      BY <1>4 DEF EndTask, PlanInv
    <3>2. /\ \A v \in Handlers : handlerPc[v] \in {"idle", "succeeded"}
          /\ holder = w /\ handlerPc[w] = "succeeded"
      BY <1>4, <3>1 DEF EndTask, DisposalInv, HolderInv, PlanInv
    <3>3. task' = "done"
      BY <1>4, <3>2 DEF EndTask, Outcome
    <3> QED
      BY <1>4, <3>2, <3>3 DEF EndTask, PlanInv, DisposalInv, RowTypes
  <2>4. TriggerInv'
    BY <1>4 DEF EndTask, Outcome, DisposalInv, RowTypes, TriggerInv
  <2> QED
    BY <1>4, <2>1, <2>2, <2>3, <2>4 DEF EndTask, DisposalInv, OneTicket
<1>5. ASSUME NEW w \in Handlers, HandlerDies(w) PROVE DisposalInv'
  <2>1. NoDisposal \in AlertRow
    BY DEF NoDisposal, AlertRow, DisposalStatus
  <2>2. RowTypes' /\ disposalFaults' # 0
    BY <1>5, <2>1 DEF HandlerDies, DisposalInv, RowTypes
  <2> QED
    BY <1>5, <2>2 DEF HandlerDies, DisposalInv, RowTypes, TriggerInv, OneTicket, HolderInv, PlanInv
<1>6. ASSUME NEW status \in DisposalStatus \ {"none"}, NEW from \in SUBSET DisposalStatus,
             Decide(status, from)
      PROVE  DisposalInv'
  <2>1. /\ disposal' \in AlertRow /\ disposal'.ticketed = disposal.ticketed
        /\ disposal'.plan = disposal.plan /\ disposal'.status # "none"
    BY <1>6 DEF Decide, DisposalInv, RowTypes, AlertRow
  <2>2. RowTypes'
    BY <1>6, <2>1 DEF Decide, DisposalInv, RowTypes
  <2> QED
    BY <1>6, <2>1, <2>2 DEF Decide, DisposalInv, TriggerInv, OneTicket, HolderInv, PlanInv
<1>7. CASE ToTicket
  <2>1. /\ disposal' \in AlertRow /\ disposal'.ticketed /\ disposal'.plan = disposal.plan
        /\ disposal'.status = "ticketed"
    BY <1>7 DEF ToTicket, DisposalInv, RowTypes, AlertRow, DisposalStatus
  <2>2. tickets' = 1
    BY <1>7 DEF ToTicket, TicketsAfter, DisposalInv, RowTypes, OneTicket
  <2>3. RowTypes'
    BY <1>7, <2>1, <2>2 DEF ToTicket, DisposalInv, RowTypes
  <2> QED
    BY <1>7, <2>1, <2>2, <2>3
       DEF ToTicket, DisposalInv, TriggerInv, OneTicket, HolderInv, PlanInv
<1>8. CASE ConfirmDisposal \/ RejectDisposal \/ CloseDisposal
  BY <1>6, <1>8 DEF ConfirmDisposal, RejectDisposal, CloseDisposal, DisposalStatus
<1> QED
  BY <1>0, <1>1, <1>2, <1>3, <1>4, <1>5, <1>7, <1>8, WriteKeeps DEF DisposalNext, HandlerStep

\* Only a worker with an outcome to write proposes; there is none once a plan is written.
LEMMA DecisionStands ==
  ASSUME DisposalInv, [DisposalNext]_disposalVars
  PROVE  DecisionOnPlanStands
<1> SUFFICES ASSUME disposal.plan = "plan", disposal.status # "proposed", disposalFaults = 0
             PROVE  disposal'.status # "proposed"
  BY DEF DecisionOnPlanStands
<1>1. \A w \in Handlers : ~ (WritePlan(w) \/ WriteFailure(w))
  BY DEF DisposalInv, PlanInv, WritePlan, WriteFailure, AtHandler
<1>2. ASSUME NEW status \in DisposalStatus \ {"proposed"},
             disposal' = [disposal EXCEPT !.status = status]
      PROVE  disposal'.status # "proposed"
  BY <1>2 DEF DisposalInv, RowTypes, AlertRow
<1>3. CASE ConfirmDisposal \/ RejectDisposal \/ CloseDisposal
  BY <1>2, <1>3 DEF ConfirmDisposal, RejectDisposal, CloseDisposal, Decide, DisposalStatus
<1>4. CASE ToTicket \/ Trigger
  BY <1>4 DEF ToTicket, Trigger, NoDisposal, DisposalInv, RowTypes, AlertRow
<1>5. CASE UNCHANGED disposal
  BY <1>5
<1> QED
  BY <1>1, <1>3, <1>4, <1>5
     DEF DisposalNext, HandlerStep, TakeTask, AgentEnds, LoadDisposal, EndTask, WriteFails,
         HandlerDies, disposalVars

\* The row, the task, its workers and the tickets have their types.
THEOREM DisposalTypes == DisposalSpec => []DisposalTypeOK
<1>1. \A row \in AlertRow : DisposalRow(row)
  BY DEF AlertRow, DisposalRow, NoDisposal
<1>2. DisposalInv => DisposalTypeOK
  BY <1>1 DEF DisposalInv, RowTypes, DisposalTypeOK, HandlerPlaces
<1> QED
  BY <1>2, DisposalStart, DisposalStep, PTL DEF DisposalSpec

\* For any number of workers, attempts, decisions and faults: the alert has one ticket at most,
\* and the row knows it; while no lease is lost, no worker dies and no write fails, what was
\* decided about a plan is not overwritten with another proposal.
THEOREM DisposalsKept == DisposalSpec => DisposalKept
<1>1. DisposalInv => OneTicket
  BY DEF DisposalInv
<1>2. DisposalInv /\ [DisposalNext]_disposalVars => OneTicket' /\ DecisionOnPlanStands
  BY <1>1, DisposalStep, DecisionStands DEF DisposalInv
<1> QED
  BY <1>2, DisposalStart, DisposalStep, PTL DEF DisposalSpec, DisposalKept

-----------------------------------------------------------------------------
(* Drills.                                                                 *)

\* Less-than on the naturals is well-founded, as a set of pairs.
LEMMA BelowWellFounded == IsWellFoundedOn({ss \in Nat \X Nat : ss[1] < ss[2]}, Nat)
BY NatLessThanWellFounded DEF OpToRel

\* A set of naturals that has an element has a least one: induction, as the least
\* counterexample.
LEMMA LeastElement ==
  ASSUME NEW T, T \subseteq Nat, T # {}
  PROVE  \E x \in T : \A y \in T : x <= y
<1> DEFINE R == {ss \in Nat \X Nat : ss[1] < ss[2]}
<1>1. \E x \in T : \A y \in T : ~(<<y, x>> \in R)
  <2> HIDE DEF R
  <2>1. IsWellFoundedOn(R, Nat)
    BY BelowWellFounded DEF R
  <2> QED
    BY <2>1, WFMin
<1>2. PICK x \in T : \A y \in T : ~(<<y, x>> \in R)
  BY <1>1
<1>3. ASSUME NEW y \in T PROVE x <= y
  <2>1. x \in Nat /\ y \in Nat
    OBVIOUS
  <2>2. y < x => <<y, x>> \in R
    BY <2>1
  <2> QED
    BY <1>2, <2>1, <2>2
<1> QED
  BY <1>3

\* The actions item k may take, and the hits with its own, as _score_run goes on.
FreeFor(actions, k, hits) ==
    {i \in DOMAIN actions \ {hit[2] : hit \in hits} : k \in actions[i]}

NextHits(actions, k, hits) ==
    hits \cup {<<k, i>> : i \in {j \in FreeFor(actions, k, hits) :
                                    \A l \in FreeFor(actions, k, hits) : j <= l}}

HitsUpTo(actions, n, f) ==
    f = [k \in 0..n |-> IF k = 0 THEN {} ELSE NextHits(actions, k, f[k - 1])]

\* The hits can be computed item by item.
LEMMA HitsExist ==
  ASSUME NEW actions, NEW N \in Nat
  PROVE  \E f : HitsUpTo(actions, N, f)
<1> DEFINE T == {n \in Nat : ~ \E f : HitsUpTo(actions, n, f)}
<1> SUFFICES ASSUME T # {} PROVE FALSE
  OBVIOUS
<1>1. PICK n \in T : \A m \in T : n <= m
  BY LeastElement
<1>2. CASE n = 0
  <2> DEFINE g == [k \in 0..0 |-> {}]
  <2>1. HitsUpTo(actions, 0, g)
    BY DEF HitsUpTo
  <2> QED
    BY <1>1, <1>2, <2>1
<1>3. CASE n # 0
  <2>1. n \in Nat /\ n - 1 \in Nat /\ n - 1 \notin T
    BY <1>1, <1>3
  <2>2. PICK f : HitsUpTo(actions, n - 1, f)
    BY <2>1
  <2> DEFINE g == [k \in 0..n |-> IF k = n THEN NextHits(actions, n, f[n - 1]) ELSE f[k]]
  <2>3. \A k \in 0..(n - 1) : g[k] = f[k]
    BY <2>1
  <2>4. \A k \in 0..n :
            g[k] = IF k = 0 THEN {} ELSE NextHits(actions, k, g[k - 1])
    <3> SUFFICES ASSUME NEW k \in 0..n
                 PROVE  g[k] = IF k = 0 THEN {} ELSE NextHits(actions, k, g[k - 1])
      OBVIOUS
    <3>1. CASE k = n
      BY <1>3, <2>1, <2>3, <3>1
    <3>2. CASE k # n
      <4>1. k \in 0..(n - 1) /\ (k # 0 => k - 1 \in 0..(n - 1))
        BY <2>1, <3>2
      <4>2. f[k] = IF k = 0 THEN {} ELSE NextHits(actions, k, f[k - 1])
        BY <2>2, <4>1 DEF HitsUpTo
      <4> QED
        BY <2>3, <4>1, <4>2
    <3> QED
      BY <3>1, <3>2
  <2>5. HitsUpTo(actions, n, g)
    <3> DEFINE e(k) == IF k = 0 THEN {} ELSE NextHits(actions, k, g[k - 1])
    <3>1. g = [k \in 0..n |-> e(k)]
      <4> HIDE DEF e
      <4>1. \A k \in 0..n : g[k] = e(k)
        BY <2>4 DEF e
      <4>2. g = [k \in 0..n |-> g[k]]
        OBVIOUS
      <4> HIDE DEF g
      <4> QED
        BY <4>1, <4>2
    <3> QED
      BY <3>1 DEF HitsUpTo
  <2> QED
    BY <1>1, <2>1, <2>5
<1> QED
  BY <1>2, <1>3

\* What holds of the hits of the first n items: each is one of them and of an action that
\* mentions it, no two share an item or an action, and an item that has none finds every
\* action that mentions it taken.
FairHits(actions, n, hits) ==
    /\ hits \subseteq (1..n) \X DOMAIN actions
    /\ \A h \in hits : h[1] \in actions[h[2]]
    /\ \A h, g \in hits : h[1] = g[1] <=> h[2] = g[2]
    /\ \A k \in 1..n, i \in DOMAIN actions :
          k \in actions[i] /\ (\A h \in hits : h[1] # k) => \E h \in hits : h[2] = i

ActionList == Seq(SUBSET Checklist)

\* Another item keeps the hits fair.
LEMMA NextFair ==
  ASSUME NEW actions \in ActionList, NEW n \in Nat, n # 0, NEW hits,
         FairHits(actions, n - 1, hits)
  PROVE  FairHits(actions, n, NextHits(actions, n, hits))
<1> DEFINE free == FreeFor(actions, n, hits)
           new == {j \in free : \A l \in free : j <= l}
           next == hits \cup {<<n, i>> : i \in new}
<1>1. NextHits(actions, n, hits) = next
  BY DEF NextHits
<1>2. DOMAIN actions \subseteq Nat
  BY DEF ActionList
<1>3. free \subseteq DOMAIN actions
  BY DEF FreeFor
<1>4. free # {} => new # {}
  BY <1>2, <1>3, LeastElement
<1>5. \A i, j \in new : i = j
  BY <1>2, <1>3
<1>6. \A i \in new : n \in actions[i] /\ \A h \in hits : h[2] # i
  BY DEF FreeFor
<1>7. \A i \in DOMAIN actions : n \in actions[i] => i \in free \/ \E h \in hits : h[2] = i
  BY DEF FreeFor
<1> HIDE DEF free
<1>8. new \subseteq DOMAIN actions
  BY <1>3
<1> HIDE DEF new
<1>9. \A h \in next : h \in hits \/ (h[1] = n /\ h[2] \in new)
  OBVIOUS
<1>10. \A h \in hits : h[1] \in 1..(n - 1) /\ h[1] # n /\ h[2] \in DOMAIN actions
  BY DEF FairHits
<1>11. next \subseteq (1..n) \X DOMAIN actions
  <2>1. (1..(n - 1)) \subseteq 1..n /\ n \in 1..n
    OBVIOUS
  <2> QED
    BY <1>8, <2>1 DEF FairHits
<1>12. \A h \in next : h[1] \in actions[h[2]]
  BY <1>6, <1>9 DEF FairHits
<1>13. \A h, g \in next : h[1] = g[1] <=> h[2] = g[2]
  BY <1>5, <1>6, <1>9, <1>10 DEF FairHits
<1>14. ASSUME NEW k \in 1..n, NEW i \in DOMAIN actions, k \in actions[i],
              \A h \in next : h[1] # k
       PROVE  \E h \in next : h[2] = i
  <2>1. CASE k = n
    <3>1. \A j \in new : <<n, j>> \in next /\ <<n, j>>[1] = k
      BY <2>1
    <3>2. new = {}
      BY <1>14, <3>1
    <3> QED
      BY <1>4, <1>7, <1>14, <2>1, <3>2
  <2>2. CASE k # n
    BY <1>14, <2>2 DEF FairHits
  <2> QED
    BY <2>1, <2>2
<1> HIDE DEF next
<1> QED
  BY <1>1, <1>11, <1>12, <1>13, <1>14 DEF FairHits

\* _score_run is fair, whatever was done.
LEMMA ScoreFair ==
  ASSUME NEW actions \in ActionList, Items \in Nat
  PROVE  FairHits(actions, Items, Score(actions))
<1>1. \E f : HitsUpTo(actions, Items, f) /\ Score(actions) = f[Items]
  <2>1. PICK g : HitsUpTo(actions, Items, g)
    BY HitsExist
  <2>2. Score(actions) = (CHOOSE f : HitsUpTo(actions, Items, f))[Items]
    BY DEF Score, HitsUpTo, NextHits, FreeFor
  <2> QED
    BY <2>1, <2>2
<1>2. PICK f : HitsUpTo(actions, Items, f) /\ Score(actions) = f[Items]
  BY <1>1
<1> DEFINE T == {n \in 0..Items : ~ FairHits(actions, n, f[n])}
<1>3. SUFFICES ASSUME T # {} PROVE FALSE
  BY <1>2
<1>4. PICK n \in T : \A m \in T : n <= m
  <2>1. T \subseteq Nat
    OBVIOUS
  <2> QED
    BY <1>3, <2>1, LeastElement
<1>5. n \in 0..Items /\ ~FairHits(actions, n, f[n])
  OBVIOUS
<1>6. f[n] = IF n = 0 THEN {} ELSE NextHits(actions, n, f[n - 1])
  BY <1>2, <1>5 DEF HitsUpTo
<1>7. CASE n = 0
  BY <1>5, <1>6, <1>7 DEF FairHits
<1>8. CASE n # 0
  <2>1. n - 1 \in 0..Items /\ n \in Nat /\ n - 1 \notin T
    BY <1>4, <1>5, <1>8
  <2>2. FairHits(actions, n - 1, f[n - 1])
    BY <2>1
  <2> QED
    BY <1>5, <1>6, <1>8, <2>1, <2>2, NextFair
<1> QED
  BY <1>7, <1>8

\* A row of the table.
DrillRun == [status : {"none", "running"} \cup Ended, actions : ActionList,
             score : SUBSET (Checklist \X (1..MaxActions)),
             review : {"none", "llm", "template"}]

DrillTypes ==
    /\ scenario \in {"enabled", "disabled", "deleted"}
    /\ drill \in DrillRun
    /\ drillTenant \in {"default", "other"} /\ late \in BOOLEAN
    /\ drillPc \in [Actors -> {"idle", "loaded", "reported"}]
    /\ drillOp \in [Actors -> DrillOps] /\ drillView \in [Actors -> DrillRun]
    /\ acting \in [Actors -> SUBSET Checklist]
    /\ performed \in ActionList
    /\ reported \subseteq Checklist /\ unreported \in BOOLEAN
    /\ drillFaults \in 0..DrillMaxFaults

\* A run that has not started has no actions, one that has not ended no score.
RunOk(row) ==
    /\ row.status = "none" => row.actions = <<>>
    /\ row.status \notin Ended => row.score = {}
    /\ Len(row.actions) <= MaxActions

RunsOk == RunOk(drill) /\ \A r \in Actors : RunOk(drillView[r])

\* What a request is about, and that it found the run under way.
RequestInv ==
    \A r \in Actors : drillPc[r] # "idle" =>
        /\ IF drillOp[r] = "start" THEN drillView[r].status = "none"
           ELSE drillView[r].status = "running" /\ drill.status # "none"
        /\ drillOp[r] = "record" => Len(drillView[r].actions) < MaxActions
        /\ drillPc[r] = "reported" => drillOp[r] \in {"finish", "settle", "abort"}

\* The first actions of the run are those a request has seen.
SeenFirst(seen, actions) ==
    Len(seen) <= Len(actions) /\ \A i \in 1..Len(seen) : seen[i] = actions[i]

\* While actions are recorded one at a time: one request records, and it has them all; no
\* action is ever taken from the run.
OneByOne ==
    /\ \A r \in Actors : drillPc[r] # "idle" /\ drillOp[r] = "record" =>
          /\ drillView[r].actions = drill.actions
          /\ \A q \in Actors : drillPc[q] # "idle" /\ drillOp[q] = "record" => q = r
    /\ \A r \in Actors : drillPc[r] # "idle" => SeenFirst(drillView[r].actions, drill.actions)

\* What is about to be written as missed was reported.
ReportInv ==
    \A r \in Actors : drillPc[r] = "reported" /\ ~unreported =>
        Missed(Score(drillView[r].actions)) \subseteq reported

DrillInv ==
    /\ DrillTypes /\ RunsOk /\ RequestInv /\ ReportInv /\ DrillKept
    /\ ~Together => OneByOne

\* A request writes the columns it changed.
LEMMA FlushedRun ==
  ASSUME NEW now \in DrillRun, NEW read \in DrillRun, NEW new \in DrillRun
  PROVE  LET row == Flushed(now, read, new) IN
         /\ row \in DrillRun
         /\ row.status = IF new.status = read.status THEN now.status ELSE new.status
         /\ row.actions = IF new.actions = read.actions THEN now.actions ELSE new.actions
         /\ row.score = IF new.score = read.score THEN now.score ELSE new.score
BY DEF Flushed, DrillRun

\* A score is made of the items and the actions there are.
LEMMA ScoreTyped ==
  ASSUME NEW actions \in ActionList, Len(actions) <= MaxActions
  PROVE  Score(actions) \in SUBSET (Checklist \X (1..MaxActions))
<1>1. Score(actions) \subseteq (1..Items) \X DOMAIN actions
  BY ScoreFair, DrillAssumption DEF FairHits
<1>2. DOMAIN actions \subseteq 1..MaxActions
  <2>1. DOMAIN actions = 1..Len(actions) /\ Len(actions) \in Nat
    BY DEF ActionList
  <2> QED
    BY <2>1, DrillAssumption
<1> QED
  BY <1>1, <1>2 DEF Checklist

\* The score of the first actions is a fair score of the run, ...
LEMMA EndedFair ==
  ASSUME DrillTypes', NEW seen \in ActionList, SeenFirst(seen, drill'.actions),
         drill'.score = Score(seen)
  PROVE  ScoreIsFair'
<1>1. FairHits(seen, Items, Score(seen))
  BY ScoreFair, DrillAssumption
<1>2. Len(seen) \in 0..Len(drill'.actions) /\ DOMAIN seen = 1..Len(seen)
  <2>1. drill'.actions \in ActionList
    BY DEF DrillTypes, DrillRun
  <2> QED
    BY <2>1 DEF ActionList, SeenFirst
<1>3. \A h \in Score(seen) : h[2] \in 1..Len(seen) /\ h[2] <= Len(seen)
  BY <1>1, <1>2 DEF FairHits
<1>4. \A h \in Score(seen) : h[2] <= Len(seen) /\ h[1] \in drill'.actions[h[2]]
  BY <1>1, <1>3 DEF FairHits, SeenFirst
<1>5. ASSUME NEW k \in Missed(Score(seen)), NEW i \in 1..Len(seen), k \in drill'.actions[i]
      PROVE  \E h \in Score(seen) : h[2] = i
  <2>1. k \in 1..Items /\ \A h \in Score(seen) : h[1] # k
    BY DEF Missed, Checklist
  <2>2. i \in DOMAIN seen /\ k \in seen[i]
    BY <1>2, <1>5 DEF SeenFirst
  <2> QED
    BY <1>1, <2>1, <2>2 DEF FairHits
<1>6. \A h, g \in Score(seen) : h[1] = g[1] <=> h[2] = g[2]
  BY <1>1 DEF FairHits
<1> QED
  BY <1>2, <1>4, <1>5, <1>6 DEF ScoreIsFair

\* ... and one more action leaves it fair.
LEMMA FairAfterAnother ==
  ASSUME DrillTypes, DrillTypes', ScoreIsFair, drill.status \in Ended \/ drill'.status \notin Ended,
         drill'.score = drill.score, SeenFirst(drill.actions, drill'.actions)
  PROVE  ScoreIsFair'
<1> SUFFICES ASSUME drill.status \in Ended, ~Together PROVE ScoreIsFair'
  BY DEF ScoreIsFair
<1>1. PICK n \in 0..Len(drill.actions) :
         /\ \A h \in drill.score : h[2] <= n /\ h[1] \in drill.actions[h[2]]
         /\ \A k \in Missed(drill.score), i \in 1..n :
               k \in drill.actions[i] => \E h \in drill.score : h[2] = i
  BY DEF ScoreIsFair
<1>2. /\ Len(drill.actions) \in Nat /\ Len(drill'.actions) \in Nat
      /\ \A h \in drill.score : h[2] \in 1..MaxActions
  BY DEF DrillTypes, DrillRun, ActionList
<1>3. n \in 0..Len(drill'.actions) /\ \A i \in 1..n : drill'.actions[i] = drill.actions[i]
  BY <1>2 DEF SeenFirst
<1>4. \A h \in drill.score : h[2] \in 1..n
  BY <1>1, <1>2, DrillAssumption
<1>5. /\ \A h \in drill.score : h[2] <= n /\ h[1] \in drill'.actions[h[2]]
      /\ \A k \in Missed(drill.score), i \in 1..n :
            k \in drill'.actions[i] => \E h \in drill.score : h[2] = i
  BY <1>1, <1>3, <1>4
<1>6. \A h, g \in drill.score : h[1] = g[1] <=> h[2] = g[2]
  BY DEF ScoreIsFair
<1>7. \E m \in 0..Len(drill'.actions) :
         /\ \A h \in drill'.score : h[2] <= m /\ h[1] \in drill'.actions[h[2]]
         /\ \A k \in Missed(drill'.score), i \in 1..m :
               k \in drill'.actions[i] => \E h \in drill'.score : h[2] = i
  <2> HIDE DEF Missed
  <2> QED
    BY ONLY <1>3, <1>5, drill'.score = drill.score
<1> QED
  BY <1>6, <1>7 DEF ScoreIsFair, Missed

\* At the start the invariant holds ...
LEMMA DrillStart == DrillInit => DrillInv
<1> SUFFICES ASSUME DrillInit PROVE DrillInv
  OBVIOUS
<1> USE DrillAssumption DEF DrillInit, NoDrill
<1>1. NoDrill \in DrillRun
  BY DEF DrillRun, ActionList
<1>2. DrillTypes
  <2>1. performed \in ActionList
    BY DEF ActionList
  <2>2. "start" \in DrillOps
    BY DEF DrillOps
  <2>3. drillView \in [Actors -> DrillRun] /\ drill \in DrillRun
    BY <1>1
  <2>4. /\ drillPc \in [Actors -> {"idle", "loaded", "reported"}]
        /\ drillOp \in [Actors -> DrillOps] /\ acting \in [Actors -> SUBSET Checklist]
    BY <2>2
  <2>5. /\ scenario \in {"enabled", "disabled", "deleted"} /\ late \in BOOLEAN
        /\ drillTenant \in {"default", "other"} /\ reported \subseteq Checklist
        /\ unreported \in BOOLEAN /\ drillFaults \in 0..DrillMaxFaults
    <3>1. drillFaults = 0 /\ 0 \in 0..DrillMaxFaults
      BY ONLY DrillInit, DrillAssumption DEF DrillInit
    <3> QED
      BY ONLY DrillInit, <3>1 DEF DrillInit
  <2> QED
    BY ONLY <2>1, <2>3, <2>4, <2>5 DEF DrillTypes
<1>3. RunsOk /\ RequestInv /\ ReportInv
  BY DEF RunsOk, RunOk, RequestInv, ReportInv
<1>4. DrillKept
  BY DEF DrillKept, ActionsKept, ScoreIsFair, MissesReported, Ended
<1>5. OneByOne
  BY DEF OneByOne
<1> QED
  BY <1>2, <1>3, <1>4, <1>5 DEF DrillInv

\* What was first in a list is first in one that goes on.
LEMMA SeenOn ==
  ASSUME NEW a \in ActionList, NEW b \in ActionList, NEW c \in ActionList,
         SeenFirst(a, b), SeenFirst(b, c)
  PROVE  SeenFirst(a, c)
BY DEF SeenFirst, ActionList

\* A request is over, and the run is one that follows.
LEMMA RequestOver ==
  ASSUME DrillInv, NEW r \in Actors, drillPc[r] # "idle",
         drillPc' = [drillPc EXCEPT ![r] = "idle"],
         drillView' = [drillView EXCEPT ![r] = NoDrill], acting' = [acting EXCEPT ![r] = {}],
         UNCHANGED <<scenario, drillTenant, late, drillOp, reported, unreported>>,
         drillFaults' \in 0..DrillMaxFaults, performed' \in ActionList,
         drill' \in DrillRun, RunOk(drill'), drill.status # "none" => drill'.status # "none",
         ~Together => SeenFirst(drill.actions, drill'.actions),
         drill'.actions = drill.actions \/ drillOp[r] = "record"
  PROVE  /\ DrillTypes' /\ RunsOk' /\ RequestInv' /\ ReportInv'
         /\ ~Together => OneByOne'
<1>1. NoDrill \in DrillRun /\ RunOk(NoDrill)
  BY DrillAssumption DEF NoDrill, DrillRun, ActionList, RunOk
<1>2. DrillTypes'
  BY <1>1 DEF DrillInv, DrillTypes
<1>3. \A q \in Actors \ {r} : drillPc'[q] = drillPc[q] /\ drillView'[q] = drillView[q]
  BY DEF DrillInv, DrillTypes
<1>4. drillPc'[r] = "idle" /\ drillView'[r] = NoDrill
  BY DEF DrillInv, DrillTypes
<1>5. RunsOk'
  BY <1>1, <1>3, <1>4 DEF DrillInv, RunsOk
<1>6. RequestInv'
  BY <1>3, <1>4 DEF DrillInv, RequestInv
<1>7. ReportInv'
  BY <1>3, <1>4 DEF DrillInv, ReportInv
<1>8. ASSUME ~Together PROVE OneByOne'
  <2>1. OneByOne
    BY <1>8 DEF DrillInv
  <2>2. ASSUME NEW q \in Actors, drillPc'[q] # "idle", drillOp'[q] = "record"
        PROVE  /\ drillView'[q].actions = drill'.actions
               /\ \A p \in Actors : drillPc'[p] # "idle" /\ drillOp'[p] = "record" => p = q
    <3>1. q # r /\ drillPc[q] # "idle" /\ drillOp[q] = "record"
      BY <1>3, <1>4, <2>2
    <3>2. drill'.actions = drill.actions
      BY <2>1, <3>1 DEF OneByOne
    <3> QED
      BY <1>3, <1>4, <2>1, <3>1, <3>2 DEF OneByOne
  <2>3. ASSUME NEW q \in Actors, drillPc'[q] # "idle"
        PROVE  SeenFirst(drillView'[q].actions, drill'.actions)
    <3>1. q # r /\ SeenFirst(drillView[q].actions, drill.actions)
      BY <1>3, <1>4, <2>1, <2>3 DEF OneByOne
    <3>2. /\ drillView[q].actions \in ActionList /\ drill.actions \in ActionList
          /\ drill'.actions \in ActionList
      BY DEF DrillInv, DrillTypes, DrillRun
    <3>3. SeenFirst(drillView[q].actions, drill'.actions)
      BY <1>8, <3>1, <3>2, SeenOn
    <3> QED
      BY <1>3, <3>1, <3>3
  <2> QED
    BY <2>2, <2>3 DEF OneByOne
<1> QED
  BY <1>2, <1>5, <1>6, <1>7, <1>8

\* ... a start ...
LEMMA StartKeeps ==
  ASSUME DrillInv, NEW r \in Actors, StartDrill(r)
  PROVE  DrillInv'
<1> DEFINE new == [NoDrill EXCEPT !.status = "running"]
<1>1. drill \in DrillRun /\ drillView[r] \in DrillRun /\ new \in DrillRun
  <2>1. drill \in DrillRun /\ drillView[r] \in DrillRun
    BY DEF DrillInv, DrillTypes
  <2>2. NoDrill \in DrillRun
    BY DEF NoDrill, DrillRun, ActionList
  <2> HIDE DEF NoDrill
  <2> QED
    BY <2>1, <2>2 DEF DrillRun
<1>2. /\ drill.status = "none" /\ drill.actions = <<>> /\ drill.score = {}
      /\ drillView[r].status = "none" /\ drillView[r].actions = <<>> /\ drillView[r].score = {}
  BY DEF StartDrill, DrillInv, RequestInv, RunsOk, RunOk, Ended
<1>3. new.status = "running" /\ new.actions = <<>> /\ new.score = {}
  BY DEF NoDrill
<1>4. drill' = Flushed(drill, drillView[r], new)
  BY DEF StartDrill, SaveDrill
<1>5. /\ drill' \in DrillRun /\ drill'.status = "running"
      /\ drill'.actions = drill.actions /\ drill'.score = {}
  <2> HIDE DEF new
  <2> QED
    BY <1>1, <1>2, <1>3, <1>4, FlushedRun
<1>6. /\ drillPc' = [drillPc EXCEPT ![r] = "idle"]
      /\ drillView' = [drillView EXCEPT ![r] = NoDrill] /\ acting' = [acting EXCEPT ![r] = {}]
      /\ UNCHANGED <<scenario, drillTenant, late, drillOp, performed, reported, unreported,
                     drillFaults>>
  BY DEF StartDrill, SaveDrill
<1>7. drillPc[r] # "idle"
  BY DEF StartDrill
<1>8. RunOk(drill')
  BY <1>2, <1>5, DrillAssumption DEF RunOk
<1>9. SeenFirst(drill.actions, drill'.actions)
  BY <1>1, <1>5 DEF SeenFirst, DrillRun, ActionList
<1>10. performed \in ActionList /\ drillFaults \in 0..DrillMaxFaults
  BY DEF DrillInv, DrillTypes
<1>11. /\ DrillTypes' /\ RunsOk' /\ RequestInv' /\ ReportInv'
       /\ ~Together => OneByOne'
  BY <1>5, <1>6, <1>7, <1>8, <1>9, <1>10, RequestOver
<1>12. DrillKept'
  BY <1>5, <1>6 DEF DrillInv, DrillKept, ActionsKept, ScoreIsFair, MissesReported, Ended
<1> QED
  BY <1>11, <1>12 DEF DrillInv

\* ... a recorded action ...
LEMMA RecordKeeps ==
  ASSUME DrillInv, NEW r \in Actors, RecordAction(r)
  PROVE  DrillInv'
<1> DEFINE view == drillView[r]
           new == [view EXCEPT !.actions = Append(view.actions, acting[r])]
<1>1. /\ drill \in DrillRun /\ view \in DrillRun /\ new \in DrillRun
      /\ view.actions \in ActionList /\ Append(view.actions, acting[r]) \in ActionList
      /\ new.status = view.status /\ new.score = view.score
      /\ new.actions = Append(view.actions, acting[r])
  <2>1. drill \in DrillRun /\ view \in DrillRun /\ acting[r] \in SUBSET Checklist
    BY DEF DrillInv, DrillTypes
  <2>2. view.actions \in ActionList
    BY <2>1 DEF DrillRun
  <2>3. Append(view.actions, acting[r]) \in ActionList
    BY <2>1, <2>2 DEF ActionList
  <2> HIDE DEF view
  <2> QED
    BY <2>1, <2>2, <2>3 DEF DrillRun
<1>2. /\ drillPc[r] # "idle" /\ drillOp[r] = "record" /\ drill.status # "none"
      /\ Len(view.actions) < MaxActions
  BY DEF RecordAction, DrillInv, RequestInv
<1>3. /\ Len(new.actions) = Len(view.actions) + 1 /\ Len(view.actions) \in Nat
      /\ \A i \in 1..Len(view.actions) : new.actions[i] = view.actions[i]
  <2> HIDE DEF view, new
  <2>1. acting[r] \in SUBSET Checklist
    BY DEF DrillInv, DrillTypes
  <2> QED
    BY <1>1, <2>1 DEF ActionList
<1>4. drill' = Flushed(drill, view, new)
  BY DEF RecordAction, SaveDrill
<1>5. /\ drillPc' = [drillPc EXCEPT ![r] = "idle"]
      /\ drillView' = [drillView EXCEPT ![r] = NoDrill] /\ acting' = [acting EXCEPT ![r] = {}]
      /\ performed' = Append(performed, acting[r])
      /\ UNCHANGED <<scenario, drillTenant, late, drillOp, reported, unreported, drillFaults>>
  BY DEF RecordAction, SaveDrill
<1>6. ~Together => view.actions = drill.actions
  BY <1>2 DEF DrillInv, OneByOne
<1> HIDE DEF view, new
<1>7. /\ drill' \in DrillRun /\ drill'.status = drill.status
      /\ drill'.actions = new.actions /\ drill'.score = drill.score
  BY <1>1, <1>3, <1>4, FlushedRun
<1>8. RunOk(drill')
  <2>1. RunOk(drill)
    BY DEF DrillInv, RunsOk
  <2> QED
    BY <1>2, <1>3, <1>7, <2>1, DrillAssumption DEF RunOk
<1>9. ~Together => SeenFirst(drill.actions, drill'.actions)
  BY <1>3, <1>6, <1>7 DEF SeenFirst
<1>10. performed' \in ActionList /\ drillFaults' \in 0..DrillMaxFaults
  <2>1. performed \in ActionList /\ acting[r] \in SUBSET Checklist
    BY DEF DrillInv, DrillTypes
  <2> QED
    BY <1>5, <2>1 DEF ActionList, DrillInv, DrillTypes
<1>11. /\ DrillTypes' /\ RunsOk' /\ RequestInv' /\ ReportInv'
       /\ ~Together => OneByOne'
  BY <1>2, <1>5, <1>7, <1>8, <1>9, <1>10, RequestOver
<1>12. ActionsKept'
  BY <1>1, <1>5, <1>6, <1>7 DEF DrillInv, DrillKept, ActionsKept
<1>13. ScoreIsFair'
  <2>1. CASE Together
    BY <2>1 DEF ScoreIsFair
  <2>2. CASE ~Together
    BY <1>7, <1>9, <1>11, <2>2, FairAfterAnother DEF DrillInv, DrillKept
  <2> QED
    BY <2>1, <2>2
<1>14. MissesReported'
  BY <1>5, <1>7 DEF DrillInv, DrillKept, MissesReported, Missed
<1> QED
  BY <1>11, <1>12, <1>13, <1>14 DEF DrillInv, DrillKept

\* ... the end ...
LEMMA EndKeeps ==
  ASSUME DrillInv, NEW r \in Actors, EndDrill(r)
  PROVE  DrillInv'
<1> DEFINE view == drillView[r]
<1>1. /\ drill \in DrillRun /\ view \in DrillRun /\ view.actions \in ActionList
      /\ Len(view.actions) <= MaxActions
  BY DEF DrillInv, DrillTypes, DrillRun, RunsOk, RunOk
<1>2. /\ drillPc[r] = "reported" /\ drillOp[r] \in {"finish", "settle", "abort"}
      /\ view.status = "running" /\ view.score = {}
  BY DEF EndDrill, DrillInv, RequestInv, RunsOk, RunOk, Ended
<1>3. PICK review \in {"none", "llm", "template"} :
         drill' = Flushed(drill, view, EndedRow(view, drillOp[r], review))
  <2>1. view.review \in {"none", "llm", "template"}
    BY <1>1 DEF DrillRun
  <2> QED
    BY <1>2, <2>1 DEF EndDrill, SaveDrill
<1>4. /\ drillPc' = [drillPc EXCEPT ![r] = "idle"]
      /\ drillView' = [drillView EXCEPT ![r] = NoDrill] /\ acting' = [acting EXCEPT ![r] = {}]
      /\ UNCHANGED <<scenario, drillTenant, late, drillOp, performed, reported, unreported,
                     drillFaults>>
  BY DEF EndDrill, SaveDrill
<1>5. ~Together => SeenFirst(view.actions, drill.actions)
  BY <1>2 DEF DrillInv, OneByOne
<1>6. ~unreported => Missed(Score(view.actions)) \subseteq reported
  BY <1>2 DEF DrillInv, ReportInv
<1> DEFINE score == Score(view.actions)
           new == EndedRow(view, drillOp[r], review)
<1> HIDE DEF view
<1>7. score \in SUBSET (Checklist \X (1..MaxActions))
  BY <1>1, ScoreTyped
<1>8. /\ new \in DrillRun /\ new.status \in Ended /\ new.score = score
      /\ new.actions = view.actions
  <2> HIDE DEF score
  <2> QED
    BY <1>1, <1>7 DEF EndedRow, DrillRun, Ended, score
<1> HIDE DEF score, new
<1>9. /\ drill' \in DrillRun /\ drill'.status \in Ended /\ drill'.actions = drill.actions
      /\ drill'.score = IF score = {} THEN drill.score ELSE score
  <2>1. "running" \notin Ended
    BY DEF Ended
  <2>2. drill' = Flushed(drill, view, new)
    BY <1>3 DEF new
  <2> QED
    <3>1. drill' \in DrillRun
      BY <1>1, <1>8, <2>2, FlushedRun
    <3>2. drill'.status = new.status
      BY <1>1, <1>2, <1>8, <2>1, <2>2, FlushedRun
    <3>3. drill'.actions = drill.actions
      BY <1>1, <1>8, <2>2, FlushedRun
    <3>4. drill'.score = IF score = {} THEN drill.score ELSE score
      <4>1. drill'.score = IF new.score = view.score THEN drill.score ELSE new.score
        BY <1>1, <1>8, <2>2, FlushedRun
      <4> QED
        BY <1>2, <1>8, <4>1
    <3> QED
      BY <1>8, <3>1, <3>2, <3>3, <3>4
<1>10. drill'.score = score \/ (drill.status \in Ended /\ drill'.score = drill.score)
  BY <1>9 DEF DrillInv, RunsOk, RunOk
<1>11. RunOk(drill')
  BY <1>9 DEF DrillInv, RunsOk, RunOk, Ended
<1>12. SeenFirst(drill.actions, drill'.actions)
  BY <1>1, <1>9 DEF SeenFirst, DrillRun, ActionList
<1>13. performed \in ActionList /\ drillFaults \in 0..DrillMaxFaults
  BY DEF DrillInv, DrillTypes
<1>14. /\ DrillTypes' /\ RunsOk' /\ RequestInv' /\ ReportInv'
       /\ ~Together => OneByOne'
  <2>1. drill'.status # "none"
    BY <1>9 DEF Ended
  <2> QED
    BY <1>2, <1>4, <1>9, <1>11, <1>12, <1>13, <2>1, RequestOver
<1>15. ActionsKept'
  BY <1>4, <1>9 DEF DrillInv, DrillKept, ActionsKept
<1>16. ScoreIsFair'
  <2>1. CASE Together
    BY <2>1 DEF ScoreIsFair
  <2>2. CASE ~Together /\ drill'.score = score
    <3>1. SeenFirst(view.actions, drill'.actions)
      BY <1>5, <1>9, <2>2
    <3> QED
      BY <1>1, <1>14, <2>2, <3>1, EndedFair DEF score
  <2>3. CASE drill.status \in Ended /\ drill'.score = drill.score
    BY <1>9, <1>12, <1>14, <2>3, FairAfterAnother DEF DrillInv, DrillKept
  <2> QED
    BY <1>10, <2>1, <2>2, <2>3
<1>17. MissesReported'
  <2>1. CASE drill'.score = score
    BY <1>4, <1>6, <2>1 DEF MissesReported, score
  <2>2. CASE drill.status \in Ended /\ drill'.score = drill.score
    BY <1>4, <2>2 DEF DrillInv, DrillKept, MissesReported, Missed
  <2> QED
    BY <1>10, <2>1, <2>2
<1> QED
  BY <1>14, <1>15, <1>16, <1>17 DEF DrillInv, DrillKept

\* ... a request that loads the run ...
LEMMA LoadKeeps ==
  ASSUME DrillInv, NEW r \in Actors, NEW o \in DrillOps, LoadDrill(r, o)
  PROVE  DrillInv'
<1>1. /\ o = "start" => drill.status = "none"
      /\ o # "start" => drill.status = "running"
      /\ o = "record" => /\ Len(drill.actions) < MaxActions
                         /\ \/ Together
                            \/ \A q \in Actors : ~(drillPc[q] = "loaded" /\ drillOp[q] = "record")
  BY DEF LoadDrill, DrillAllows, DrillOps
<1>2. /\ drillPc' = [drillPc EXCEPT ![r] = "loaded"] /\ drillOp' = [drillOp EXCEPT ![r] = o]
      /\ drillView' = [drillView EXCEPT ![r] = drill]
      /\ UNCHANGED <<scenario, drill, drillTenant, late, performed, reported, unreported,
                     drillFaults>>
  BY DEF LoadDrill
<1>3. PICK mentioned \in SUBSET Checklist : acting' = [acting EXCEPT ![r] = mentioned]
  BY DEF LoadDrill
<1>4. DrillTypes'
  BY <1>2, <1>3 DEF DrillInv, DrillTypes
<1>5. /\ drillPc'[r] = "loaded" /\ drillOp'[r] = o /\ drillView'[r] = drill
      /\ \A q \in Actors \ {r} : /\ drillPc'[q] = drillPc[q] /\ drillOp'[q] = drillOp[q]
                                 /\ drillView'[q] = drillView[q]
  BY <1>2 DEF DrillInv, DrillTypes
<1>6. RunsOk' /\ RequestInv' /\ ReportInv'
  <2>1. RunsOk'
    BY <1>2, <1>5 DEF DrillInv, RunsOk
  <2>2. RequestInv'
    BY <1>1, <1>2, <1>5 DEF DrillInv, RequestInv
  <2>3. ReportInv'
    BY <1>2, <1>5 DEF DrillInv, ReportInv
  <2> QED
    BY <2>1, <2>2, <2>3
<1>7. DrillKept'
  BY <1>2 DEF DrillInv, DrillKept, ActionsKept, ScoreIsFair, MissesReported, Missed
<1>8. ASSUME ~Together PROVE OneByOne'
  <2>1. OneByOne
    BY <1>8 DEF DrillInv
  <2>2. o = "record" => \A q \in Actors : drillPc[q] # "idle" => drillOp[q] # "record"
    BY <1>1, <1>8 DEF DrillInv, RequestInv, DrillTypes
  <2>3. ASSUME NEW q \in Actors, drillPc'[q] # "idle", drillOp'[q] = "record"
        PROVE  /\ drillView'[q].actions = drill'.actions
               /\ \A p \in Actors : drillPc'[p] # "idle" /\ drillOp'[p] = "record" => p = q
    <3>1. CASE q = r
      BY <1>2, <1>5, <2>2, <2>3, <3>1
    <3>2. CASE q # r
      BY <1>2, <1>5, <2>1, <2>2, <2>3, <3>2 DEF OneByOne
    <3> QED
      BY <3>1, <3>2
  <2>4. SeenFirst(drill.actions, drill.actions)
    BY DEF SeenFirst, DrillInv, DrillTypes, DrillRun, ActionList
  <2>5. \A q \in Actors : drillPc'[q] # "idle" => SeenFirst(drillView'[q].actions, drill'.actions)
    BY <1>2, <1>5, <2>1, <2>4 DEF OneByOne
  <2> QED
    BY <2>3, <2>5 DEF OneByOne
<1> QED
  BY <1>4, <1>6, <1>7, <1>8 DEF DrillInv

\* ... and the report of what was missed.
LEMMA ReportKeeps ==
  ASSUME DrillInv, NEW r \in Actors, ReportMisses(r)
  PROVE  DrillInv'
<1>1. /\ drillPc[r] = "loaded" /\ drillOp[r] \in {"finish", "settle", "abort"}
      /\ drillPc' = [drillPc EXCEPT ![r] = "reported"]
      /\ UNCHANGED <<scenario, drill, drillTenant, late, drillOp, drillView, acting, performed>>
  BY DEF ReportMisses
<1>2. /\ reported \subseteq reported' /\ reported' \subseteq Checklist
      /\ unreported' \in BOOLEAN /\ drillFaults' \in 0..DrillMaxFaults
  <2>1. reported \subseteq Checklist /\ unreported \in BOOLEAN /\ drillFaults \in 0..DrillMaxFaults
    BY DEF DrillInv, DrillTypes
  <2>2. Missed(Score(drillView[r].actions)) \subseteq Checklist
    BY DEF Missed
  <2>3. reported \subseteq reported' /\ reported' \subseteq Checklist
    BY <2>1, <2>2 DEF ReportMisses
  <2>4. drillFaults' \in 0..DrillMaxFaults
    BY <2>1, DrillAssumption DEF ReportMisses
  <2>5. unreported' = unreported \/ unreported' = TRUE
    BY DEF ReportMisses
  <2> QED
    BY <2>1, <2>3, <2>4, <2>5
<1>3. ~unreported' => ~unreported
  BY DEF ReportMisses
<1>4. ~unreported' => Missed(Score(drillView[r].actions)) \subseteq reported'
  BY DEF ReportMisses
<1>5. \A q \in Actors \ {r} : drillPc'[q] = drillPc[q]
  BY <1>1 DEF DrillInv, DrillTypes
<1>6. drillPc'[r] = "reported"
  BY <1>1 DEF DrillInv, DrillTypes
<1>7. DrillTypes'
  <2>1. DrillTypes
    BY DEF DrillInv
  <2>2. drillPc' \in [Actors -> {"idle", "loaded", "reported"}]
    BY <1>1, <2>1 DEF DrillTypes
  <2> QED
    BY <1>1, <1>2, <2>1, <2>2 DEF DrillTypes
<1>8. RunsOk'
  BY <1>1 DEF DrillInv, RunsOk
<1>9. RequestInv'
  BY <1>1, <1>5, <1>6 DEF DrillInv, RequestInv
<1>10. ReportInv'
  <2> SUFFICES ASSUME NEW q \in Actors, drillPc'[q] = "reported", ~unreported'
               PROVE  Missed(Score(drillView[q].actions)) \subseteq reported'
    BY <1>1 DEF ReportInv
  <2>1. CASE q = r
    BY <1>4, <2>1
  <2>2. CASE q # r
    <3>1. ~unreported /\ drillPc[q] = "reported"
      BY <1>5, <1>3, <2>2
    <3>2. Missed(Score(drillView[q].actions)) \subseteq reported
      BY <3>1 DEF DrillInv, ReportInv
    <3> QED
      BY <1>2, <3>2
  <2> QED
    BY <2>1, <2>2
<1>11. DrillKept'
  <2>1. ActionsKept' /\ ScoreIsFair'
    BY <1>1 DEF DrillInv, DrillKept, ActionsKept, ScoreIsFair, Missed
  <2>2. MissesReported'
    <3>1. MissesReported
      BY DEF DrillInv, DrillKept
    <3>2. SUFFICES ASSUME drill.status \in Ended, ~unreported'
                   PROVE  Missed(drill.score) \subseteq reported'
      BY <1>1 DEF MissesReported, Missed
    <3>3. Missed(drill.score) \subseteq reported
      BY <1>3, <3>1, <3>2 DEF MissesReported
    <3> QED
      BY <1>2, <3>3
  <2> QED
    BY <2>1, <2>2 DEF DrillKept
<1>12. ~Together => OneByOne'
  BY <1>1, <1>5, <1>6 DEF DrillInv, OneByOne
<1> QED
  BY <1>7, <1>8, <1>9, <1>10, <1>11, <1>12 DEF DrillInv

\* So every step keeps the invariant.
LEMMA DrillStep ==
  ASSUME DrillInv, [DrillNext]_drillVars
  PROVE  DrillInv'
<1> USE DEF DrillKept, ActionsKept, ScoreIsFair, MissesReported, Missed
<1>1. ASSUME NEW r \in Actors, DrillDies(r) PROVE DrillInv'
  <2>1. /\ drillPc[r] # "idle" /\ drillPc' = [drillPc EXCEPT ![r] = "idle"]
        /\ drillView' = [drillView EXCEPT ![r] = NoDrill]
        /\ acting' = [acting EXCEPT ![r] = {}]
        /\ UNCHANGED <<scenario, drill, drillTenant, late, drillOp, performed, reported,
                       unreported>>
    BY <1>1 DEF DrillDies
  <2>2. drillFaults' \in 0..DrillMaxFaults /\ performed \in ActionList
    BY <1>1, DrillAssumption DEF DrillDies, DrillInv, DrillTypes
  <2>3. drill \in DrillRun /\ RunOk(drill) /\ SeenFirst(drill.actions, drill.actions)
    BY DEF SeenFirst, DrillInv, DrillTypes, DrillRun, ActionList, RunsOk
  <2>4. /\ DrillTypes' /\ RunsOk' /\ RequestInv' /\ ReportInv'
        /\ ~Together => OneByOne'
    BY <2>1, <2>2, <2>3, RequestOver
  <2> QED
    BY <2>1, <2>4 DEF DrillInv
<1>2. CASE SwitchScenario \/ DeleteScenario \/ TimePasses \/ UNCHANGED drillVars
  <2>1. /\ scenario' \in {"enabled", "disabled", "deleted"} /\ late' \in BOOLEAN
        /\ UNCHANGED <<drill, drillTenant, drillPc, drillOp, drillView, acting, performed,
                       reported, unreported, drillFaults>>
    BY <1>2 DEF SwitchScenario, DeleteScenario, TimePasses, drillVars, DrillInv, DrillTypes
  <2>2. DrillTypes'
    BY <2>1 DEF DrillInv, DrillTypes
  <2>3. RunsOk' /\ RequestInv' /\ ReportInv' /\ (~Together => OneByOne')
    BY <2>1 DEF DrillInv, RunsOk, RequestInv, ReportInv, OneByOne
  <2>4. DrillKept'
    BY <2>1 DEF DrillInv
  <2> QED
    BY <2>2, <2>3, <2>4 DEF DrillInv
<1>3. Sweeper \in Actors /\ DrillRequests \subseteq Actors /\ "settle" \in DrillOps
  BY DEF Actors, DrillOps
<1>4. CASE Sweep
  BY <1>3, <1>4, LoadKeeps, ReportKeeps, EndKeeps DEF Sweep
<1>5. ASSUME NEW r \in DrillRequests,
             \/ \E o \in DrillOps : LoadDrill(r, o)
             \/ StartDrill(r) \/ RecordAction(r) \/ ReportMisses(r) \/ EndDrill(r)
      PROVE  DrillInv'
  BY <1>3, <1>5, LoadKeeps, StartKeeps, RecordKeeps, ReportKeeps, EndKeeps
<1> QED
  BY <1>1, <1>2, <1>4, <1>5 DEF DrillNext

\* The run, its requests and what was reported have their types.
THEOREM DrillsTyped == DrillSpec => []DrillTypeOK
<1>1. \A row \in DrillRun : DrillRow(row)
  BY DEF DrillRun, DrillRow, NoDrill, ActionList
<1>2. DrillInv => DrillTypeOK
  BY <1>1 DEF DrillInv, DrillTypes, DrillTypeOK, ActionList
<1> QED
  BY <1>2, DrillStart, DrillStep, PTL DEF DrillSpec

\* For any number of requests, items, actions and faults, the end of a run keeps its actions,
\* scores them fairly and reports its misses.
THEOREM DrillsKept == DrillSpec => []DrillKept
<1>1. DrillInv => DrillKept
  BY DEF DrillInv
<1> QED
  BY <1>1, DrillStart, DrillStep, PTL DEF DrillSpec

-----------------------------------------------------------------------------
(* Sign-offs.                                                              *)

\* A node of the flow, and a row of the table.
FlowNode == [mark : {"pending", "signed", "rejected"}, at : 0..MaxStamps, hash : Hashes]

SignRow == [status : {"draft", "pending"} \cup Final, seq : 0..Nodes, flow : [1..Nodes -> FlowNode],
            chain : Hashes, fingerprint : 0..MaxDocEdits]

\* f is the chain as verify_signoff computes it, node by node.
ChainUpTo(row, n, f) ==
    f = [k \in 0..n |->
            IF k = 0 THEN Genesis
            ELSE IF row.flow[k].mark = "pending" THEN f[k - 1]
            ELSE NodeHash(f[k - 1], k, row.flow[k].at)]

\* The chain can be computed node by node, ...
LEMMA ChainExists ==
  ASSUME NEW row, NEW N \in Nat
  PROVE  \E f : ChainUpTo(row, N, f)
<1> DEFINE link(k, h) == IF row.flow[k].mark = "pending" THEN h
                         ELSE NodeHash(h, k, row.flow[k].at)
           T == {n \in Nat : ~ \E f : ChainUpTo(row, n, f)}
<1> SUFFICES ASSUME T # {} PROVE FALSE
  OBVIOUS
<1>1. PICK n \in T : \A m \in T : n <= m
  BY LeastElement
<1>2. ASSUME NEW i \in Nat, NEW f
      PROVE  ChainUpTo(row, i, f) <=> f = [k \in 0..i |-> IF k = 0 THEN Genesis
                                                          ELSE link(k, f[k - 1])]
  BY DEF ChainUpTo
<1> HIDE DEF link
<1>3. CASE n = 0
  <2> DEFINE g == [k \in 0..0 |-> Genesis]
  <2>1. g = [k \in 0..0 |-> IF k = 0 THEN Genesis ELSE link(k, g[k - 1])]
    OBVIOUS
  <2> QED
    BY <1>1, <1>2, <1>3, <2>1
<1>4. CASE n # 0
  <2>1. n \in Nat /\ n - 1 \in Nat /\ n - 1 \notin T
    BY <1>1, <1>4
  <2>2. PICK f : f = [k \in 0..(n - 1) |-> IF k = 0 THEN Genesis ELSE link(k, f[k - 1])]
    BY <1>2, <2>1
  <2> DEFINE g == [k \in 0..n |-> IF k = n THEN link(n, f[n - 1]) ELSE f[k]]
             e(k) == IF k = 0 THEN Genesis ELSE link(k, g[k - 1])
  <2>3. \A k \in 0..(n - 1) : g[k] = f[k]
    BY <2>1
  <2>4. \A k \in 0..n : g[k] = e(k)
    <3> SUFFICES ASSUME NEW k \in 0..n PROVE g[k] = e(k)
      OBVIOUS
    <3>1. CASE k = n
      BY <1>4, <2>1, <2>3, <3>1
    <3>2. CASE k # n
      <4>1. k \in 0..(n - 1) /\ (k # 0 => k - 1 \in 0..(n - 1))
        BY <2>1, <3>2
      <4>2. f[k] = IF k = 0 THEN Genesis ELSE link(k, f[k - 1])
        BY <2>2, <4>1
      <4> QED
        BY <2>3, <4>1, <4>2
    <3> QED
      BY <3>1, <3>2
  <2>5. g = [k \in 0..n |-> e(k)]
    <3> HIDE DEF e
    <3>1. g = [k \in 0..n |-> g[k]]
      OBVIOUS
    <3> HIDE DEF g
    <3> QED
      BY <2>4, <3>1
  <2>6. ChainUpTo(row, n, g)
    BY <1>2, <2>1, <2>5
  <2> QED
    BY <1>1, <2>6
<1> QED
  BY <1>3, <1>4

\* ... and so it is computed.
LEMMA RecomputedIsChain ==
  ASSUME NEW row
  PROVE  /\ Recomputed(row)[0] = Genesis
         /\ \A k \in 1..Nodes :
               Recomputed(row)[k] = IF row.flow[k].mark = "pending" THEN Recomputed(row)[k - 1]
                                    ELSE NodeHash(Recomputed(row)[k - 1], k, row.flow[k].at)
<1>1. Nodes \in Nat /\ Nodes >= 1
  BY SignoffAssumption
<1>2. PICK g : ChainUpTo(row, Nodes, g)
  BY <1>1, ChainExists
<1>3. Recomputed(row) = CHOOSE f : ChainUpTo(row, Nodes, f)
  BY DEF Recomputed, ChainUpTo
<1>4. ChainUpTo(row, Nodes, Recomputed(row))
  BY <1>2, <1>3
<1> HIDE DEF Recomputed
<1> DEFINE f == Recomputed(row)
<1>5. f = [k \in 0..Nodes |->
            IF k = 0 THEN Genesis
            ELSE IF row.flow[k].mark = "pending" THEN f[k - 1]
            ELSE NodeHash(f[k - 1], k, row.flow[k].at)]
  BY <1>4 DEF ChainUpTo
<1> HIDE DEF f
<1>6. f[0] = Genesis
  BY <1>1, <1>5
<1>7. ASSUME NEW k \in 1..Nodes
      PROVE  f[k] = IF row.flow[k].mark = "pending" THEN f[k - 1]
                    ELSE NodeHash(f[k - 1], k, row.flow[k].at)
  <2>1. k \in 0..Nodes /\ k # 0
    BY <1>1
  <2> QED
    BY <1>5, <2>1
<1> QED
  BY <1>6, <1>7 DEF f

\* The parts of the chain name their nodes in order, and a time.
InOrder(chain) ==
    /\ Len(chain) <= Nodes
    /\ \A k \in 1..Len(chain) : chain[k][1] = k /\ chain[k][2] >= 1

\* No node past the chain is signed.
RestUnsigned(row) == \A k \in 1..Nodes : k > Len(row.chain) => row.flow[k].mark = "pending"

\* The nodes the chain names are as it names them.
AsChained(row) ==
    \A k \in 1..Len(row.chain) :
        /\ row.flow[k].mark # "pending" /\ row.flow[k].at = row.chain[k][2]
        /\ SeenFirst(row.flow[k].hash, row.chain) /\ Len(row.flow[k].hash) = k

\* A node the chain names has been erased or altered.
Tampered(row) ==
    \E k \in 1..Len(row.chain) : row.flow[k].mark = "pending" \/ row.flow[k].at = 0

\* A row nobody touched passes verify_signoff, ...
LEMMA UntouchedPasses ==
  ASSUME NEW row \in SignRow, InOrder(row.chain), RestUnsigned(row), AsChained(row)
  PROVE  ChainOk(row)
<1> DEFINE f == Recomputed(row)
           m == Len(row.chain)
           good(k) == /\ f[k] \in Hashes /\ SeenFirst(f[k], row.chain)
                      /\ Len(f[k]) = IF k <= m THEN k ELSE m
           T == {k \in 0..Nodes : ~ good(k)}
<1>1. /\ Nodes \in Nat /\ Nodes >= 1 /\ row.chain \in Hashes /\ m \in 0..Nodes
      /\ \A k \in 1..Nodes : row.flow[k] \in FlowNode
  BY SignoffAssumption DEF SignRow, InOrder, Hashes
<1>2. f[0] = Genesis /\ \A k \in 1..Nodes :
          f[k] = IF row.flow[k].mark = "pending" THEN f[k - 1]
                 ELSE NodeHash(f[k - 1], k, row.flow[k].at)
  BY RecomputedIsChain
<1> HIDE DEF f, m
<1>3. \A k \in 0..Nodes : good(k)
  <2> SUFFICES ASSUME T # {} PROVE FALSE
    OBVIOUS
  <2>1. PICK n \in T : \A k \in T : n <= k
    <3>1. T \subseteq Nat
      BY <1>1
    <3> QED
      BY <3>1, LeastElement
  <2>2. CASE n = 0
    <3>1. good(0)
      BY <1>1, <1>2 DEF Genesis, Hashes, SeenFirst, m
    <3> QED
      BY <2>1, <2>2, <3>1
  <2>3. CASE n # 0
    <3>1. n \in 1..Nodes /\ n - 1 \in 0..Nodes /\ n - 1 \notin T
      BY <1>1, <2>1, <2>3
    <3>2. good(n - 1)
      BY <3>1
    <3>3. CASE n > m
      <4>1. f[n] = f[n - 1]
        BY <1>2, <3>1, <3>3 DEF RestUnsigned, m
      <4>2. good(n)
        BY <1>1, <3>1, <3>2, <3>3, <4>1
      <4> QED
        BY <2>1, <4>2
    <3>4. CASE n <= m
      <4>1. /\ n \in 1..Len(row.chain) /\ row.flow[n].mark # "pending"
            /\ row.flow[n].at = row.chain[n][2] /\ row.chain[n][1] = n
        BY <1>1, <3>1, <3>4 DEF AsChained, InOrder, m
      <4>2. row.chain[n] \in (1..Nodes) \X (0..MaxStamps)
        BY <1>1, <4>1 DEF Hashes
      <4>3. <<n, row.flow[n].at>> = row.chain[n] /\ row.flow[n].at \in 0..MaxStamps
        BY <4>1, <4>2
      <4>4. f[n - 1] \in Hashes /\ Len(f[n - 1]) = n - 1 /\ SeenFirst(f[n - 1], row.chain)
        BY <1>1, <3>1, <3>2, <3>4
      <4>5. f[n] = NodeHash(f[n - 1], n, row.flow[n].at)
        BY <1>2, <3>1, <4>1
      <4>6. /\ f[n] \in Hashes /\ Len(f[n]) = n /\ f[n][n] = row.chain[n]
            /\ \A i \in 1..(n - 1) : f[n][i] = f[n - 1][i]
        <5>1. n = Len(f[n - 1]) + 1
          BY <3>1, <4>4
        <5>2. /\ f[n] \in Hashes /\ Len(f[n]) = n /\ f[n][n] = <<n, row.flow[n].at>>
              /\ \A i \in 1..Len(f[n - 1]) : f[n][i] = f[n - 1][i]
          <6>1. f[n - 1] \in Hashes
            BY <4>4
          <6>2. n \in 1..Nodes /\ row.flow[n].at \in 0..MaxStamps
            BY <3>1, <4>3
          <6>3. f[n] \in Hashes /\ Len(f[n]) = n
            BY ONLY <4>5, <5>1, <6>1, <6>2 DEF NodeHash, Hashes
          <6>4. f[n][n] = <<n, row.flow[n].at>>
            BY ONLY <4>5, <5>1, <6>1, <6>2 DEF NodeHash, Hashes
          <6>5. \A i \in 1..Len(f[n - 1]) : f[n][i] = f[n - 1][i]
            BY ONLY <4>5, <5>1, <6>1, <6>2 DEF NodeHash, Hashes
          <6> QED
            BY <6>3, <6>4, <6>5
        <5> QED
          BY <4>3, <4>4, <5>2
      <4>7. SeenFirst(f[n], row.chain)
        <5>1. Len(f[n]) <= Len(row.chain)
          BY <1>1, <4>1, <4>6 DEF Hashes
        <5>2. \A i \in 1..(n - 1) : f[n - 1][i] = row.chain[i]
          BY ONLY <4>4 DEF SeenFirst
        <5>3. \A i \in 1..n : f[n][i] = row.chain[i]
          <6> SUFFICES ASSUME NEW i \in 1..n PROVE f[n][i] = row.chain[i]
            OBVIOUS
          <6>1. CASE i = n
            BY <4>6, <6>1
          <6>2. CASE i # n
            <7>1. i \in 1..(n - 1)
              BY <3>1, <6>2
            <7> QED
              BY <4>6, <5>2, <7>1
          <6> QED
            BY <6>1, <6>2
        <5> QED
          BY <4>6, <5>1, <5>3 DEF SeenFirst
      <4>8. good(n)
        BY <3>1, <3>4, <4>6, <4>7
      <4> QED
        BY <2>1, <4>8
    <3> QED
      BY <1>1, <3>1, <3>3, <3>4
  <2> QED
    BY <2>2, <2>3
<1>4. \A s, t \in Hashes : Len(s) = Len(t) /\ SeenFirst(s, row.chain) /\ SeenFirst(t, row.chain)
                           => s = t
  BY SeqEqual DEF Hashes, SeenFirst
<1>5. ASSUME NEW k \in 1..Nodes, row.flow[k].mark # "pending"
      PROVE  row.flow[k].hash = f[k]
  <2>1. k \in 1..m /\ k \in 0..Nodes
    BY <1>1, <1>5 DEF RestUnsigned, m
  <2>2. /\ row.flow[k].hash \in Hashes /\ SeenFirst(row.flow[k].hash, row.chain)
        /\ Len(row.flow[k].hash) = k
    BY <1>1, <2>1 DEF AsChained, FlowNode, m
  <2>3. f[k] \in Hashes /\ SeenFirst(f[k], row.chain) /\ Len(f[k]) = k
    BY <1>1, <1>3, <2>1
  <2> QED
    BY <1>4, <2>2, <2>3
<1>6. f[Nodes] = row.chain
  <2>1. f[Nodes] \in Hashes /\ SeenFirst(f[Nodes], row.chain) /\ Len(f[Nodes]) = Len(row.chain)
    BY <1>1, <1>3 DEF m
  <2>2. SeenFirst(row.chain, row.chain)
    BY <1>1 DEF SeenFirst, Hashes
  <2> QED
    BY <1>1, <1>4, <2>1, <2>2
<1> QED
  BY <1>5, <1>6 DEF ChainOk, f

\* ... and one somebody touched does not.
LEMMA TouchedFails ==
  ASSUME NEW row \in SignRow, InOrder(row.chain), Tampered(row)
  PROVE  ~ ChainOk(row)
<1> DEFINE f == Recomputed(row)
<1>1. /\ Nodes \in Nat /\ Nodes >= 1 /\ row.chain \in Hashes
      /\ \A k \in 1..Nodes : row.flow[k] \in FlowNode
  BY SignoffAssumption DEF SignRow
<1>2. f[0] = Genesis /\ \A k \in 1..Nodes :
          f[k] = IF row.flow[k].mark = "pending" THEN f[k - 1]
                 ELSE NodeHash(f[k - 1], k, row.flow[k].at)
  BY RecomputedIsChain
<1>3. PICK c \in 1..Len(row.chain) : row.flow[c].mark = "pending" \/ row.flow[c].at = 0
  BY DEF Tampered
<1>4. c \in 1..Nodes /\ row.chain[c][1] = c /\ row.chain[c][2] >= 1
  BY <1>1, <1>3 DEF InOrder, Hashes
<1> DEFINE good(n) ==
             /\ f[n] \in Hashes /\ Len(f[n]) <= n
             /\ n >= c => /\ row.flow[c].mark = "pending" => Len(f[n]) <= n - 1
                          /\ Len(f[n]) >= c => ~(f[n][c][1] = c /\ f[n][c][2] >= 1)
           T == {k \in 0..Nodes : ~ good(k)}
<1> HIDE DEF f
<1>5. \A n \in 0..Nodes : good(n)
  <2> SUFFICES ASSUME T # {} PROVE FALSE
    OBVIOUS
  <2>1. PICK n \in T : \A k \in T : n <= k
    <3>1. T \subseteq Nat
      BY <1>1
    <3> QED
      BY <3>1, LeastElement
  <2>2. CASE n = 0
    <3>1. good(0)
      BY <1>2, <1>4 DEF Genesis, Hashes
    <3> QED
      BY <2>1, <2>2, <3>1
  <2>3. CASE n # 0
    <3>1. n \in 1..Nodes /\ n - 1 \in 0..Nodes /\ n - 1 \notin T
      BY <1>1, <2>1, <2>3
    <3>2. good(n - 1)
      BY <3>1
    <3>3. CASE row.flow[n].mark = "pending"
      <4>1. f[n] = f[n - 1]
        BY <1>2, <3>1, <3>3
      <4>2. f[n] \in Hashes /\ Len(f[n]) <= n - 1 /\ Len(f[n]) \in Nat
        BY <3>1, <3>2, <4>1 DEF Hashes
      <4>3. CASE n = c
        BY <2>1, <3>1, <4>2, <4>3
      <4>4. CASE n # c
        <5>1. n >= c => n - 1 >= c
          BY <1>4, <3>1, <4>4
        <5> QED
          BY <2>1, <3>1, <3>2, <4>1, <4>2, <5>1
      <4> QED
        BY <4>3, <4>4
    <3>4. CASE row.flow[n].mark # "pending"
      <4>1. f[n] = NodeHash(f[n - 1], n, row.flow[n].at) /\ row.flow[n].at \in 0..MaxStamps
        BY <1>1, <1>2, <3>1, <3>4 DEF FlowNode
      <4>2. f[n - 1] \in Hashes /\ Len(f[n - 1]) <= n - 1 /\ Len(f[n - 1]) \in Nat
        BY <3>1, <3>2 DEF Hashes
      <4>3. /\ f[n] \in Hashes /\ Len(f[n]) = Len(f[n - 1]) + 1
            /\ f[n][Len(f[n])] = <<n, row.flow[n].at>>
            /\ \A i \in 1..Len(f[n - 1]) : f[n][i] = f[n - 1][i]
        <5> DEFINE l == Len(f[n - 1]) + 1
        <5>1. l = Len(f[n - 1]) + 1
          OBVIOUS
        <5> HIDE DEF l
        <5>2. /\ f[n] \in Hashes /\ Len(f[n]) = l /\ f[n][l] = <<n, row.flow[n].at>>
              /\ \A i \in 1..Len(f[n - 1]) : f[n][i] = f[n - 1][i]
          <6>1. f[n] \in Hashes /\ Len(f[n]) = l
            BY ONLY <3>1, <4>1, <4>2, <5>1 DEF NodeHash, Hashes
          <6>2. f[n][l] = <<n, row.flow[n].at>>
            BY ONLY <3>1, <4>1, <4>2, <5>1 DEF NodeHash, Hashes
          <6>3. \A i \in 1..Len(f[n - 1]) : f[n][i] = f[n - 1][i]
            BY ONLY <3>1, <4>1, <4>2, <5>1 DEF NodeHash, Hashes
          <6> QED
            BY <6>1, <6>2, <6>3
        <5> QED
          BY <5>1, <5>2
      <4>4. CASE n < c
        BY <1>4, <2>1, <3>1, <4>2, <4>3, <4>4
      <4>5. CASE n = c
        <5>1. row.flow[n].at = 0
          BY <1>3, <3>4, <4>5
        <5>2. Len(f[n]) >= c => f[n][c] = <<n, 0>>
          BY <1>4, <3>1, <4>2, <4>3, <4>5, <5>1
        <5>3. Len(f[n]) >= c => f[n][c][2] = 0
          BY <5>2
        <5> QED
          BY <2>1, <3>1, <3>4, <4>2, <4>3, <4>5, <5>3
      <4>6. CASE n > c
        <5>1. /\ row.flow[c].mark = "pending" => Len(f[n - 1]) <= n - 2
              /\ Len(f[n - 1]) >= c => ~(f[n - 1][c][1] = c /\ f[n - 1][c][2] >= 1)
          BY <1>4, <3>1, <3>2, <4>6
        <5>2. CASE Len(f[n - 1]) >= c
          <6>1. f[n][c] = f[n - 1][c]
            BY <1>4, <4>2, <4>3, <5>2
          <6> QED
            BY <2>1, <3>1, <4>2, <4>3, <5>1, <5>2, <6>1
        <5>3. CASE Len(f[n - 1]) < c
          <6>1. Len(f[n]) >= c => f[n][c] = <<n, row.flow[n].at>>
            BY <1>4, <4>2, <4>3, <5>3
          <6>2. Len(f[n]) >= c => f[n][c][1] = n
            BY <6>1
          <6> QED
            BY <1>4, <2>1, <3>1, <4>2, <4>3, <4>6, <5>1, <6>2
        <5> QED
          BY <1>4, <4>2, <5>2, <5>3
      <4> QED
        BY <1>4, <3>1, <4>4, <4>5, <4>6
    <3> QED
      BY <3>3, <3>4
  <2> QED
    BY <2>2, <2>3
<1>6. good(Nodes)
  BY <1>1, <1>5
<1>7. f[Nodes] # row.chain
  BY <1>1, <1>3, <1>4, <1>6 DEF Hashes
<1> QED
  BY <1>7 DEF ChainOk, f

\* What the proof needs to know of the types.
SignTypes ==
    /\ signoff \in SignRow /\ document \in 0..MaxDocEdits
    /\ signoffPc \in [SignoffRequests -> {"idle", "loaded", "committed"}]
    /\ signoffOp \in [SignoffRequests -> SignoffOps]
    /\ signoffActor \in [SignoffRequests -> People]
    /\ signoffView \in [SignoffRequests -> SignRow]
    /\ signoffDoc \in [SignoffRequests -> 0..MaxDocEdits]
    /\ told \subseteq People /\ stamp \in 0..MaxStamps /\ submits \in Nat
    /\ strayed \in BOOLEAN /\ signoffFaults \in 0..SignoffMaxFaults

Deciding(r) == signoffPc[r] = "loaded" /\ signoffOp[r] \in {"sign", "reject"}

\* What a request found: a draft nobody has touched, the node of its signer, or a flow that
\* has not ended.
FoundInv ==
    /\ signoff.status = "draft" => signoff = NewSignoff /\ submits = 0
    /\ \A r \in SignoffRequests : signoffPc[r] = "loaded" =>
          /\ signoffOp[r] = "submit" => signoffView[r] = NewSignoff
          /\ signoffOp[r] = "cancel" => signoffView[r].status \notin Final
          /\ signoffOp[r] \in {"sign", "reject"} =>
                /\ signoffView[r].status = "pending" /\ signoff.status # "draft"
                /\ signoffView[r].seq = signoffActor[r] /\ signoffActor[r] # 0

\* One person has one request under way.
OneEach ==
    ~Repeats => \A r, q \in SignoffRequests :
        signoffPc[r] = "loaded" /\ signoffPc[q] = "loaded"
            /\ signoffActor[r] = signoffActor[q] => r = q

\* The chain is as long as the flow has come, whatever was cancelled; the nodes are as they
\* were signed, or somebody was at one; and who is about to sign sees the flow as it is.
FlowInOrder ==
    /\ InOrder(signoff.chain) /\ RestUnsigned(signoff)
    /\ submits = 0 => /\ signoff.status \in {"draft", "cancelled"} /\ signoff.seq = 0
                      /\ signoff.chain = Genesis
    /\ submits # 0 => /\ signoff.seq \in 1..Nodes
                      /\ \/ Len(signoff.chain) = signoff.seq - 1
                         \/ Len(signoff.chain) = signoff.seq /\ signoff.status \in Final
    /\ ~strayed => AsChained(signoff)
    /\ strayed => Tampered(signoff)
    /\ signoff.status \in {"signed", "rejected"} => Len(signoff.chain) = signoff.seq

\* Nobody before the current node has not signed.
SignedInOrder ==
    ~strayed => /\ \A k \in 1..Nodes : k < signoff.seq => signoff.flow[k].mark = "signed"
                /\ signoff.status = "signed" =>
                      \A k \in 1..Nodes : signoff.flow[k].mark = "signed"

\* Who is about to sign or reject sees the flow and the chain as they are.
SignersSeeAll ==
    \A r \in SignoffRequests : Deciding(r) =>
        /\ submits # 0 /\ signoff.seq = signoffView[r].seq
        /\ signoffView[r].flow = signoff.flow /\ signoffView[r].chain = signoff.chain
        /\ Len(signoff.chain) = signoff.seq - 1

\* Whoever the flow waits for was told, or a request is about to tell.
ToldInv ==
    signoffFaults = 0 /\ signoff.status = "pending" =>
        \/ signoff.seq \in told
        \/ \E r \in SignoffRequests :
              signoffPc[r] = "committed" /\ signoffOp[r] \in {"submit", "sign"}

Orderly == submits <= 1 /\ ~Repeats

SignInv ==
    /\ SignTypes /\ FoundInv /\ OneEach /\ ToldInv
    /\ Orderly => FlowInOrder /\ SignedInOrder /\ SignersSeeAll

\* A request writes the columns it changed.
LEMMA FlushedSign ==
  ASSUME NEW now \in SignRow, NEW read \in SignRow, NEW new \in SignRow
  PROVE  LET row == Flushed(now, read, new) IN
         /\ row \in SignRow
         /\ row.status = IF new.status = read.status THEN now.status ELSE new.status
         /\ row.seq = IF new.seq = read.seq THEN now.seq ELSE new.seq
         /\ row.flow = IF new.flow = read.flow THEN now.flow ELSE new.flow
         /\ row.chain = IF new.chain = read.chain THEN now.chain ELSE new.chain
BY DEF Flushed, SignRow

\* The row of a draft.
LEMMA DraftRow ==
  /\ NewSignoff \in SignRow /\ NewSignoff.status = "draft" /\ NewSignoff.seq = 0
  /\ NewSignoff.chain = Genesis /\ Len(Genesis) = 0
  /\ \A k \in 1..Nodes : NewSignoff.flow[k] = Unsigned
  /\ Unsigned \in FlowNode /\ Unsigned.mark = "pending"
<1>1. Genesis \in Hashes /\ Len(Genesis) = 0
  BY DEF Genesis, Hashes
<1>2. Unsigned \in FlowNode /\ Unsigned.mark = "pending"
  BY <1>1, SignoffAssumption DEF Unsigned, FlowNode
<1>3. 0 \in 0..Nodes /\ 0 \in 0..MaxDocEdits
  BY SignoffAssumption
<1>4. NewSignoff \in SignRow
  <2> HIDE DEF Unsigned
  <2>1. [k \in 1..Nodes |-> Unsigned] \in [1..Nodes -> FlowNode]
    BY <1>2
  <2> QED
    BY <1>1, <1>3, <2>1 DEF NewSignoff, SignRow
<1> QED
  BY <1>1, <1>2, <1>4 DEF NewSignoff

\* A signature marks the signer's node and is chained to the one before.
LEMMA MarkedRow ==
  ASSUME NEW row \in SignRow, row.seq # 0, NEW mark \in {"signed", "rejected"},
         NEW at \in 1..MaxStamps
  PROVE  LET new == Marked(row, mark, at) IN
         /\ new \in SignRow /\ new.status = row.status /\ new.seq = row.seq
         /\ new.chain = NodeHash(row.chain, row.seq, at)
         /\ new.flow = [row.flow EXCEPT ![row.seq] =
                           [mark |-> mark, at |-> at, hash |-> NodeHash(row.chain, row.seq, at)]]
<1> DEFINE hash == NodeHash(row.chain, row.seq, at)
           node == [mark |-> mark, at |-> at, hash |-> hash]
<1>1. row.seq \in 1..Nodes /\ at \in 0..MaxStamps /\ row.chain \in Hashes
  BY SignoffAssumption DEF SignRow
<1>2. hash \in Hashes
  BY <1>1 DEF NodeHash, Hashes
<1> HIDE DEF hash
<1>3. node \in FlowNode
  BY <1>1, <1>2 DEF FlowNode
<1> HIDE DEF node
<1>4. Marked(row, mark, at) = [row EXCEPT !.flow[row.seq] = node, !.chain = hash]
  BY DEF Marked, hash, node
<1>5. [row.flow EXCEPT ![row.seq] = node] \in [1..Nodes -> FlowNode]
  BY <1>3 DEF SignRow
<1>6. Marked(row, mark, at) =
         [row EXCEPT !.flow = [row.flow EXCEPT ![row.seq] = node], !.chain = hash]
  BY <1>4 DEF SignRow
<1>7. /\ Marked(row, mark, at) \in SignRow /\ Marked(row, mark, at).status = row.status
      /\ Marked(row, mark, at).seq = row.seq /\ Marked(row, mark, at).chain = hash
      /\ Marked(row, mark, at).flow = [row.flow EXCEPT ![row.seq] = node]
  BY <1>2, <1>5, <1>6 DEF SignRow
<1> QED
  BY <1>7 DEF hash, node

\* At the start the invariant holds.
LEMMA SignStart == SignoffInit => SignInv
<1> SUFFICES ASSUME SignoffInit PROVE SignInv
  OBVIOUS
<1> USE DEF SignoffInit
<1>1. SignTypes
  <2>1. "submit" \in SignoffOps /\ 0 \in People /\ 0 \in 0..MaxDocEdits /\ 0 \in 0..MaxStamps
        /\ 0 \in 0..SignoffMaxFaults
    BY SignoffAssumption DEF SignoffOps, People
  <2> QED
    BY <2>1, DraftRow DEF SignTypes
<1>2. FoundInv /\ OneEach /\ ToldInv
  BY DraftRow DEF FoundInv, OneEach, ToldInv
<1>3. FlowInOrder
  <2>1. InOrder(signoff.chain) /\ AsChained(signoff)
    BY DraftRow, SignoffAssumption DEF InOrder, AsChained
  <2>2. RestUnsigned(signoff)
    BY DraftRow DEF RestUnsigned
  <2> QED
    BY <2>1, <2>2, DraftRow DEF FlowInOrder
<1>4. SignedInOrder /\ SignersSeeAll
  BY DraftRow, SignoffAssumption DEF SignedInOrder, SignersSeeAll, Deciding
<1> QED
  BY <1>1, <1>2, <1>3, <1>4 DEF SignInv

\* What a commit does to the rest of the state.
LEMMA SaveTyped ==
  ASSUME SignInv, NEW r \in SignoffRequests, signoffPc[r] = "loaded", NEW new \in SignRow,
         SaveSignoff(r, new), stamp' \in 0..MaxStamps, submits' \in Nat
  PROVE  /\ SignTypes' /\ OneEach'
         /\ signoffPc'[r] = "committed"
         /\ \A q \in SignoffRequests \ {r} :
               signoffPc'[q] = signoffPc[q] /\ signoffView'[q] = signoffView[q]
         /\ UNCHANGED <<document, signoffOp, signoffActor, told, strayed, signoffFaults>>
         /\ signoff' = Flushed(signoff, signoffView[r], new)
<1>1. /\ signoff' = Flushed(signoff, signoffView[r], new)
      /\ signoffPc' = [signoffPc EXCEPT ![r] = "committed"]
      /\ signoffView' = [signoffView EXCEPT ![r] = NewSignoff]
      /\ signoffDoc' = [signoffDoc EXCEPT ![r] = 0]
      /\ UNCHANGED <<document, signoffOp, signoffActor, told, strayed, signoffFaults>>
  BY DEF SaveSignoff
<1>2. signoff' \in SignRow
  <2>1. signoff \in SignRow /\ signoffView[r] \in SignRow
    BY DEF SignInv, SignTypes
  <2> QED
    BY <1>1, <2>1, FlushedSign
<1>3. SignTypes'
  <2>1. NewSignoff \in SignRow /\ 0 \in 0..MaxDocEdits
    BY DraftRow, SignoffAssumption
  <2>2. SignTypes
    BY DEF SignInv
  <2> QED
    BY <1>1, <1>2, <2>1, <2>2 DEF SignTypes
<1>4. /\ signoffPc'[r] = "committed"
      /\ \A q \in SignoffRequests \ {r} :
            signoffPc'[q] = signoffPc[q] /\ signoffView'[q] = signoffView[q]
  BY <1>1 DEF SignInv, SignTypes
<1>5. OneEach'
  BY <1>1, <1>4 DEF SignInv, OneEach
<1> QED
  BY <1>1, <1>3, <1>4, <1>5

\* A submission starts the flow.
LEMMA SubmitKeeps ==
  ASSUME SignInv, NEW r \in SignoffRequests, SubmitSignoff(r)
  PROVE  SignInv'
<1> DEFINE new == Submitted(signoffView[r], signoffDoc[r])
<1>1. /\ signoffPc[r] = "loaded" /\ signoffOp[r] = "submit" /\ signoffView[r] = NewSignoff
      /\ submits' = submits + 1 /\ stamp' = stamp /\ SaveSignoff(r, new)
  BY DEF SubmitSignoff, SignInv, FoundInv
<1>2. /\ new \in SignRow /\ new.status = "pending" /\ new.seq = 1
      /\ new.flow = NewSignoff.flow /\ new.chain = Genesis
  <2>1. signoffDoc[r] \in 0..MaxDocEdits /\ 1 \in 0..Nodes
    BY SignoffAssumption DEF SignInv, SignTypes
  <2>2. NewSignoff \in SignRow /\ Genesis \in Hashes
    BY DraftRow DEF Genesis, Hashes
  <2>3. new = [NewSignoff EXCEPT !.status = "pending", !.seq = 1, !.chain = Genesis,
                                 !.fingerprint = signoffDoc[r]]
    BY <1>1 DEF Submitted
  <2> HIDE DEF new
  <2> QED
    BY <2>1, <2>2, <2>3 DEF SignRow
<1>3. signoff \in SignRow /\ stamp \in 0..MaxStamps /\ submits \in Nat
  BY DEF SignInv, SignTypes
<1> HIDE DEF new
<1>4. /\ SignTypes' /\ OneEach' /\ signoffPc'[r] = "committed"
      /\ \A q \in SignoffRequests \ {r} :
            signoffPc'[q] = signoffPc[q] /\ signoffView'[q] = signoffView[q]
      /\ UNCHANGED <<document, signoffOp, signoffActor, told, strayed, signoffFaults>>
      /\ signoff' = Flushed(signoff, NewSignoff, new)
  BY <1>1, <1>2, <1>3, SaveTyped
<1>5. /\ signoff'.status = "pending" /\ signoff'.seq = 1
      /\ signoff'.flow = signoff.flow /\ signoff'.chain = signoff.chain
  BY <1>2, <1>3, <1>4, DraftRow, FlushedSign
<1>6. FoundInv'
  BY <1>4, <1>5 DEF SignInv, FoundInv
<1>7. ToldInv'
  BY <1>1, <1>4 DEF ToldInv
<1>8. ASSUME Orderly' PROVE FlowInOrder' /\ SignedInOrder' /\ SignersSeeAll'
  <2>1. submits = 0 /\ Orderly
    BY <1>1, <1>3, <1>8 DEF Orderly
  <2>2. FlowInOrder /\ SignersSeeAll
    BY <2>1 DEF SignInv
  <2>3. signoff.chain = Genesis /\ Len(Genesis) = 0 /\ ~Tampered(signoff) /\ ~strayed
    <3>1. signoff.chain = Genesis /\ Len(Genesis) = 0
      BY <2>1, <2>2, DraftRow DEF FlowInOrder
    <3>2. ~Tampered(signoff)
      BY <3>1 DEF Tampered
    <3> QED
      BY <2>2, <3>1, <3>2 DEF FlowInOrder
  <2>4. InOrder(signoff'.chain) /\ RestUnsigned(signoff') /\ AsChained(signoff')
    BY <1>5, <2>2, <2>3 DEF FlowInOrder, InOrder, RestUnsigned, AsChained
  <2>5. FlowInOrder'
    <3>1. 1 \in 1..Nodes /\ submits' = 1
      BY <1>1, <2>1, SignoffAssumption
    <3> QED
      BY <1>4, <1>5, <2>3, <2>4, <3>1 DEF FlowInOrder
  <2>6. SignedInOrder'
    BY <1>5, SignoffAssumption DEF SignedInOrder
  <2>7. SignersSeeAll'
    BY <1>4, <2>1, <2>2 DEF SignersSeeAll, Deciding
  <2> QED
    BY <2>5, <2>6, <2>7
<1> QED
  BY <1>4, <1>6, <1>7, <1>8 DEF SignInv

\* A cancellation changes the status alone.
LEMMA CancelKeeps ==
  ASSUME SignInv, NEW r \in SignoffRequests, CancelSignoff(r)
  PROVE  SignInv'
<1> DEFINE new == [signoffView[r] EXCEPT !.status = "cancelled"]
<1>1. /\ signoffPc[r] = "loaded" /\ signoffOp[r] = "cancel"
      /\ signoffView[r].status \notin Final /\ UNCHANGED <<stamp, submits>>
      /\ SaveSignoff(r, new)
  BY DEF CancelSignoff, SignInv, FoundInv
<1>2. signoff \in SignRow /\ stamp \in 0..MaxStamps /\ submits \in Nat /\ signoffView[r] \in SignRow
  BY DEF SignInv, SignTypes
<1>3. /\ new \in SignRow /\ new.status = "cancelled" /\ new.seq = signoffView[r].seq
      /\ new.flow = signoffView[r].flow /\ new.chain = signoffView[r].chain
  BY <1>2 DEF SignRow, Final
<1> HIDE DEF new
<1>4. /\ SignTypes' /\ OneEach' /\ signoffPc'[r] = "committed"
      /\ \A q \in SignoffRequests \ {r} :
            signoffPc'[q] = signoffPc[q] /\ signoffView'[q] = signoffView[q]
      /\ UNCHANGED <<document, signoffOp, signoffActor, told, strayed, signoffFaults>>
      /\ signoff' = Flushed(signoff, signoffView[r], new)
  BY <1>1, <1>2, <1>3, SaveTyped
<1>5. /\ signoff'.status = "cancelled" /\ signoff'.seq = signoff.seq
      /\ signoff'.flow = signoff.flow /\ signoff'.chain = signoff.chain
  <2>1. signoffView[r].status # "cancelled"
    BY <1>1 DEF Final
  <2> QED
    BY <1>2, <1>3, <1>4, <2>1, FlushedSign
<1>6. FoundInv'
  BY <1>4, <1>5 DEF SignInv, FoundInv
<1>7. ToldInv'
  BY <1>5 DEF ToldInv
<1>8. ASSUME Orderly' PROVE FlowInOrder' /\ SignedInOrder' /\ SignersSeeAll'
  <2>1. FlowInOrder /\ SignedInOrder /\ SignersSeeAll
    BY <1>1, <1>8 DEF SignInv, Orderly
  <2>2. /\ InOrder(signoff'.chain) /\ RestUnsigned(signoff')
        /\ ~strayed => AsChained(signoff')
        /\ strayed => Tampered(signoff')
    BY <1>5, <2>1 DEF FlowInOrder, RestUnsigned, AsChained, Tampered
  <2>3. FlowInOrder'
    BY <1>1, <1>4, <1>5, <2>1, <2>2 DEF FlowInOrder, Final
  <2>4. SignedInOrder'
    BY <1>4, <1>5, <2>1 DEF SignedInOrder
  <2>5. SignersSeeAll'
    BY <1>1, <1>4, <1>5, <2>1 DEF SignersSeeAll, Deciding
  <2> QED
    BY <2>3, <2>4, <2>5
<1> QED
  BY <1>4, <1>6, <1>7, <1>8 DEF SignInv

\* How the flow goes on from a row: it ends with a rejection or the last signature.
GoesOn(view, mark, new) ==
    /\ new.status = IF mark = "rejected" THEN "rejected"
                    ELSE IF view.seq >= Nodes THEN "signed" ELSE "pending"
    /\ new.seq = IF mark = "signed" /\ view.seq < Nodes THEN view.seq + 1 ELSE view.seq

\* A signature or a rejection is the next part of the chain.
LEMMA StampKeeps ==
  ASSUME SignInv, NEW r \in SignoffRequests, Deciding(r), stamp < MaxStamps, stamp' = stamp + 1,
         submits' = submits, NEW mark \in {"signed", "rejected"}, NEW new \in SignRow,
         mark = "signed" => signoffOp[r] = "sign",
         SaveSignoff(r, new), GoesOn(signoffView[r], mark, new),
         new.chain = NodeHash(signoffView[r].chain, signoffView[r].seq, stamp + 1),
         new.flow = [signoffView[r].flow EXCEPT ![signoffView[r].seq] =
                        [mark |-> mark, at |-> stamp + 1, hash |-> new.chain]]
  PROVE  SignInv'
<1> DEFINE view == signoffView[r]
<1>1. /\ view.status = "pending" /\ signoff.status # "draft" /\ view \in SignRow
      /\ signoff \in SignRow /\ stamp' \in 0..MaxStamps /\ stamp + 1 \in 1..MaxStamps
      /\ submits \in Nat /\ Nodes \in Nat /\ Nodes >= 1 /\ view.seq \in 1..Nodes
  <2>1. stamp \in 0..MaxStamps /\ MaxStamps \in Nat /\ Nodes \in Nat /\ Nodes >= 1
    BY SignoffAssumption DEF SignInv, SignTypes
  <2>2. view.seq # 0 /\ view \in SignRow
    BY DEF Deciding, SignInv, FoundInv, SignTypes
  <2>3. view.seq \in 1..Nodes
    BY <2>1, <2>2 DEF SignRow
  <2>4. stamp + 1 \in 1..MaxStamps
    BY <2>1
  <2> QED
    BY <2>1, <2>2, <2>3, <2>4 DEF Deciding, SignInv, FoundInv, SignTypes
<1>2. /\ SignTypes' /\ OneEach' /\ signoffPc'[r] = "committed"
      /\ \A q \in SignoffRequests \ {r} :
            signoffPc'[q] = signoffPc[q] /\ signoffView'[q] = signoffView[q]
      /\ UNCHANGED <<document, signoffOp, signoffActor, told, strayed, signoffFaults>>
      /\ signoff' = Flushed(signoff, view, new)
  BY <1>1, SaveTyped DEF Deciding
<1>3. /\ signoff'.status = IF new.status = view.status THEN signoff.status ELSE new.status
      /\ signoff'.seq = IF new.seq = view.seq THEN signoff.seq ELSE new.seq
      /\ signoff'.flow = IF new.flow = view.flow THEN signoff.flow ELSE new.flow
      /\ signoff'.chain = IF new.chain = view.chain THEN signoff.chain ELSE new.chain
  BY <1>1, <1>2, FlushedSign
<1> HIDE DEF view
<1>4. signoff'.status # "draft"
  BY <1>1, <1>3 DEF GoesOn, view
<1>5. FoundInv'
  BY <1>2, <1>4 DEF SignInv, FoundInv
<1>6. ToldInv'
  <2>1. CASE mark = "signed"
    BY <1>2, <2>1 DEF ToldInv
  <2>2. CASE mark = "rejected"
    BY <1>1, <1>3, <2>2 DEF ToldInv, GoesOn, view
  <2> QED
    BY <2>1, <2>2
<1>7. ASSUME Orderly' PROVE FlowInOrder' /\ SignedInOrder' /\ SignersSeeAll'
  <2>1. FlowInOrder /\ SignedInOrder /\ SignersSeeAll /\ ~Repeats
    BY <1>7 DEF SignInv, Orderly
  <2>2. /\ submits # 0 /\ signoff.seq = view.seq /\ view.flow = signoff.flow
        /\ view.chain = signoff.chain /\ Len(signoff.chain) = view.seq - 1
    BY <2>1 DEF SignersSeeAll, view
  <2> DEFINE p == view.seq
             chain == signoff.chain
             node == [mark |-> mark, at |-> stamp + 1, hash |-> new.chain]
  <2>3. /\ signoff'.chain = new.chain /\ new.chain = NodeHash(chain, p, stamp + 1)
        /\ signoff'.seq = new.seq
        /\ signoff'.flow = [signoff.flow EXCEPT ![p] = node]
    BY <1>3, <2>2 DEF view
  <2>4. /\ p \in 1..Nodes /\ chain \in Hashes /\ Len(chain) = p - 1 /\ Len(chain) + 1 = p
        /\ signoff.flow \in [1..Nodes -> FlowNode]
    BY <1>1, <2>2 DEF SignRow
  <2> HIDE DEF p, chain
  <2>5. stamp + 1 \in 0..MaxStamps /\ stamp + 1 >= 1
    BY <1>1
  <2>6. /\ new.chain \in Hashes /\ Len(new.chain) = p
        /\ new.chain[p] = <<p, stamp + 1>>
        /\ \A i \in 1..(p - 1) : new.chain[i] = chain[i]
    <3> DEFINE c == new.chain
               at == stamp + 1
    <3>1. c = NodeHash(chain, p, at) /\ at \in 0..MaxStamps
      BY <2>3, <2>5
    <3> HIDE DEF c, at
    <3>2. c \in Hashes /\ Len(c) = p
      BY ONLY <3>1, <2>4 DEF NodeHash, Hashes
    <3>3. c[p] = <<p, at>>
      BY ONLY <3>1, <2>4 DEF NodeHash, Hashes
    <3>4. \A i \in 1..Len(chain) : c[i] = chain[i]
      BY ONLY <3>1, <2>4 DEF NodeHash, Hashes
    <3> QED
      BY <2>4, <3>2, <3>3, <3>4 DEF c, at
  <2>7. \A k \in 1..Nodes : signoff'.flow[k] = IF k = p THEN node ELSE signoff.flow[k]
    BY <2>3, <2>4
  <2>8. InOrder(signoff'.chain)
    <3> SUFFICES ASSUME NEW k \in 1..p PROVE new.chain[k][1] = k /\ new.chain[k][2] >= 1
      BY <2>3, <2>4, <2>6, SMTT(30) DEF InOrder
    <3>1. CASE k = p
      BY <2>5, <2>6, <3>1
    <3>2. CASE k # p
      <4>1. k \in 1..(p - 1) /\ k \in 1..Len(chain)
        BY <2>4, <3>2
      <4>2. chain[k][1] = k /\ chain[k][2] >= 1
        BY <2>1, <4>1 DEF FlowInOrder, InOrder, chain
      <4> QED
        BY <2>6, <4>1, <4>2
    <3> QED
      BY <3>1, <3>2
  <2>9. RestUnsigned(signoff')
    <3> SUFFICES ASSUME NEW k \in 1..Nodes, k > p PROVE signoff'.flow[k].mark = "pending"
      BY <2>3, <2>6 DEF RestUnsigned
    <3>1. k # p /\ k > Len(chain)
      BY <2>4
    <3> QED
      BY <2>1, <2>7, <3>1 DEF FlowInOrder, RestUnsigned, chain
  <2>10. ASSUME ~strayed' PROVE AsChained(signoff')
    <3> SUFFICES ASSUME NEW k \in 1..p
                 PROVE  /\ signoff'.flow[k].mark # "pending"
                        /\ signoff'.flow[k].at = new.chain[k][2]
                        /\ SeenFirst(signoff'.flow[k].hash, new.chain)
                        /\ Len(signoff'.flow[k].hash) = k
      BY <2>3, <2>6 DEF AsChained
    <3>1. CASE k = p
      <4>1. signoff'.flow[k] = node
        BY <2>4, <2>7, <3>1
      <4>2. SeenFirst(new.chain, new.chain)
        BY <2>6, <2>4 DEF SeenFirst
      <4>3. new.chain[k][2] = stamp + 1
        BY <2>6, <3>1
      <4> QED
        BY <2>6, <3>1, <4>1, <4>2, <4>3
    <3>2. CASE k # p
      <4>1. k \in 1..(p - 1) /\ k \in 1..Len(chain) /\ k \in 1..Nodes
        BY <1>1, <2>4, <3>2
      <4>2. /\ signoff.flow[k].mark # "pending" /\ signoff.flow[k].at = chain[k][2]
            /\ SeenFirst(signoff.flow[k].hash, chain) /\ Len(signoff.flow[k].hash) = k
        BY <1>2, <2>1, <2>10, <4>1 DEF FlowInOrder, AsChained, chain
      <4>3. SeenFirst(signoff.flow[k].hash, new.chain)
        <5>1. Len(signoff.flow[k].hash) <= Len(new.chain)
          BY <2>4, <2>6, <4>1, <4>2
        <5>2. \A i \in 1..k : i \in 1..(p - 1)
          BY <2>4, <4>1
        <5> QED
          BY <2>6, <4>2, <5>1, <5>2 DEF SeenFirst
      <4> QED
        BY <2>6, <2>7, <3>2, <4>1, <4>2, <4>3
    <3> QED
      BY <3>1, <3>2
  <2>11. ASSUME strayed' PROVE Tampered(signoff')
    <3>1. PICK k \in 1..Len(chain) : signoff.flow[k].mark = "pending" \/ signoff.flow[k].at = 0
      BY <1>2, <2>1, <2>11 DEF FlowInOrder, Tampered, chain
    <3>2. k \in 1..p /\ k # p /\ k \in 1..Nodes
      BY <1>1, <2>4, <3>1
    <3> QED
      BY <2>3, <2>6, <2>7, <3>1, <3>2 DEF Tampered
  <2>12. /\ signoff'.status \in {"signed", "rejected"} => signoff'.seq = p
         /\ signoff'.seq \in 1..Nodes
         /\ p = signoff'.seq - 1 \/ (p = signoff'.seq /\ signoff'.status \in {"signed", "rejected"})
         /\ signoff'.status = "signed" => p = Nodes /\ mark = "signed"
         /\ \A k \in 1..Nodes : k < signoff'.seq => k < p \/ (k = p /\ mark = "signed")
    <3>1. signoff.status \notin {"signed", "rejected"}
      BY <2>1, <2>2, <2>4 DEF FlowInOrder, p
    <3>2. /\ new.status = IF mark = "rejected" THEN "rejected"
                          ELSE IF p >= Nodes THEN "signed" ELSE "pending"
          /\ new.seq = IF mark = "signed" /\ p < Nodes THEN p + 1 ELSE p
      BY DEF GoesOn, view, p
    <3>3. signoff'.status = IF new.status = "pending" THEN signoff.status ELSE new.status
      BY <1>1, <1>3
    <3>4. Nodes \in Nat /\ p \in Nat /\ p <= Nodes
      BY <1>1, <2>4
    <3>5. CASE mark = "rejected"
      BY <2>3, <2>4, <3>2, <3>3, <3>4, <3>5
    <3>6. CASE mark = "signed" /\ p >= Nodes
      BY <2>3, <2>4, <3>2, <3>3, <3>4, <3>6
    <3>7. CASE mark = "signed" /\ p < Nodes
      BY <2>3, <2>4, <3>1, <3>2, <3>3, <3>4, <3>7
    <3> QED
      BY <3>4, <3>5, <3>6, <3>7
  <2>13. FlowInOrder'
    BY <2>2, <2>3, <2>6, <2>8, <2>9, <2>10, <2>11, <2>12 DEF FlowInOrder, Final
  <2>14. SignedInOrder'
    <3> SUFFICES ASSUME ~strayed, NEW k \in 1..Nodes, k < signoff'.seq \/ signoff'.status = "signed"
                 PROVE  signoff'.flow[k].mark = "signed"
      BY <1>2 DEF SignedInOrder
    <3>1. k < p \/ (k = p /\ mark = "signed")
      BY <2>4, <2>12
    <3>2. k < p => signoff.flow[k].mark = "signed"
      BY <2>1, <2>2 DEF SignedInOrder, p
    <3> QED
      BY <2>4, <2>7, <3>1, <3>2
  <2>15. SignersSeeAll'
    <3>1. ASSUME NEW q \in SignoffRequests, Deciding(q) PROVE q = r
      <4>1. signoffView[q].seq = signoffActor[q] /\ signoffView[r].seq = signoffActor[r]
        BY <3>1 DEF Deciding, SignInv, FoundInv
      <4>2. signoff.seq = signoffView[q].seq /\ signoff.seq = signoffView[r].seq
        BY <2>1, <3>1 DEF SignersSeeAll
      <4>3. signoffActor[q] = signoffActor[r] /\ OneEach
        BY <4>1, <4>2 DEF SignInv
      <4> QED
        BY <2>1, <3>1, <4>3 DEF OneEach, Deciding
    <3> QED
      BY <1>2, <3>1 DEF SignersSeeAll, Deciding
  <2> QED
    BY <2>13, <2>14, <2>15
<1> QED
  BY <1>2, <1>5, <1>6, <1>7 DEF SignInv

\* A signature or a rejection is a stamp on the node the flow waits for.
LEMMA SignKeeps ==
  ASSUME SignInv, NEW r \in SignoffRequests, Sign(r) \/ Reject(r)
  PROVE  SignInv'
<1> DEFINE view == signoffView[r]
<1>1. /\ Deciding(r) /\ stamp < MaxStamps /\ stamp' = stamp + 1 /\ submits' = submits
      /\ view \in SignRow /\ view.seq # 0 /\ view.status = "pending" /\ stamp + 1 \in 1..MaxStamps
      /\ Nodes \in Nat
  <2>1. Deciding(r) /\ stamp < MaxStamps /\ stamp' = stamp + 1 /\ submits' = submits
    BY DEF Sign, Reject, Deciding
  <2>2. stamp + 1 \in 1..MaxStamps /\ view \in SignRow /\ Nodes \in Nat
    BY <2>1, SignoffAssumption DEF SignInv, SignTypes
  <2> QED
    BY <2>1, <2>2 DEF Deciding, SignInv, FoundInv
<1> HIDE DEF view
<1>2. CASE Sign(r)
  <2> DEFINE marked == Marked(view, "signed", stamp + 1)
             new == PassedOn(marked)
  <2>1. /\ marked \in SignRow /\ marked.status = view.status /\ marked.seq = view.seq
        /\ marked.chain = NodeHash(view.chain, view.seq, stamp + 1)
        /\ marked.flow = [view.flow EXCEPT ![view.seq] =
              [mark |-> "signed", at |-> stamp + 1,
               hash |-> NodeHash(view.chain, view.seq, stamp + 1)]]
    BY <1>1, MarkedRow
  <2>2. signoffOp[r] = "sign" /\ SaveSignoff(r, new)
    BY <1>2 DEF Sign, view
  <2> HIDE DEF marked
  <2>3. /\ new \in SignRow /\ new.flow = marked.flow /\ new.chain = marked.chain
        /\ new.status = IF view.seq >= Nodes THEN "signed" ELSE "pending"
        /\ new.seq = IF view.seq < Nodes THEN view.seq + 1 ELSE view.seq
    <3>1. marked.seq \in 0..Nodes
      BY <2>1 DEF SignRow
    <3>2. CASE view.seq >= Nodes
      <4>1. new = [marked EXCEPT !.status = "signed"]
        BY <2>1, <3>2 DEF PassedOn
      <4> HIDE DEF new
      <4> QED
        BY <1>1, <2>1, <3>1, <3>2, <4>1 DEF SignRow, Final
    <3>3. CASE ~(view.seq >= Nodes)
      <4>1. new = [marked EXCEPT !.seq = marked.seq + 1]
        BY <2>1, <3>3 DEF PassedOn
      <4>2. marked.seq + 1 \in 0..Nodes /\ view.seq < Nodes
        BY <1>1, <2>1, <3>1, <3>3
      <4> HIDE DEF new
      <4> QED
        BY <1>1, <2>1, <3>3, <4>1, <4>2 DEF SignRow
    <3> QED
      BY <3>2, <3>3
  <2> HIDE DEF new
  <2>4. GoesOn(view, "signed", new)
    BY <2>3 DEF GoesOn
  <2> QED
    BY <1>1, <2>1, <2>2, <2>3, <2>4, StampKeeps DEF view
<1>3. CASE Reject(r)
  <2> DEFINE marked == Marked(view, "rejected", stamp + 1)
             new == [marked EXCEPT !.status = "rejected"]
  <2>1. /\ marked \in SignRow /\ marked.status = view.status /\ marked.seq = view.seq
        /\ marked.chain = NodeHash(view.chain, view.seq, stamp + 1)
        /\ marked.flow = [view.flow EXCEPT ![view.seq] =
              [mark |-> "rejected", at |-> stamp + 1,
               hash |-> NodeHash(view.chain, view.seq, stamp + 1)]]
    BY <1>1, MarkedRow
  <2>2. SaveSignoff(r, new)
    BY <1>3 DEF Reject, view
  <2> HIDE DEF marked
  <2>3. /\ new \in SignRow /\ new.flow = marked.flow /\ new.chain = marked.chain
        /\ new.status = "rejected" /\ new.seq = view.seq
    BY <2>1 DEF SignRow, Final
  <2> HIDE DEF new
  <2>4. GoesOn(view, "rejected", new)
    BY <2>3 DEF GoesOn
  <2> QED
    BY <1>1, <2>1, <2>2, <2>3, <2>4, StampKeeps DEF view
<1> QED
  BY <1>2, <1>3

\* A request that loads the row sees it as it is.
LEMMA LoadSignoffKeeps ==
  ASSUME SignInv, NEW r \in SignoffRequests, NEW p \in People, NEW o \in SignoffOps,
         LoadSignoff(r, p, o)
  PROVE  SignInv'
<1>1. /\ signoffPc[r] = "idle" /\ Allowed(p, o)
      /\ Repeats \/ \A q \in SignoffRequests : signoffPc[q] = "loaded" => signoffActor[q] # p
      /\ UNCHANGED <<signoff, document, told, stamp, submits, strayed, signoffFaults>>
  BY DEF LoadSignoff, MayAsk
<1>2. /\ signoffPc'[r] = "loaded" /\ signoffOp'[r] = o /\ signoffActor'[r] = p
      /\ signoffView'[r] = signoff
      /\ \A q \in SignoffRequests \ {r} :
            /\ signoffPc'[q] = signoffPc[q] /\ signoffOp'[q] = signoffOp[q]
            /\ signoffActor'[q] = signoffActor[q] /\ signoffView'[q] = signoffView[q]
  BY DEF LoadSignoff, SignInv, SignTypes
<1>3. SignTypes'
  <2>1. 0 \in 0..MaxDocEdits
    BY SignoffAssumption
  <2>2. SignTypes
    BY DEF SignInv
  <2> QED
    BY <2>1, <2>2 DEF LoadSignoff, SignTypes
<1>4. FoundInv'
  BY <1>1, <1>2 DEF SignInv, FoundInv, Allowed
<1>5. OneEach'
  BY <1>1, <1>2 DEF SignInv, OneEach
<1>6. ToldInv'
  BY <1>1, <1>2 DEF SignInv, ToldInv
<1>7. ASSUME Orderly' PROVE FlowInOrder' /\ SignedInOrder' /\ SignersSeeAll'
  <2>1. FlowInOrder /\ SignedInOrder /\ SignersSeeAll
    BY <1>1, <1>7 DEF SignInv, Orderly
  <2>2. FlowInOrder' /\ SignedInOrder'
    BY <1>1, <2>1 DEF FlowInOrder, SignedInOrder, RestUnsigned, AsChained, Tampered
  <2>3. o \in {"sign", "reject"} => submits # 0 /\ Len(signoff.chain) = signoff.seq - 1
    BY <1>1, <2>1 DEF Allowed, FlowInOrder, Final
  <2>4. SignersSeeAll'
    BY <1>1, <1>2, <2>1, <2>3 DEF SignersSeeAll, Deciding
  <2> QED
    BY <2>2, <2>4
<1> QED
  BY <1>3, <1>4, <1>5, <1>6, <1>7 DEF SignInv

\* Somebody is at a signed node of the stored flow: the chain knows.
LEMMA StrayKeeps ==
  ASSUME SignInv, StrayEdit
  PROVE  SignInv'
<1>1. /\ signoffFaults < SignoffMaxFaults /\ signoffFaults' = signoffFaults + 1 /\ strayed' = TRUE
      /\ \A r \in SignoffRequests : signoffPc[r] # "loaded"
      /\ UNCHANGED <<document, signoffPc, signoffOp, signoffActor, signoffView, signoffDoc,
                     told, stamp, submits>>
  BY DEF StrayEdit
<1>2. PICK k \in 1..Nodes :
         /\ signoff.flow[k].mark # "pending"
         /\ \/ signoff' = [signoff EXCEPT !.flow[k] = Unsigned]
            \/ signoff' = [signoff EXCEPT !.flow[k].at = 0]
  BY DEF StrayEdit
<1>3. signoff \in SignRow /\ signoff.flow \in [1..Nodes -> FlowNode] /\ signoff.flow[k] \in FlowNode
  BY DEF SignInv, SignTypes, SignRow
<1>4. PICK node \in FlowNode :
         /\ signoff' = [signoff EXCEPT !.flow = [signoff.flow EXCEPT ![k] = node]]
         /\ node.mark = "pending" \/ node.at = 0
  <2>1. CASE signoff' = [signoff EXCEPT !.flow[k] = Unsigned]
    BY <1>3, <2>1, DraftRow DEF SignRow
  <2>2. CASE signoff' = [signoff EXCEPT !.flow[k].at = 0]
    <3> DEFINE node == [signoff.flow[k] EXCEPT !.at = 0]
    <3>1. node \in FlowNode /\ node.at = 0
      BY <1>3, SignoffAssumption DEF FlowNode
    <3>2. signoff' = [signoff EXCEPT !.flow = [signoff.flow EXCEPT ![k] = node]]
      BY <1>3, <2>2 DEF SignRow, FlowNode
    <3> HIDE DEF node
    <3> QED
      BY <3>1, <3>2
  <2> QED
    BY <1>2, <2>1, <2>2
<1>5. /\ signoff' \in SignRow /\ signoff'.status = signoff.status /\ signoff'.seq = signoff.seq
      /\ signoff'.chain = signoff.chain
      /\ \A i \in 1..Nodes : signoff'.flow[i] = IF i = k THEN node ELSE signoff.flow[i]
  BY <1>3, <1>4 DEF SignRow
<1>6. SignTypes'
  BY <1>1, <1>5, SignoffAssumption DEF SignInv, SignTypes
<1>7. signoff.status # "draft"
  BY <1>2, DraftRow DEF SignInv, FoundInv
<1>8. FoundInv' /\ OneEach' /\ ToldInv'
  <2>1. signoffFaults' # 0
    BY <1>1 DEF SignInv, SignTypes
  <2> QED
    BY <1>1, <1>5, <1>7, <2>1 DEF FoundInv, OneEach, ToldInv
<1>9. ASSUME Orderly' PROVE FlowInOrder' /\ SignedInOrder' /\ SignersSeeAll'
  <2>1. FlowInOrder
    BY <1>1, <1>9 DEF SignInv, Orderly
  <2>2. k \in 1..Len(signoff.chain)
    BY <1>2, <1>3, <2>1 DEF FlowInOrder, RestUnsigned, SignRow, Hashes
  <2>3. Tampered(signoff')
    BY <1>4, <1>5, <2>2 DEF Tampered
  <2>4. InOrder(signoff'.chain) /\ RestUnsigned(signoff')
    <3>1. InOrder(signoff'.chain)
      BY <1>5, <2>1 DEF FlowInOrder
    <3>2. ~(k > Len(signoff.chain))
      BY <2>2, <1>3 DEF SignRow, Hashes
    <3>3. RestUnsigned(signoff')
      BY <1>5, <2>1, <3>2 DEF FlowInOrder, RestUnsigned
    <3> QED
      BY <3>1, <3>3
  <2>5. FlowInOrder'
    BY <1>1, <1>5, <2>1, <2>3, <2>4 DEF FlowInOrder
  <2> QED
    BY <1>1, <2>5 DEF SignedInOrder, SignersSeeAll, Deciding
<1> QED
  BY <1>6, <1>8, <1>9 DEF SignInv

\* So every step keeps the invariant.
LEMMA SignStep ==
  ASSUME SignInv, [SignoffNext]_signoffVars
  PROVE  SignInv'
<1>1. ASSUME NEW r \in SignoffRequests, NotifySigner(r) PROVE SignInv'
  <2>1. /\ signoffPc[r] = "committed" /\ told' = told \cup Addressee(r)
        /\ signoffPc' = [signoffPc EXCEPT ![r] = "idle"]
        /\ UNCHANGED <<signoff, document, signoffOp, signoffActor, signoffView, signoffDoc, stamp,
                       submits, strayed, signoffFaults>>
    BY <1>1 DEF NotifySigner
  <2>2. /\ signoffPc'[r] = "idle"
        /\ \A q \in SignoffRequests \ {r} : signoffPc'[q] = signoffPc[q]
    BY <2>1 DEF SignInv, SignTypes
  <2>3. Addressee(r) \subseteq People
    <3>1. signoff.seq \in People /\ 0 \in People
      BY SignoffAssumption DEF SignInv, SignTypes, SignRow, People
    <3> QED
      BY <3>1 DEF Addressee
  <2>4. SignTypes'
    BY <2>1, <2>3 DEF SignInv, SignTypes
  <2>5. FoundInv' /\ OneEach'
    BY <2>1, <2>2 DEF SignInv, FoundInv, OneEach
  <2>6. ToldInv'
    <3>1. signoffOp[r] \in {"submit", "sign"} /\ signoff.status = "pending"
            => signoff.seq \in told'
      BY <2>1 DEF Addressee
    <3>2. ToldInv
      BY DEF SignInv
    <3> QED
      BY <2>1, <2>2, <3>1, <3>2 DEF ToldInv
  <2>7. ASSUME Orderly' PROVE FlowInOrder' /\ SignedInOrder' /\ SignersSeeAll'
    <3>1. FlowInOrder /\ SignedInOrder /\ SignersSeeAll
      BY <2>1, <2>7 DEF SignInv, Orderly
    <3> QED
      BY <2>1, <2>2, <3>1 DEF FlowInOrder, SignedInOrder, SignersSeeAll, Deciding, RestUnsigned,
                              AsChained, Tampered
  <2> QED
    BY <2>4, <2>5, <2>6, <2>7 DEF SignInv
<1>2. ASSUME NEW r \in SignoffRequests, SignoffDies(r) PROVE SignInv'
  <2>1. /\ signoffFaults < SignoffMaxFaults /\ signoffFaults' = signoffFaults + 1
        /\ signoffPc' = [signoffPc EXCEPT ![r] = "idle"]
        /\ signoffView' = [signoffView EXCEPT ![r] = NewSignoff]
        /\ signoffDoc' = [signoffDoc EXCEPT ![r] = 0]
        /\ UNCHANGED <<signoff, document, signoffOp, signoffActor, told, stamp, submits, strayed>>
    BY <1>2 DEF SignoffDies
  <2>2. /\ signoffPc'[r] = "idle"
        /\ \A q \in SignoffRequests \ {r} :
              signoffPc'[q] = signoffPc[q] /\ signoffView'[q] = signoffView[q]
    BY <2>1 DEF SignInv, SignTypes
  <2>3. SignTypes'
    <3>1. NewSignoff \in SignRow /\ 0 \in 0..MaxDocEdits
      BY DraftRow, SignoffAssumption
    <3> QED
      BY <2>1, <3>1, SignoffAssumption DEF SignInv, SignTypes
  <2>4. FoundInv' /\ OneEach'
    BY <2>1, <2>2 DEF SignInv, FoundInv, OneEach
  <2>5. ToldInv'
    BY <2>1 DEF SignInv, SignTypes, ToldInv
  <2>6. ASSUME Orderly' PROVE FlowInOrder' /\ SignedInOrder' /\ SignersSeeAll'
    <3>1. FlowInOrder /\ SignedInOrder /\ SignersSeeAll
      BY <2>1, <2>6 DEF SignInv, Orderly
    <3> QED
      BY <2>1, <2>2, <3>1 DEF FlowInOrder, SignedInOrder, SignersSeeAll, Deciding, RestUnsigned,
                              AsChained, Tampered
  <2> QED
    BY <2>3, <2>4, <2>5, <2>6 DEF SignInv
<1>3. CASE EditDocument \/ UNCHANGED signoffVars
  <2>1. /\ document' \in 0..MaxDocEdits
        /\ UNCHANGED <<signoff, signoffPc, signoffOp, signoffActor, signoffView, signoffDoc,
                       told, stamp, submits, strayed, signoffFaults>>
    BY <1>3, SignoffAssumption DEF EditDocument, signoffVars, SignInv, SignTypes
  <2>2. SignTypes'
    BY <2>1 DEF SignInv, SignTypes
  <2>3. FoundInv' /\ OneEach' /\ ToldInv'
    BY <2>1 DEF SignInv, FoundInv, OneEach, ToldInv
  <2>4. Orderly' => FlowInOrder' /\ SignedInOrder' /\ SignersSeeAll'
    BY <2>1 DEF SignInv, Orderly, FlowInOrder, SignedInOrder, SignersSeeAll, Deciding,
                RestUnsigned, AsChained, Tampered
  <2> QED
    BY <2>2, <2>3, <2>4 DEF SignInv
<1> QED
  BY <1>1, <1>2, <1>3, LoadSignoffKeeps, SubmitKeeps, SignKeeps, CancelKeeps, StrayKeeps
     DEF SignoffNext

\* What the invariant says of the sign-off.
LEMMA SignSafe ==
  SignInv => SignedByAll /\ ChainIntact /\ TamperEvident /\ PendingSignerTold
<1> SUFFICES ASSUME SignInv PROVE SignedByAll /\ ChainIntact /\ TamperEvident /\ PendingSignerTold
  OBVIOUS
<1>1. signoff \in SignRow /\ submits \in Nat
  BY DEF SignInv, SignTypes
<1>2. Orderly => FlowInOrder /\ SignedInOrder
  BY DEF SignInv
<1>3. SignedByAll
  BY <1>2 DEF SignedByAll, SignedInOrder, SignedNodes, Orderly
<1>4. ChainIntact
  BY <1>1, <1>2, UntouchedPasses DEF ChainIntact, FlowInOrder, Orderly
<1>5. TamperEvident
  BY <1>1, <1>2, TouchedFails DEF TamperEvident, FlowInOrder, Orderly, Valid
<1>6. PendingSignerTold
  BY DEF SignInv, ToldInv, PendingSignerTold
<1> QED
  BY <1>3, <1>4, <1>5, <1>6

\* Only a cancellation replaces a verdict.
LEMMA VerdictHolds ==
  ASSUME SignInv, [SignoffNext]_signoffVars
  PROVE  VerdictStands
<1> SUFFICES ASSUME signoff.status \in {"signed", "rejected"}, signoff'.status # signoff.status,
                    ~(submits' > 1), ~Repeats
             PROVE  signoff'.status = "cancelled"
  <2>1. Repeats \in BOOLEAN
    BY SignoffAssumption
  <2> QED
    BY <2>1 DEF VerdictStands
<1>1. /\ signoff \in SignRow /\ submits \in Nat
      /\ \A r \in SignoffRequests : signoffView[r] \in SignRow
  BY DEF SignInv, SignTypes
<1>2. submits <= 1 => /\ submits # 0
                      /\ \A r \in SignoffRequests : ~Deciding(r)
  <2> SUFFICES ASSUME submits <= 1 PROVE submits # 0 /\ \A r \in SignoffRequests : ~Deciding(r)
    OBVIOUS
  <2>1. FlowInOrder /\ SignersSeeAll
    BY DEF SignInv, Orderly
  <2>2. submits # 0 /\ Len(signoff.chain) = signoff.seq
    BY <2>1 DEF FlowInOrder
  <2>3. signoff.seq \in Nat
    BY <1>1, SignoffAssumption DEF SignRow
  <2> QED
    BY <2>1, <2>2, <2>3 DEF SignersSeeAll
<1>3. ASSUME NEW r \in SignoffRequests, SubmitSignoff(r) PROVE FALSE
  BY <1>1, <1>2, <1>3 DEF SubmitSignoff
<1>4. ASSUME NEW r \in SignoffRequests, Sign(r) \/ Reject(r) PROVE FALSE
  BY <1>1, <1>2, <1>4 DEF Sign, Reject, Deciding
<1>5. ASSUME NEW r \in SignoffRequests, CancelSignoff(r) PROVE signoff'.status = "cancelled"
  <2> DEFINE new == [signoffView[r] EXCEPT !.status = "cancelled"]
  <2>1. /\ signoff' = Flushed(signoff, signoffView[r], new)
        /\ signoffView[r].status # "cancelled"
    BY <1>5 DEF CancelSignoff, SaveSignoff, SignInv, FoundInv, Final
  <2>2. new \in SignRow /\ new.status = "cancelled"
    BY <1>1 DEF SignRow, Final
  <2> HIDE DEF new
  <2> QED
    BY <1>1, <2>1, <2>2, FlushedSign
<1>6. ASSUME NEW r \in SignoffRequests, NotifySigner(r) \/ SignoffDies(r) PROVE FALSE
  BY <1>6 DEF NotifySigner, SignoffDies
<1>7. ASSUME NEW r \in SignoffRequests, NEW p \in People, NEW o \in SignoffOps,
             LoadSignoff(r, p, o)
      PROVE  FALSE
  BY <1>7 DEF LoadSignoff
<1>8. CASE EditDocument \/ UNCHANGED signoffVars
  BY <1>8 DEF EditDocument, signoffVars
<1>9. CASE StrayEdit
  <2>1. PICK k \in 1..Nodes : \/ signoff' = [signoff EXCEPT !.flow[k] = Unsigned]
                              \/ signoff' = [signoff EXCEPT !.flow[k].at = 0]
    BY <1>9 DEF StrayEdit
  <2>2. signoff'.status = signoff.status
    BY <1>1, <2>1 DEF SignRow
  <2> QED
    BY <2>2
<1> QED
  BY <1>3, <1>4, <1>5, <1>6, <1>7, <1>8, <1>9 DEF SignoffNext

\* For any number of nodes, requests and faults, of the sign-off of a document: while it was
\* submitted once and nobody has two requests under way, a signed flow has every signature,
\* verify_signoff passes it if nobody was at the row and fails it if somebody was, and
\* nothing but a cancellation replaces a verdict; and whoever it waits for was told.
THEOREM SignoffsKept == SignoffSpec => SignoffKept
<1>1. SignInv /\ [SignoffNext]_signoffVars
        => (SignedByAll /\ ChainIntact /\ TamperEvident /\ PendingSignerTold)' /\ VerdictStands
  <2> SUFFICES ASSUME SignInv, [SignoffNext]_signoffVars
               PROVE  (SignedByAll /\ ChainIntact /\ TamperEvident /\ PendingSignerTold)'
                      /\ VerdictStands
    OBVIOUS
  <2>1. SignInv'
    BY SignStep
  <2>2. (SignedByAll /\ ChainIntact /\ TamperEvident /\ PendingSignerTold)'
    BY <2>1, SignSafe, PTL
  <2> QED
    BY <2>2, VerdictHolds
<1> QED
  BY <1>1, SignStart, SignStep, PTL DEF SignoffSpec, SignoffKept

-----------------------------------------------------------------------------
(* Annotations.                                                            *)

NoteRecord == [present : BOOLEAN, resolved : BOOLEAN, replies : Seq(Annotators), version : Nat]

\* What the proof needs to know of the types.
NoteTypes ==
    /\ note \in NoteRecord /\ issues \in Issues
    /\ notePc \in [Annotators -> {"idle", "loaded"}]
    /\ noteOp \in [Annotators -> NoteOps]
    /\ noteView \in [Annotators -> NoteRecord]
    /\ answered \in Seq(Annotators)

Replying(r) == notePc[r] = "loaded" /\ noteOp[r] = "reply"

\* Who is about to reply has seen every reply, and is alone.
ReplierSeesAll ==
    ~RepliesOverlap => \A r \in Annotators : Replying(r) =>
        /\ noteView[r].replies = note.replies
        /\ \A q \in Annotators : Replying(q) => q = r

NoteInv == NoteTypes /\ ReplierSeesAll /\ RepliesKept /\ OneIssuePerVersion

\* The row of a new annotation.
LEMMA FreshNote == NewNote \in NoteRecord /\ NewNote.replies = <<>>
BY DEF NewNote, NoteRecord

\* At the start the invariant holds.
LEMMA NoteStart == AnnotationInit => NoteInv
<1> SUFFICES ASSUME AnnotationInit PROVE NoteInv
  OBVIOUS
<1> USE DEF AnnotationInit
<1>1. NoteTypes
  BY FreshNote, AnnotationAssumption DEF NoteTypes, Issues, NoIssue, NoteOps
<1>2. ReplierSeesAll
  BY DEF ReplierSeesAll, Replying
<1>3. RepliesKept
  BY FreshNote DEF RepliesKept
<1>4. OneIssuePerVersion
  BY DEF OneIssuePerVersion, NoIssue
<1> QED
  BY <1>1, <1>2, <1>3, <1>4 DEF NoteInv

\* An update of the row: a reply is added to those the request saw, and nothing else
\* touches them.
LEMMA ReplyAdded ==
  ASSUME NoteTypes, NEW r \in Annotators, noteOp[r] \in {"reply", "resolve", "reopen"},
         NEW v \in Nat
  PROVE  LET new == [Written(note, noteView[r], Changed(r)) EXCEPT !.version = v] IN
         /\ new \in NoteRecord
         /\ noteOp[r] = "reply" => /\ Changed(r) # noteView[r]
                                   /\ new.replies = Append(noteView[r].replies, r)
         /\ noteOp[r] # "reply" => new.replies = note.replies
<1> DEFINE view == noteView[r]
           more == Append(view.replies, r)
<1>1. view \in NoteRecord /\ note \in NoteRecord
  BY DEF NoteTypes
<1>2. more \in Seq(Annotators) /\ more # view.replies
  <2>1. view.replies \in Seq(Annotators)
    BY <1>1 DEF NoteRecord
  <2>2. more \in Seq(Annotators) /\ Len(more) = Len(view.replies) + 1 /\ Len(view.replies) \in Nat
    BY <2>1
  <2> QED
    BY <2>2
<1>3. CASE noteOp[r] = "reply"
  <2>1. Changed(r) = [view EXCEPT !.replies = more]
    BY <1>3 DEF Changed
  <2> HIDE DEF view, more
  <2>2. Changed(r) \in NoteRecord /\ Changed(r).replies = more
    BY <1>1, <1>2, <2>1 DEF NoteRecord
  <2> QED
    BY <1>1, <1>2, <1>3, <2>1, <2>2 DEF Written, Flushed, NoteRecord, view, more
<1>4. CASE noteOp[r] # "reply"
  <2>1. PICK b \in BOOLEAN : Changed(r) = [view EXCEPT !.resolved = b]
    BY <1>4 DEF Changed
  <2> HIDE DEF view, more
  <2>2. Changed(r) \in NoteRecord /\ Changed(r).replies = view.replies
    BY <1>1, <2>1 DEF NoteRecord
  <2> QED
    BY <1>1, <1>4, <2>2 DEF Written, Flushed, NoteRecord, view
<1> QED
  BY <1>3, <1>4

\* Every step keeps the invariant.
LEMMA NoteStep ==
  ASSUME NoteInv, [AnnotationNext]_noteVars
  PROVE  NoteInv'
<1>1. /\ NoteTypes /\ ReplierSeesAll /\ RepliesKept /\ OneIssuePerVersion
  BY DEF NoteInv
<1>2. ASSUME NEW r \in Annotators, Done(r)
      PROVE  /\ notePc' \in [Annotators -> {"idle", "loaded"}]
             /\ noteOp' \in [Annotators -> NoteOps]
             /\ noteView' \in [Annotators -> NoteRecord]
             /\ ~ Replying(r)'
             /\ \A q \in Annotators \ {r} :
                   Replying(q)' = Replying(q) /\ noteView'[q] = noteView[q]
  BY <1>1, <1>2, FreshNote DEF Done, NoteTypes, Replying
<1>3. ASSUME NEW r \in Annotators, NEW o \in NoteOps, LoadNote(r, o) PROVE NoteInv'
  <2>1. /\ notePc' = [notePc EXCEPT ![r] = "loaded"] /\ noteOp' = [noteOp EXCEPT ![r] = o]
        /\ noteView' = [noteView EXCEPT ![r] = note]
        /\ o = "reply" => RepliesOverlap \/ \A q \in Annotators : ~ Replying(q)
        /\ UNCHANGED <<note, issues, answered>>
    BY <1>3 DEF LoadNote, Replying
  <2>2. NoteTypes'
    BY <1>1, <2>1 DEF NoteTypes
  <2>3. /\ Replying(r)' => o = "reply"
        /\ noteView'[r] = note
        /\ \A q \in Annotators \ {r} :
              Replying(q)' = Replying(q) /\ noteView'[q] = noteView[q]
    BY <1>1, <2>1 DEF NoteTypes, Replying
  <2>4. ReplierSeesAll'
    <3>1. notePc[r] = "idle"
      BY <1>3 DEF LoadNote
    <3>2. ~ Replying(r)
      BY <3>1 DEF Replying
    <3> QED
      BY <1>1, <2>1, <2>3, <3>2 DEF ReplierSeesAll
  <2>5. RepliesKept' /\ OneIssuePerVersion'
    BY <1>1, <2>1 DEF RepliesKept, OneIssuePerVersion
  <2> QED
    BY <2>2, <2>4, <2>5 DEF NoteInv
<1>4. ASSUME NEW r \in Annotators, ChangeNote(r) PROVE NoteInv'
  <2>1. /\ notePc[r] = "loaded" /\ noteOp[r] \in {"reply", "resolve", "reopen"}
        /\ Done(r) /\ issues' = issues
        /\ answered' = IF note.present /\ noteOp[r] = "reply" THEN Append(answered, r)
                       ELSE answered
    BY <1>4 DEF ChangeNote
  <2>2. /\ note' \in NoteRecord
        /\ note' = note
           \/ (noteOp[r] = "reply" => note'.replies = Append(noteView[r].replies, r))
        /\ noteOp[r] # "reply" => note'.replies = note.replies
        /\ noteOp[r] = "reply" =>
              IF note.present THEN note'.replies = Append(noteView[r].replies, r)
              ELSE note' = note
    <3>1. CASE note.present /\ Changed(r) # noteView[r]
      <4>1. PICK v \in {note.version, note.version + 1} :
               note' = [Written(note, noteView[r], Changed(r)) EXCEPT !.version = v]
        BY <1>4, <3>1 DEF ChangeNote
      <4>2. v \in Nat
        BY <1>1, <4>1 DEF NoteTypes, NoteRecord
      <4> QED
        BY <1>1, <2>1, <3>1, <4>1, <4>2, ReplyAdded
    <3>2. CASE ~(note.present /\ Changed(r) # noteView[r])
      <4>1. note' = note
        BY <1>4, <3>2 DEF ChangeNote
      <4>2. noteOp[r] = "reply" => ~ note.present
        BY <1>1, <2>1, <3>2, ReplyAdded, 0 \in Nat
      <4> QED
        BY <1>1, <4>1, <4>2 DEF NoteTypes
    <3> QED
      BY <3>1, <3>2
  <2>3. NoteTypes'
    <3>1. answered' \in Seq(Annotators)
      BY <1>1, <2>1 DEF NoteTypes
    <3> QED
      BY <1>1, <1>2, <2>1, <2>2, <3>1 DEF NoteTypes
  <2>4. ASSUME ~RepliesOverlap, NEW q \in Annotators \ {r}, Replying(q)
        PROVE  noteView[q].replies = note.replies /\ note'.replies = note.replies
    <3>1. ~ Replying(r)
      BY <1>1, <2>4 DEF ReplierSeesAll
    <3> QED
      BY <1>1, <2>1, <2>2, <2>4, <3>1 DEF ReplierSeesAll, Replying
  <2>5. ReplierSeesAll'
    BY <1>1, <1>2, <2>1, <2>4 DEF ReplierSeesAll
  <2>6. RepliesKept'
    <3> SUFFICES ASSUME ~RepliesOverlap PROVE note'.replies = answered'
      BY DEF RepliesKept
    <3>1. note.replies = answered
      BY <1>1 DEF RepliesKept
    <3>2. noteOp[r] = "reply" => noteView[r].replies = note.replies
      BY <1>1, <2>1 DEF ReplierSeesAll, Replying
    <3> QED
      BY <2>1, <2>2, <3>1, <3>2
  <2>7. OneIssuePerVersion'
    BY <1>1, <2>1 DEF OneIssuePerVersion
  <2> QED
    BY <2>3, <2>5, <2>6, <2>7 DEF NoteInv
<1>5. ASSUME NEW r \in Annotators, DeleteNote(r) PROVE NoteInv'
  <2>1. /\ note' = [note EXCEPT !.present = FALSE] /\ Done(r)
        /\ UNCHANGED <<issues, answered>>
    BY <1>5 DEF DeleteNote
  <2>2. note' \in NoteRecord /\ note'.replies = note.replies
    BY <1>1, <2>1 DEF NoteTypes, NoteRecord
  <2>3. NoteTypes'
    BY <1>1, <1>2, <2>1, <2>2 DEF NoteTypes
  <2>4. ReplierSeesAll'
    BY <1>1, <1>2, <2>1, <2>2 DEF ReplierSeesAll
  <2>5. RepliesKept' /\ OneIssuePerVersion'
    BY <1>1, <2>1, <2>2 DEF RepliesKept, OneIssuePerVersion
  <2> QED
    BY <2>3, <2>4, <2>5 DEF NoteInv
<1>6. ASSUME NEW r \in Annotators, ConvertNote(r) PROVE NoteInv'
  <2> DEFINE version == noteView[r].version
  <2>1. /\ Done(r) /\ UNCHANGED <<note, answered>>
        /\ \/ issues' = issues
           \/ ~(issues[version] > 0) /\ issues' = [issues EXCEPT ![version] = issues[version] + 1]
    BY <1>6 DEF ConvertNote, Refused
  <2> HIDE DEF version
  <2>2. issues' \in Issues /\ OneIssuePerVersion'
    <3>1. issues \in [0..MaxVersions -> Nat]
      BY <1>1 DEF NoteTypes, Issues
    <3>2. CASE issues' = issues
      BY <1>1, <3>1, <3>2 DEF OneIssuePerVersion, Issues
    <3>3. CASE ~(issues[version] > 0) /\ issues' = [issues EXCEPT ![version] = issues[version] + 1]
      <4>1. CASE version \in 0..MaxVersions
        <5>1. issues[version] = 0
          BY <3>1, <3>3, <4>1
        <5> QED
          BY <1>1, <3>1, <3>3, <4>1, <5>1 DEF OneIssuePerVersion, Issues
      <4>2. CASE version \notin 0..MaxVersions
        <5>1. issues' = issues
          BY <3>1, <3>3, <4>2
        <5> QED
          BY <3>2, <5>1
      <4> QED
        BY <4>1, <4>2
    <3> QED
      BY <2>1, <3>2, <3>3
  <2>3. NoteTypes'
    BY <1>1, <1>2, <2>1, <2>2 DEF NoteTypes
  <2>4. ReplierSeesAll'
    BY <1>1, <1>2, <2>1 DEF ReplierSeesAll
  <2>5. RepliesKept'
    BY <1>1, <2>1 DEF RepliesKept
  <2> QED
    BY <2>2, <2>3, <2>4, <2>5 DEF NoteInv
<1>7. CASE UNCHANGED noteVars
  BY <1>1, <1>7 DEF noteVars, NoteInv, NoteTypes, ReplierSeesAll, Replying, RepliesKept,
                    OneIssuePerVersion
<1> QED
  BY <1>3, <1>4, <1>5, <1>6, <1>7 DEF AnnotationNext

\* For any number of people at an annotation: while replies come one at a time, none that
\* was acknowledged is lost to what overlaps it, and a version of the annotation becomes
\* one governance issue at most.
THEOREM AnnotationsKept == AnnotationSpec => []AnnotationKept
<1>1. NoteInv => AnnotationKept
  BY DEF NoteInv, AnnotationKept
<1> QED
  BY <1>1, NoteStart, NoteStep, PTL DEF AnnotationSpec
-----------------------------------------------------------------------------
(* The gaps of the knowledge base that experts fill.                       *)

\* A row of the table, and an FAQ document.
GapRow == [status : {"absent", "pending", "ai_drafted", "confirmed", "synced", "ignored"},
        draft : Texts \cup {NoText}, final : Texts \cup {NoText}, doc : Nat,
        deleted : BOOLEAN]
Faq == [text : Texts, vectors : BOOLEAN]

GapPlaces == {"idle", "insert", "work", "document", "vectors", "cache", "row"}
GapSyncing == {"document", "vectors", "cache", "row"}

GapTypeInv ==
    /\ gaps \in [Gaps -> GapRow] /\ faqs \in Seq(Faq) /\ Len(faqs) <= MaxFaqs
    /\ gapCache \in Texts \cup {NoText}
    /\ gapPc \in [GapActors -> GapPlaces] /\ gapOp \in [GapActors -> GapOps]
    /\ gapOf \in [GapActors -> Gaps] /\ gapView \in [GapActors -> GapRow]
    /\ gapText \in [GapActors -> Texts \cup {NoText}] /\ faqOf \in [GapActors -> 0..MaxFaqs]
    /\ gapsAlone \in BOOLEAN
    /\ curations \in 0..MaxCurations /\ gapFaults \in 0..GapMaxFaults
    \* Only a synchronisation goes on to make a document, and it has a text.
    /\ \A a \in GapActors : gapPc[a] \in GapSyncing => gapOp[a] = "sync" /\ gapText[a] \in Texts
    /\ \A a \in GapActors : gapPc[a] = "work" => gapOp[a] \notin {"collect", "sync"}
    /\ \A a \in GapActors : gapPc[a] = "work" /\ gapOp[a] = "draft" => gapText[a] = "model"

\* A document a row names is there; one a synchronisation has made is newer than the one its
\* row named, says what it was given, and has vectors once they are written.
MadeDoc(a) ==
    /\ gapView[a].doc <= Len(faqs)
    /\ gapPc[a] \in {"vectors", "cache", "row"} =>
          /\ faqOf[a] \in 1..Len(faqs) /\ gapView[a].doc < faqOf[a]
          /\ faqs[faqOf[a]].text = gapText[a]
    /\ gapPc[a] \in {"cache", "row"} => faqs[faqOf[a]].vectors

GapDocInv ==
    /\ \A g \in Gaps : gaps[g].doc <= Len(faqs)
    /\ \A a \in GapActors : MadeDoc(a)

\* Operations that do not overlap: one actor works, on the row as it is; a collection has
\* found no pending gap.
GapAloneInv ==
    gapsAlone =>
        /\ \A a, b \in GapActors : gapPc[a] # "idle" /\ gapPc[b] # "idle" => a = b
        /\ \A a \in GapActors :
              /\ gapPc[a] \in GapSyncing \cup {"work"} => gapView[a] = gaps[gapOf[a]]
              /\ gapPc[a] = "insert" => Unsettled = {}
        /\ \A g, h \in Unsettled : g = h

GapInv == GapTypeInv /\ GapDocInv /\ GapAloneInv /\ SyncedIsServed /\ SyncedShowsItsAnswer

-----------------------------------------------------------------------------
(* Rows.                                                                   *)

\* What is flushed is a row, column by column.
LEMMA FlushedGap ==
  ASSUME NEW now \in GapRow, NEW read \in GapRow, NEW new \in GapRow
  PROVE  LET row == Flushed(now, read, new) IN
         /\ row \in GapRow
         /\ row.status = IF new.status = read.status THEN now.status ELSE new.status
         /\ row.final = IF new.final = read.final THEN now.final ELSE new.final
         /\ row.doc = IF new.doc = read.doc THEN now.doc ELSE new.doc
BY DEF Flushed, GapRow

\* What an operation makes of the row it loaded is a row.  Only a synchronisation makes a
\* gap synced or gives it another document; none makes it pending.
LEMMA CuratedGap ==
  ASSUME GapTypeInv, NEW a \in GapActors, gapPc[a] \in {"work", "row"}
  PROVE  /\ Curated(a) \in GapRow
         /\ gapPc[a] = "work" =>
               /\ Curated(a).doc = gapView[a].doc
               /\ Curated(a).status \in {"synced", "pending"} =>
                     Curated(a) = [gapView[a] EXCEPT !.deleted = TRUE]
         /\ gapPc[a] = "row" =>
               /\ Curated(a).final = gapText[a] /\ Curated(a).doc = faqOf[a]
               /\ Curated(a).status = "synced"
<1>1. /\ gapView[a] \in GapRow /\ gapText[a] \in Texts \cup {NoText} /\ faqOf[a] \in Nat
      /\ gapOp[a] \in GapOps
  BY DEF GapTypeInv
<1>2. CASE gapPc[a] = "row"
  <2>1. gapOp[a] = "sync"
    BY <1>2 DEF GapTypeInv, GapSyncing
  <2> QED
    BY <1>1, <1>2, <2>1 DEF Curated, GapRow
<1>3. CASE gapPc[a] = "work"
  <2>1. gapOp[a] \in {"draft", "save", "edit", "ignore", "delete"}
    BY <1>1, <1>3 DEF GapTypeInv, GapOps
  <2> QED
    BY <1>1, <1>3, <2>1 DEF Curated, GapRow
<1> QED
  BY <1>2, <1>3

\* The row an operation saves: a synchronisation leaves it synced, with the document it has
\* made; another operation leaves it with its document, and synced or pending only if it was.
LEMMA SavedGap ==
  ASSUME GapTypeInv, GapDocInv, NEW a \in GapActors, gapPc[a] \in {"work", "row"}, SaveGap(a)
  PROVE  /\ gaps' \in [Gaps -> GapRow] /\ \A g \in Gaps : g # gapOf[a] => gaps'[g] = gaps[g]
         /\ LET old == gaps[gapOf[a]]
                new == gaps'[gapOf[a]] IN
            /\ new.status = "pending" => old.status = "pending"
            /\ gapPc[a] = "work" => /\ new.doc = old.doc
                                    /\ new.status = "synced" => old.status = "synced"
            /\ gapPc[a] = "row" => new.doc = faqOf[a]
            /\ gapView[a] = old =>
                  /\ gapPc[a] = "row" => new.final = gapText[a]
                  /\ gapPc[a] = "work" /\ new.status = "synced" => new.final = old.final
<1> DEFINE old == gaps[gapOf[a]]
           read == gapView[a]
<1>1. /\ gapOf[a] \in Gaps /\ old \in GapRow /\ read \in GapRow /\ Curated(a) \in GapRow
      /\ gaps \in [Gaps -> GapRow]
  BY CuratedGap DEF GapTypeInv
<1>2. /\ Flushed(old, read, Curated(a)) \in GapRow
      /\ Flushed(old, read, Curated(a)).status =
            IF Curated(a).status = read.status THEN old.status ELSE Curated(a).status
      /\ Flushed(old, read, Curated(a)).final =
            IF Curated(a).final = read.final THEN old.final ELSE Curated(a).final
      /\ Flushed(old, read, Curated(a)).doc =
            IF Curated(a).doc = read.doc THEN old.doc ELSE Curated(a).doc
  BY <1>1, FlushedGap
<1>3. gaps' = [gaps EXCEPT ![gapOf[a]] = Flushed(old, read, Curated(a))]
  BY DEF SaveGap
<1>4. /\ gaps' \in [Gaps -> GapRow] /\ \A g \in Gaps : g # gapOf[a] => gaps'[g] = gaps[g]
      /\ gaps'[gapOf[a]] = Flushed(old, read, Curated(a))
  BY <1>1, <1>2, <1>3
<1>5. CASE gapPc[a] = "row"
  <2>1. /\ Curated(a).final = gapText[a] /\ Curated(a).doc = faqOf[a]
        /\ Curated(a).status = "synced"
    BY <1>5, CuratedGap
  <2>2. read.doc # faqOf[a]
    BY <1>1, <1>5 DEF GapDocInv, MadeDoc, GapTypeInv, GapRow
  <2> QED
    BY <1>2, <1>4, <1>5, <2>1, <2>2
<1>6. CASE gapPc[a] = "work"
  BY <1>1, <1>2, <1>4, <1>6, CuratedGap DEF GapRow
<1> QED
  BY <1>4, <1>5, <1>6

-----------------------------------------------------------------------------
(* Steps.                                                                  *)

\* An operation of a on the row g begins.
LoadsGap(a, g, o, text, next) ==
    /\ LoadGap(a, g, o, text, next)
    /\ \/ next = "work" /\ o \in {"draft", "save", "edit", "ignore", "delete"}
       \/ next = "document" /\ o = "sync" /\ text \in Texts
    /\ text \in Texts \cup {NoText} /\ (o = "draft" => text = "model")

\* What a step of a does, whether a is a request or the loop.
GapActorStep(a) ==
    \/ LookForGap(a) \/ InsertGap(a)
    \/ \E g \in Gaps, o \in GapOps, text \in Texts \cup {NoText}, next \in GapPlaces :
          LoadsGap(a, g, o, text, next)
    \/ Curate(a) \/ MakeFaq(a) \/ VectorizeFaq(a) \/ CacheFaq(a) \/ EndSync(a)
    \/ a = Cron /\ CronDrafted
    \/ CurationFails(a)

\* Every step is one of these, of one actor.
LEMMA StepIsACurators == GapNext => \E a \in GapActors : GapActorStep(a)
<1> SUFFICES ASSUME GapNext PROVE \E a \in GapActors : GapActorStep(a)
  OBVIOUS
<1> USE DEF GapActorStep, GapActors
<1>1. ASSUME NEW a \in GapActors, NEW g \in Gaps,
             \/ StartDraft(a, g) \/ StartSave(a, g) \/ StartEdit(a, g) \/ StartIgnore(a, g)
             \/ StartDelete(a, g) \/ \E text \in Texts : StartSync(a, g, text)
      PROVE  GapActorStep(a)
  <2>1. \E o \in GapOps, text \in Texts \cup {NoText}, next \in GapPlaces :
            LoadsGap(a, g, o, text, next)
    BY <1>1 DEF StartDraft, StartSave, StartEdit, StartIgnore, StartDelete, StartSync, LoadsGap,
       GapOps, Texts, GapPlaces
  <2> QED
    BY <2>1
<1>2. CASE CronScan
  BY <1>1, <1>2 DEF CronScan, Oldest, Pending, Unsettled
<1> QED
  BY <1>1, <1>2 DEF GapNext, CronStep, SyncStep

\* At the start everything has its type ...
LEMMA GapTypesInit == GapInit => GapTypeInv
BY GapAssumption
   DEF GapInit, GapTypeInv, GapRow, Faq, NoGap, GapOps, Gaps, GapPlaces, GapSyncing, Texts

\* ... and every step keeps it.
LEMMA GapTypeStep ==
  ASSUME GapTypeInv, GapDocInv, [GapNext]_gapVars
  PROVE  GapTypeInv'
<1> USE GapAssumption DEF Goes
<1>0. CASE UNCHANGED gapVars
  BY <1>0 DEF GapTypeInv, gapVars
<1>1. ASSUME NEW a \in GapActors, LookForGap(a) PROVE GapTypeInv'
  BY <1>1 DEF LookForGap, MayCurate, GapTypeInv, GapPlaces, GapOps, GapSyncing, Cron
<1>2. ASSUME NEW a \in GapActors, InsertGap(a) PROVE GapTypeInv'
  <2>1. PICK g \in Gaps : gaps' = [gaps EXCEPT ![g].status = "pending"]
    BY <1>2 DEF InsertGap
  <2>2. gaps \in [Gaps -> GapRow]
    BY DEF GapTypeInv
  <2>3. gaps' \in [Gaps -> GapRow]
    <3>1. [gaps[g] EXCEPT !.status = "pending"] \in GapRow
      BY ONLY <2>2, g \in Gaps DEF GapRow
    <3> QED
      BY ONLY <2>1, <2>2, <3>1
  <2> QED
    BY <1>2, <2>3 DEF InsertGap, GapTypeInv, GapPlaces, GapSyncing
<1>3. ASSUME NEW a \in GapActors, NEW g \in Gaps, NEW o \in GapOps,
             NEW text \in Texts \cup {NoText}, NEW next \in GapPlaces, LoadsGap(a, g, o, text, next)
      PROVE  GapTypeInv'
  <2>1. curations' \in 0..MaxCurations
    BY <1>3 DEF LoadsGap, LoadGap, MayCurate, GapTypeInv
  <2> QED
    BY <1>3, <2>1 DEF LoadsGap, LoadGap, GapTypeInv, GapSyncing
<1>4. ASSUME NEW a \in GapActors, Curate(a) PROVE GapTypeInv'
  <2>1. gaps' \in [Gaps -> GapRow] /\ NoGap \in GapRow
    BY <1>4, SavedGap DEF Curate, NoGap, GapRow, Texts
  <2> QED
    BY <1>4, <2>1 DEF Curate, GapTypeInv, GapPlaces, GapSyncing
<1>5. ASSUME NEW a \in GapActors, EndSync(a) PROVE GapTypeInv'
  <2>1. gaps' \in [Gaps -> GapRow] /\ NoGap \in GapRow
    BY <1>5, SavedGap DEF EndSync, NoGap, GapRow, Texts
  <2> QED
    BY <1>5, <2>1 DEF EndSync, GapTypeInv, GapPlaces, GapSyncing
<1>6. ASSUME NEW a \in GapActors, MakeFaq(a) PROVE GapTypeInv'
  <2>1. [text |-> gapText[a], vectors |-> FALSE] \in Faq
    BY <1>6 DEF MakeFaq, GapTypeInv, Faq, GapSyncing
  <2>2. faqs' \in Seq(Faq) /\ Len(faqs') = Len(faqs) + 1 /\ Len(faqs') <= MaxFaqs
    BY <1>6, <2>1 DEF MakeFaq, GapTypeInv
  <2>3. faqOf' \in [GapActors -> 0..MaxFaqs]
    BY <1>6, <2>2 DEF MakeFaq, GapTypeInv
  <2> QED
    BY <1>6, <2>2, <2>3 DEF MakeFaq, GapTypeInv, GapPlaces, GapSyncing
<1>7. ASSUME NEW a \in GapActors, VectorizeFaq(a) PROVE GapTypeInv'
  <2>1. faqOf[a] \in 1..Len(faqs) /\ faqs[faqOf[a]] \in Faq
    BY <1>7 DEF VectorizeFaq, GapTypeInv, GapDocInv, MadeDoc
  <2>2. [faqs[faqOf[a]] EXCEPT !.vectors = TRUE] \in Faq
    BY <2>1 DEF Faq
  <2>3. faqs' \in Seq(Faq) /\ Len(faqs') = Len(faqs)
    BY <1>7, <2>1, <2>2 DEF VectorizeFaq, GapTypeInv
  <2> QED
    BY <1>7, <2>3 DEF VectorizeFaq, GapTypeInv, GapPlaces, GapSyncing
<1>8. ASSUME NEW a \in GapActors, CacheFaq(a) PROVE GapTypeInv'
  BY <1>8 DEF CacheFaq, GapTypeInv, GapPlaces, GapSyncing
<1>9. CASE CronDrafted
  <2>1. gaps' \in [Gaps -> GapRow] /\ Cron \in GapActors
    BY <1>9, SavedGap DEF CronDrafted, GapActors
  <2> QED
    BY <1>9, <2>1 DEF CronDrafted, GapTypeInv, GapPlaces, GapSyncing, GapOps, Texts
<1>10. ASSUME NEW a \in GapActors, CurationFails(a) PROVE GapTypeInv'
  <2>1. NoGap \in GapRow
    BY DEF NoGap, GapRow, Texts
  <2> QED
    BY <1>10, <2>1 DEF CurationFails, GapTypeInv, GapPlaces, GapSyncing
<1> QED
  BY <1>0, <1>1, <1>2, <1>3, <1>4, <1>5, <1>6, <1>7, <1>8, <1>9, <1>10, StepIsACurators
     DEF GapActorStep

-----------------------------------------------------------------------------
(* A synced gap is served.                                                 *)

\* Documents keep their text and their vectors.
LEMMA FaqsGrow ==
  ASSUME GapTypeInv, GapDocInv, [GapNext]_gapVars
  PROVE  /\ Len(faqs) \in Nat /\ Len(faqs') \in Nat /\ Len(faqs) <= Len(faqs')
         /\ \A i \in 1..Len(faqs) : /\ faqs'[i].text = faqs[i].text
                                    /\ faqs[i].vectors => faqs'[i].vectors
<1>0. faqs \in Seq(Faq) /\ Len(faqs) \in Nat /\ \A i \in 1..Len(faqs) : faqs[i] \in Faq
  BY DEF GapTypeInv
<1>1. CASE UNCHANGED faqs
  BY <1>0, <1>1
<1>2. ASSUME NEW a \in GapActors, MakeFaq(a)
      PROVE  Len(faqs') = Len(faqs) + 1 /\ \A i \in 1..Len(faqs) : faqs'[i] = faqs[i]
  BY <1>0, <1>2 DEF MakeFaq
<1>3. ASSUME NEW a \in GapActors, VectorizeFaq(a)
      PROVE  /\ Len(faqs') = Len(faqs)
             /\ \A i \in 1..Len(faqs) : /\ faqs'[i].text = faqs[i].text
                                        /\ faqs[i].vectors => faqs'[i].vectors
  BY <1>0, <1>3 DEF VectorizeFaq, GapDocInv, MadeDoc, Goes, Faq
<1>4. ASSUME NEW a \in GapActors, GapActorStep(a), ~MakeFaq(a), ~VectorizeFaq(a)
      PROVE  UNCHANGED faqs
  BY <1>4 DEF GapActorStep, LookForGap, InsertGap, LoadsGap, LoadGap, Curate, CacheFaq, EndSync,
     CronDrafted, CurationFails
<1> QED
  BY <1>0, <1>1, <1>2, <1>3, <1>4, StepIsACurators DEF gapVars

\* What rows, requests and documents say of each other stays so.
LEMMA GapDocStep ==
  ASSUME GapTypeInv, GapDocInv, SyncedIsServed, [GapNext]_gapVars
  PROVE  GapDocInv' /\ SyncedIsServed'
<1>0. /\ faqs \in Seq(Faq) /\ Len(faqs) \in Nat /\ Len(faqs') \in Nat
      /\ Len(faqs) <= Len(faqs')
      /\ \A i \in 1..Len(faqs) : /\ faqs'[i].text = faqs[i].text
                                 /\ faqs[i].vectors => faqs'[i].vectors
      /\ gaps \in [Gaps -> GapRow] /\ gapView \in [GapActors -> GapRow]
      /\ gapPc \in [GapActors -> GapPlaces] /\ faqOf \in [GapActors -> 0..MaxFaqs]
      /\ gapText \in [GapActors -> Texts \cup {NoText}] /\ gapOf \in [GapActors -> Gaps]
      /\ \A g \in Gaps : gaps[g].doc \in Nat
      /\ \A a \in GapActors : gapView[a].doc \in Nat
      /\ \A g \in Gaps : gaps'[g].doc \in Nat
      /\ \A a \in GapActors : gapView'[a].doc \in Nat
  BY FaqsGrow, GapTypeStep DEF GapTypeInv, GapRow
<1>n. NoGap.doc = 0
  BY DEF NoGap
<1> USE <1>0, <1>n DEF GapDocInv, MadeDoc, SyncedIsServed, Goes
\* The rows keep their documents, a's place leads to nothing new.
<1>1. ASSUME NEW a \in GapActors,
             \A g \in Gaps : /\ gaps'[g].doc = gaps[g].doc
                             /\ gaps'[g].status = "synced" => gaps[g].status = "synced",
             \A b \in GapActors \ {a} : /\ gapPc'[b] = gapPc[b] /\ gapView'[b] = gapView[b]
                                        /\ faqOf'[b] = faqOf[b] /\ gapText'[b] = gapText[b],
             gapPc'[a] \notin {"vectors", "cache", "row"}, gapView'[a].doc <= Len(faqs)
      PROVE  GapDocInv' /\ SyncedIsServed'
  <2>1. ASSUME NEW b \in GapActors PROVE MadeDoc(b)'
    <3>1. CASE b = a
      BY <1>1, <3>1
    <3>2. CASE b # a
      BY <1>1, <3>2
    <3> QED
      BY <3>1, <3>2
  <2>2. ASSUME NEW g \in Gaps PROVE gaps'[g].doc <= Len(faqs')
    BY <1>1, SMTT(60)
  <2>3. ASSUME NEW g \in Gaps, gaps'[g].status = "synced"
        PROVE  gaps'[g].doc # 0 /\ faqs'[gaps'[g].doc].vectors
    <3>1. gaps[g].doc \in 1..Len(faqs) /\ faqs[gaps[g].doc].vectors
      BY <1>1, <2>3
    <3> QED
      BY <1>1, <3>1
  <2> QED
    BY <2>1, <2>2, <2>3
<1>2. ASSUME NEW a \in GapActors, LookForGap(a) PROVE GapDocInv' /\ SyncedIsServed'
  BY <1>2, <1>1 DEF LookForGap
<1>3. ASSUME NEW a \in GapActors, InsertGap(a) PROVE GapDocInv' /\ SyncedIsServed'
  <2>1. \A g \in Gaps : /\ gaps'[g].doc = gaps[g].doc
                        /\ gaps'[g].status = "synced" => gaps[g].status = "synced"
    BY <1>3 DEF InsertGap, GapRow
  <2> QED
    BY <1>3, <2>1, <1>1 DEF InsertGap
<1>4. ASSUME NEW a \in GapActors, NEW g \in Gaps, NEW o \in GapOps,
             NEW text \in Texts \cup {NoText}, NEW next \in GapPlaces, LoadsGap(a, g, o, text, next)
      PROVE  GapDocInv' /\ SyncedIsServed'
  BY <1>4, <1>1 DEF LoadsGap, LoadGap
<1>5. ASSUME NEW a \in GapActors, gapPc[a] = "work", SaveGap(a)
      PROVE  \A g \in Gaps : /\ gaps'[g].doc = gaps[g].doc
                             /\ gaps'[g].status = "synced" => gaps[g].status = "synced"
  BY <1>5, SavedGap
<1>6. ASSUME NEW a \in GapActors, Curate(a) PROVE GapDocInv' /\ SyncedIsServed'
  BY <1>6, <1>5, <1>1 DEF Curate
<1>7. CASE CronDrafted
  <2>1. /\ Cron \in GapActors /\ gapPc[Cron] = "work" /\ SaveGap(Cron)
        /\ gapView'[Cron] = gaps'[gapOf[Cron]]
    BY <1>7 DEF CronDrafted, GapActors
  <2> QED
    BY <1>7, <2>1, <1>5, <1>1 DEF CronDrafted
<1>8. ASSUME NEW a \in GapActors, MakeFaq(a) PROVE GapDocInv' /\ SyncedIsServed'
  <2>1. /\ faqs' = Append(faqs, [text |-> gapText[a], vectors |-> FALSE])
        /\ Len(faqs') = Len(faqs) + 1 /\ faqs'[Len(faqs) + 1].text = gapText[a]
        /\ faqOf'[a] = Len(faqs) + 1
    BY <1>8 DEF MakeFaq
  <2>2. ASSUME NEW b \in GapActors PROVE MadeDoc(b)'
    <3>1. CASE b = a
      BY <1>8, <2>1, <3>1 DEF MakeFaq
    <3>2. CASE b # a
      <4>1. /\ gapPc'[b] = gapPc[b] /\ gapView'[b] = gapView[b] /\ faqOf'[b] = faqOf[b]
            /\ gapText'[b] = gapText[b]
        BY <1>8, <3>2 DEF MakeFaq
      <4> QED
        BY <4>1, SMTT(60)
    <3> QED
      BY <3>1, <3>2
  <2>3. UNCHANGED gaps
    BY <1>8 DEF MakeFaq
  <2>4. ASSUME NEW g \in Gaps, gaps[g].status = "synced"
        PROVE  gaps[g].doc # 0 /\ faqs'[gaps[g].doc].vectors
    BY <2>4
  <2> QED
    BY <2>2, <2>3, <2>4
<1>9. ASSUME NEW a \in GapActors, VectorizeFaq(a) PROVE GapDocInv' /\ SyncedIsServed'
  <2>1. faqOf[a] \in 1..Len(faqs) /\ faqs[faqOf[a]] \in Faq
    BY <1>9 DEF VectorizeFaq
  <2>2. faqs'[faqOf[a]].vectors
    BY <1>9, <2>1 DEF VectorizeFaq, Faq
  <2> QED
    BY <1>9, <2>1, <2>2 DEF VectorizeFaq
<1>10. ASSUME NEW a \in GapActors, CacheFaq(a) PROVE GapDocInv' /\ SyncedIsServed'
  BY <1>10 DEF CacheFaq
<1>11. ASSUME NEW a \in GapActors, EndSync(a) PROVE GapDocInv' /\ SyncedIsServed'
  <2>1. /\ faqOf[a] \in 1..Len(faqs) /\ faqs[faqOf[a]].vectors
        /\ \A g \in Gaps : g # gapOf[a] => gaps'[g] = gaps[g]
        /\ gaps'[gapOf[a]].doc = faqOf[a] /\ gapOf[a] \in Gaps
    BY <1>11, SavedGap DEF EndSync
  <2>2. ASSUME NEW b \in GapActors PROVE MadeDoc(b)'
    <3>1. CASE b = a
      BY <1>11, <3>1 DEF EndSync
    <3>2. CASE b # a
      <4>1. /\ gapPc'[b] = gapPc[b] /\ gapView'[b] = gapView[b] /\ faqOf'[b] = faqOf[b]
            /\ gapText'[b] = gapText[b]
        BY <1>11, <3>2 DEF EndSync
      <4> QED
        BY <4>1, SMTT(60)
    <3> QED
      BY <3>1, <3>2
  <2>3. UNCHANGED faqs
    BY <1>11 DEF EndSync
  <2>4. ASSUME NEW g \in Gaps
        PROVE  /\ gaps'[g].doc <= Len(faqs')
               /\ gaps'[g].status = "synced" => gaps'[g].doc # 0 /\ faqs'[gaps'[g].doc].vectors
    BY <2>1, <2>3
  <2> QED
    BY <2>2, <2>4
<1>12. ASSUME NEW a \in GapActors, CurationFails(a) PROVE GapDocInv' /\ SyncedIsServed'
  BY <1>12, <1>1 DEF CurationFails
<1>13. CASE UNCHANGED gapVars
  BY <1>13 DEF gapVars
<1> QED
  BY <1>2, <1>3, <1>4, <1>6, <1>7, <1>8, <1>9, <1>10, <1>11, <1>12, <1>13, StepIsACurators
     DEF GapActorStep

-----------------------------------------------------------------------------
(* Operations that do not overlap.                                         *)

\* One actor at work leaves one at work, on the row as it is; it makes a gap pending only if
\* none was, and gives a gap no answer but the one its document gives.
LEMMA GapAloneStep ==
  ASSUME GapInv, gapsAlone, [GapNext]_gapVars
  PROVE  GapAloneInv' /\ SyncedShowsItsAnswer'
<1>0. /\ GapTypeInv /\ GapDocInv /\ SyncedIsServed /\ GapAloneInv /\ SyncedShowsItsAnswer
      /\ gaps \in [Gaps -> GapRow] /\ gapView \in [GapActors -> GapRow]
      /\ gapPc \in [GapActors -> GapPlaces] /\ gapOf \in [GapActors -> Gaps]
  BY DEF GapInv, GapTypeInv
<1>n. \A g \in Gaps : gaps[g].doc \in Nat
  BY <1>0 DEF GapRow
<1>t. /\ \A g \in Gaps : gaps[g].status = "synced" =>
            gaps[g].doc \in 1..Len(faqs) /\ faqs[gaps[g].doc].text = gaps[g].final
      /\ \A i \in 1..Len(faqs) : faqs'[i].text = faqs[i].text
  BY <1>0, <1>n, FaqsGrow DEF SyncedShowsItsAnswer, SyncedIsServed, GapDocInv
<1>o. /\ \A a, b \in GapActors : gapPc[a] # "idle" /\ gapPc[b] # "idle" => a = b
      /\ \A a \in GapActors :
            /\ gapPc[a] \in GapSyncing \cup {"work"} => gapView[a] = gaps[gapOf[a]]
            /\ gapPc[a] = "insert" => Unsettled = {}
      /\ \A g, h \in Unsettled : g = h
  BY <1>0 DEF GapAloneInv
<1>. USE DEF Goes
\* a alone is at work, afterwards too; the others stay idle.
<1>a. ASSUME NEW a \in GapActors, GapActorStep(a)
      PROVE  /\ \A b \in GapActors \ {a} : gapPc[b] = "idle" /\ gapPc'[b] = "idle"
             /\ \A b, c \in GapActors : gapPc'[b] # "idle" /\ gapPc'[c] # "idle" => b = c
  <2>1. \A b \in GapActors \ {a} : gapPc[b] = "idle"
    BY <1>0, <1>t, <1>o, <1>a
       DEF GapActorStep, LookForGap, InsertGap, LoadsGap, LoadGap, MayCurate, Curate, MakeFaq,
       VectorizeFaq, CacheFaq, EndSync, CronDrafted, CurationFails
  <2>2. \A b \in GapActors \ {a} : gapPc'[b] = gapPc[b]
    BY <1>0, <1>t, <1>o, <1>a
       DEF GapActorStep, LookForGap, InsertGap, LoadsGap, LoadGap, Curate, MakeFaq,
       VectorizeFaq, CacheFaq, EndSync, CronDrafted, CurationFails
  <2> QED
    BY <2>1, <2>2
\* A step that saves no row.
<1>1. ASSUME NEW a \in GapActors, GapActorStep(a), UNCHANGED gaps
      PROVE  GapAloneInv' /\ SyncedShowsItsAnswer'
  <2>1. UNCHANGED Unsettled
    BY <1>1 DEF Unsettled
  <2>2. SyncedShowsItsAnswer'
    BY <1>0, <1>t, <1>o, <1>1 DEF SyncedShowsItsAnswer
  <2>3. /\ gapPc'[a] \in GapSyncing \cup {"work"} => gapView'[a] = gaps'[gapOf'[a]]
        /\ gapPc'[a] = "insert" => Unsettled' = {}
    <3>1. CASE LookForGap(a)
      BY <1>0, <1>t, <1>o, <2>1, <3>1 DEF LookForGap, GapSyncing
    <3>2. ASSUME NEW g \in Gaps, NEW o \in GapOps, NEW text \in Texts \cup {NoText},
                 NEW next \in GapPlaces, LoadsGap(a, g, o, text, next)
          PROVE  gapPc'[a] # "insert" /\ gapView'[a] = gaps'[gapOf'[a]]
      BY <1>0, <1>t, <1>o, <1>1, <3>2 DEF LoadsGap, LoadGap
    <3>3. CASE MakeFaq(a) \/ VectorizeFaq(a) \/ CacheFaq(a)
      BY <1>0, <1>t, <1>o, <1>1, <3>3 DEF MakeFaq, VectorizeFaq, CacheFaq, GapSyncing
    <3>4. CASE InsertGap(a) \/ Curate(a) \/ EndSync(a) \/ CurationFails(a)
      BY <1>0, <1>t, <1>o, <3>4 DEF InsertGap, Curate, EndSync, CurationFails, GapSyncing
    <3>5. CASE a = Cron /\ CronDrafted
      BY <1>0, <1>t, <1>o, <1>1, <3>5 DEF CronDrafted
    <3> QED
      BY <1>1, <3>1, <3>2, <3>3, <3>4, <3>5 DEF GapActorStep
  <2> QED
    BY <1>a, <1>1, <2>1, <2>2, <2>3, <1>0, <1>t, <1>o DEF GapAloneInv, GapSyncing
<1>2. ASSUME NEW a \in GapActors, InsertGap(a) PROVE GapAloneInv' /\ SyncedShowsItsAnswer'
  <2>1. PICK g \in Gaps : gaps' = [gaps EXCEPT ![g].status = "pending"]
    BY <1>2 DEF InsertGap
  <2>2. /\ gaps'[g].status = "pending" /\ \A h \in Gaps : h # g => gaps'[h] = gaps[h]
        /\ UNCHANGED faqs
    BY <1>0, <1>t, <1>o, <1>2, <2>1 DEF GapRow, InsertGap
  <2>3. \A h \in Unsettled' : h = g
    BY <1>0, <1>t, <1>o, <1>2, <2>2 DEF Unsettled, InsertGap
  <2>4. gapPc'[a] = "idle" /\ GapActorStep(a)
    BY <1>0, <1>t, <1>o, <1>2 DEF InsertGap, GapActorStep
  <2>5. SyncedShowsItsAnswer'
    BY <1>0, <1>t, <1>o, <2>2 DEF SyncedShowsItsAnswer
  <2> QED
    BY <1>a, <2>3, <2>4, <2>5 DEF GapAloneInv, GapSyncing
<1>3. ASSUME NEW a \in GapActors, GapActorStep(a), gapPc[a] \in {"work", "row"}, SaveGap(a),
             gapPc'[a] # "insert", gapPc'[a] = "idle" \/ gapView'[a] = gaps'[gapOf'[a]],
             UNCHANGED faqs
      PROVE  GapAloneInv' /\ SyncedShowsItsAnswer'
  <2>1. gapView[a] = gaps[gapOf[a]] /\ gapOf[a] \in Gaps
    BY <1>0, <1>t, <1>o, <1>3 DEF GapSyncing
  <2>2. /\ \A g \in Gaps : g # gapOf[a] => gaps'[g] = gaps[g]
        /\ gaps'[gapOf[a]].status = "pending" => gaps[gapOf[a]].status = "pending"
        /\ gapPc[a] = "work" => /\ gaps'[gapOf[a]].doc = gaps[gapOf[a]].doc
                                /\ gaps'[gapOf[a]].status = "synced" =>
                                      /\ gaps[gapOf[a]].status = "synced"
                                      /\ gaps'[gapOf[a]].final = gaps[gapOf[a]].final
        /\ gapPc[a] = "row" => /\ gaps'[gapOf[a]].doc = faqOf[a]
                               /\ gaps'[gapOf[a]].final = gapText[a]
    BY <1>0, <1>t, <1>o, <1>3, <2>1, SavedGap
  <2>3. Unsettled' \subseteq Unsettled
    BY <2>2 DEF Unsettled
  <2>4. gapPc[a] = "row" => faqs[faqOf[a]].text = gapText[a]
    BY <1>0, <1>t, <1>o DEF GapDocInv, MadeDoc
  <2>5. SyncedShowsItsAnswer'
    BY <1>0, <1>t, <1>o, <1>3, <2>2, <2>4 DEF SyncedShowsItsAnswer
  <2> QED
    BY <1>0, <1>t, <1>o, <1>a, <1>3, <2>3, <2>5 DEF GapAloneInv, GapSyncing
<1>4. ASSUME NEW a \in GapActors, Curate(a) \/ EndSync(a) \/ (a = Cron /\ CronDrafted)
      PROVE  GapAloneInv' /\ SyncedShowsItsAnswer'
  <2>1. /\ GapActorStep(a) /\ gapPc[a] \in {"work", "row"} /\ SaveGap(a)
        /\ gapPc'[a] # "insert" /\ UNCHANGED faqs
        /\ gapPc'[a] = "idle" \/ gapView'[a] = gaps'[gapOf'[a]]
    <3>1. CASE Curate(a) \/ EndSync(a)
      BY <1>0, <3>1 DEF GapActorStep, Curate, EndSync
    <3>2. CASE a = Cron /\ CronDrafted
      <4>1. gapPc'[a] = "document" /\ gapView'[a] = gaps'[gapOf[a]]
        BY <1>0, <3>2 DEF CronDrafted
      <4> QED
        BY <3>2, <4>1 DEF GapActorStep, CronDrafted
    <3> QED
      BY <1>4, <3>1, <3>2
  <2> QED
    BY <2>1, <1>3
<1>5. ASSUME NEW a \in GapActors, GapActorStep(a) PROVE GapAloneInv' /\ SyncedShowsItsAnswer'
  <2>1. \/ UNCHANGED gaps \/ InsertGap(a)
        \/ Curate(a) \/ EndSync(a) \/ (a = Cron /\ CronDrafted)
    BY <1>5 DEF GapActorStep, LookForGap, LoadsGap, LoadGap, MakeFaq, VectorizeFaq, CacheFaq,
       CurationFails
  <2> QED
    BY <1>5, <2>1, <1>1, <1>2, <1>4
<1>6. CASE UNCHANGED gapVars
  <2>1. UNCHANGED Unsettled
    BY <1>6 DEF gapVars, Unsettled
  <2> QED
    BY <1>0, <1>t, <1>o, <1>6, <2>1 DEF gapVars, GapAloneInv, SyncedShowsItsAnswer
<1> QED
  BY <1>5, <1>6, StepIsACurators

-----------------------------------------------------------------------------
(* Theorems.                                                               *)

\* The invariant the theorems follow from holds at the start ...
LEMMA GapsStart == GapInit => GapInv
<1> SUFFICES ASSUME GapInit PROVE GapInv
  OBVIOUS
<1>1. GapTypeInv
  BY GapTypesInit
<1>2. /\ \A g \in Gaps : gaps[g].status = "absent" /\ gaps[g].doc = 0
      /\ \A a \in GapActors : gapPc[a] = "idle" /\ gapView[a].doc = 0
      /\ Len(faqs) = 0
  BY DEF GapInit, NoGap
<1> QED
  BY <1>1, <1>2 DEF GapInv, GapDocInv, MadeDoc, GapAloneInv, SyncedIsServed, SyncedShowsItsAnswer,
     Unsettled, GapSyncing

\* ... and is kept by every step.
LEMMA GapsStep == GapInv /\ [GapNext]_gapVars => GapInv'
<1> SUFFICES ASSUME GapInv, [GapNext]_gapVars PROVE GapInv'
  OBVIOUS
<1>1. GapTypeInv' /\ GapDocInv' /\ SyncedIsServed'
  BY GapTypeStep, GapDocStep DEF GapInv
<1>2. gapsAlone' = gapsAlone
  <2>1. ASSUME NEW a \in GapActors, GapActorStep(a) PROVE UNCHANGED gapsAlone
    BY <2>1 DEF GapActorStep, LookForGap, InsertGap, LoadsGap, LoadGap, Curate, MakeFaq,
     VectorizeFaq, CacheFaq, EndSync, CronDrafted, CurationFails
  <2> QED
    BY <2>1, StepIsACurators DEF gapVars
<1>3. CASE gapsAlone
  BY <1>1, <1>3, GapAloneStep DEF GapInv
<1>4. CASE ~gapsAlone
  BY <1>1, <1>2, <1>4 DEF GapInv, GapAloneInv, SyncedShowsItsAnswer
<1> QED
  BY <1>3, <1>4

\* The rows, documents and requests have their types, whatever overlaps and fails.
THEOREM GapTypes == GapSpec => []GapTypeOK
<1>1. ASSUME GapInv PROVE GapTypeOK
  <2>1. ASSUME NEW g \in Gaps
        PROVE  /\ gaps[g] \in GapRow /\ DOMAIN gaps[g] = DOMAIN NoGap
               /\ gaps[g].doc \in 0..Len(faqs)
    BY <1>1 DEF GapInv, GapTypeInv, GapDocInv, GapRow, NoGap
  <2> QED
    BY <1>1, <2>1 DEF GapInv, GapTypeInv, GapTypeOK, GapRow, Faq, GapPlaces
<1> QED
  BY <1>1, GapsStart, GapsStep, PTL DEF GapSpec

\* For any number of requests, gaps, documents and failures: a gap marked "synced" is served
\* with its vectors; while operations do not overlap it shows the answer that is served, and a
\* question has one pending gap at most.
THEOREM GapsKept == GapSpec => []GapKept
<1>1. ASSUME GapInv, gapsAlone PROVE Cardinality(Unsettled) <= 1
  <2>1. Unsettled = {} \/ \E g \in Gaps : Unsettled = {g}
    BY <1>1 DEF GapInv, GapAloneInv, Unsettled
  <2> QED
    BY <2>1, FS_EmptySet, FS_Singleton
<1>2. GapInv => GapKept
  BY <1>1 DEF GapInv, GapKept, OnePendingGap
<1> QED
  BY <1>2, GapsStart, GapsStep, PTL DEF GapSpec
=============================================================================
