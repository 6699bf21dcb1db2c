---------------------------- MODULE MCBackground ----------------------------
(***************************************************************************)
(* The work that must come to an end: the drill's sweeper, the disposal's  *)
(* task, the loop over the evidence gaps and the insertion that retries.   *)
(* They share no state: a behaviour is one of them at work, chosen at the  *)
(* start.                                                                  *)
(***************************************************************************)
EXTENDS DrillSession, AlertDisposal, EvidenceGap, IdempotentInsert

CONSTANTS c1, c2, c3, c4, k

\* Three calls share the key k, the fourth has none.
MCKeyOf == [c \in Calls |-> IF c = c4 THEN NoKey ELSE k]

VARIABLE work

\* What stands still unless w is at work.
At(w, variables) == work # w => UNCHANGED variables

backgroundVars == <<work, drillVars, disposalVars, gapVars, insertVars>>

BackgroundInit ==
    /\ work \in {"drill", "disposal", "gap", "insert"}
    /\ DrillInit /\ DisposalInit /\ GapInit /\ InsertInit
    /\ work # "drill" => drillTenant = "default"
    /\ work # "gap" => gapsAlone
    /\ work # "insert" => isolation = "READ COMMITTED"

BackgroundNext ==
    /\ UNCHANGED work
    /\ \/ work = "drill" /\ DrillNext
       \/ work = "disposal" /\ DisposalNext
       \/ work = "gap" /\ GapNext
       \/ work = "insert" /\ InsertNext
    /\ At("drill", drillVars) /\ At("disposal", disposalVars) /\ At("gap", gapVars)
    /\ At("insert", insertVars)

\* Every part keeps its rows and its actors within their types.
BackgroundTypeOK == DrillTypeOK /\ DisposalTypeOK /\ GapTypeOK /\ InsertTypeOK

\* The sweeper, the task and the loop each take their turns.
BackgroundFairness == DrillFairness /\ DisposalFairness /\ GapFairness

BackgroundSpec == BackgroundInit /\ [][BackgroundNext]_backgroundVars /\ BackgroundFairness

\* What was begun is brought to an end without anybody asking: a late drill by the sweep,
\* an alert by its task, a gap by the loop.
WorkEnds == LateDrillEnds /\ ProposalComes /\ PendingIsDrafted
=============================================================================
