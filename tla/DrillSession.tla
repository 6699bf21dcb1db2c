---------------------------- MODULE DrillSession ----------------------------
(***************************************************************************)
(* One emergency drill: started from a scenario, its actions recorded as   *)
(* the trainee ticks them off, ended by the trainee, by a poll or a sweep  *)
(* that finds it too long under way, or by an abort; scored at its end.    *)
(*                                                                         *)
(* Requests and the sweeper load the row without a lock and commit later.  *)
(***************************************************************************)
EXTENDS Naturals, Sequences, OrmSession

CONSTANTS
    Items,           \* number of actions the checklist expects
    DrillRequests,   \* concurrent requests
    Together,        \* may two actions be recorded at once
    MaxActions,      \* bound: actions recorded
    DrillMaxFaults   \* bound: processes that stop, reports that fail

ASSUME DrillAssumption ==
    /\ Items \in Nat \ {0} /\ MaxActions \in Nat /\ DrillMaxFaults \in Nat
    /\ Together \in BOOLEAN
    /\ "sweeper" \notin DrillRequests

VARIABLES
    scenario,        \* the scenario: "enabled", "disabled" or "deleted"
    drill,           \* the row of the run
    drillTenant,     \* the tenant the run belongs to
    late,            \* the run is longer under way than DRILL_MAX_DURATION_SECONDS
    drillPc, drillOp,
    drillView,       \* drillView[r]: the row as r loaded it
    acting,          \* acting[r]: the checklist items the action of r mentions
    performed,       \* history: the actions whose recording was acknowledged
    reported,        \* history: the missed items reported as quality events
    unreported,      \* history: a report failed
    drillFaults

drillVars == <<scenario, drill, drillTenant, late, drillPc, drillOp, drillView, acting,
               performed, reported, unreported, drillFaults>>

Checklist == 1..Items
Sweeper == "sweeper"
Actors == DrillRequests \cup {Sweeper}
Ended == {"finished", "aborted"}
DrillOps == {"start", "record", "finish", "settle", "abort"}

NoDrill == [status |-> "none", actions |-> <<>>, score |-> {}, review |-> "none"]

DrillRow(row) ==
    /\ DOMAIN row = DOMAIN NoDrill
    /\ row.status \in {"none", "running"} \cup Ended
    /\ row.actions \in Seq(SUBSET Checklist)
    /\ row.score \subseteq Checklist \X (1..MaxActions)
    /\ row.review \in {"none", "llm", "template"}

DrillTypeOK ==
    /\ scenario \in {"enabled", "disabled", "deleted"}
    /\ DrillRow(drill)
    /\ drillTenant \in {"default", "other"} /\ late \in BOOLEAN
    /\ \A r \in Actors : /\ drillPc[r] \in {"idle", "loaded", "reported"}
                         /\ drillOp[r] \in DrillOps
                         /\ DrillRow(drillView[r])
                         /\ acting[r] \subseteq Checklist
    /\ performed \in Seq(SUBSET Checklist)
    /\ reported \subseteq Checklist /\ unreported \in BOOLEAN
    /\ drillFaults \in 0..DrillMaxFaults

DrillInit ==
    /\ scenario = "enabled" /\ drill = NoDrill
    /\ drillTenant \in {"default", "other"} /\ late = FALSE
    /\ drillPc = [r \in Actors |-> "idle"] /\ drillOp = [r \in Actors |-> "start"]
    /\ drillView = [r \in Actors |-> NoDrill] /\ acting = [r \in Actors |-> {}]
    /\ performed = <<>> /\ reported = {} /\ unreported = FALSE /\ drillFaults = 0

-----------------------------------------------------------------------------
(* The score.                                                              *)

\* Mutant: an action counts for every item it mentions.
ScoreTwice(actions) == {hit \in Checklist \X DOMAIN actions : hit[1] \in actions[hit[2]]}

\* _score_run: in the order of the checklist, each item takes the first action that
\* mentions it and that no earlier item took.
Score(actions) ==
    LET hits[k \in 0..Items] ==
            IF k = 0 THEN {}
            ELSE LET used == {hit[2] : hit \in hits[k - 1]}
                     free == {i \in DOMAIN actions \ used : k \in actions[i]}
                 IN hits[k - 1] \cup {<<k, i>> : i \in {j \in free : \A l \in free : j <= l}}
    IN hits[Items]

Missed(score) == Checklist \ {hit[1] : hit \in score}

-----------------------------------------------------------------------------
(* Requests and the sweeper.                                               *)

\* update_scenario switches a scenario on or off; delete_scenario refuses while a run of
\* it is under way.
SwitchScenario ==
    /\ scenario # "deleted"
    /\ scenario' = IF scenario = "enabled" THEN "disabled" ELSE "enabled"
    /\ UNCHANGED <<drill, drillTenant, late, drillPc, drillOp, drillView, acting,
                   performed, reported, unreported, drillFaults>>

DeleteScenario ==
    /\ scenario # "deleted" /\ drill.status # "running"
    /\ scenario' = "deleted"
    /\ UNCHANGED <<drill, drillTenant, late, drillPc, drillOp, drillView, acting,
                   performed, reported, unreported, drillFaults>>

\* Mutant: only requests settle runs.
DrillAllowsRequests(r, o) ==
    /\ r # Sweeper
    /\ \/ o = "start" /\ scenario = "enabled" /\ drill.status = "none"
       \/ o \in {"finish", "abort"} /\ drill.status = "running"

\* What a request needs to find: a run under way, and for run_state's settlement one that
\* is late.  The sweeper settles the runs of the default tenant.
DrillAllows(r, o) ==
    IF r = Sweeper
    THEN o = "settle" /\ drillTenant = "default" /\ drill.status = "running" /\ late
    ELSE \/ o = "start" /\ scenario = "enabled" /\ drill.status = "none"
         \/ o \in {"finish", "abort"} /\ drill.status = "running"
         \/ o = "settle" /\ drill.status = "running" /\ late
         \/ /\ o = "record" /\ drill.status = "running"
            /\ Len(drill.actions) < MaxActions /\ Len(performed) < MaxActions
            /\ Together \/ \A q \in Actors : ~(drillPc[q] = "loaded" /\ drillOp[q] = "record")

LoadDrill(r, o) ==
    /\ drillPc[r] = "idle" /\ DrillAllows(r, o)
    /\ drillPc' = [drillPc EXCEPT ![r] = "loaded"]
    /\ drillOp' = [drillOp EXCEPT ![r] = o]
    /\ drillView' = [drillView EXCEPT ![r] = drill]
    /\ \E mentioned \in IF o = "record" THEN SUBSET Checklist ELSE {{}} :
          acting' = [acting EXCEPT ![r] = mentioned]
    /\ UNCHANGED <<scenario, drill, drillTenant, late, performed, reported, unreported,
                   drillFaults>>

SaveDrill(r, new) ==
    /\ drill' = Flushed(drill, drillView[r], new)
    /\ drillPc' = [drillPc EXCEPT ![r] = "idle"]
    /\ drillView' = [drillView EXCEPT ![r] = NoDrill]
    /\ acting' = [acting EXCEPT ![r] = {}]

\* start_run inserts the run with its own copy of the scenario.
StartDrill(r) ==
    /\ drillPc[r] = "loaded" /\ drillOp[r] = "start" /\ drill.status = "none"
    /\ SaveDrill(r, [NoDrill EXCEPT !.status = "running"])
    /\ UNCHANGED <<scenario, drillTenant, late, drillOp, performed, reported, unreported,
                   drillFaults>>

\* record_action writes the list it loaded with one more entry.
RecordAction(r) ==
    /\ drillPc[r] = "loaded" /\ drillOp[r] = "record"
    /\ SaveDrill(r, [drillView[r] EXCEPT !.actions = Append(drillView[r].actions, acting[r])])
    /\ performed' = Append(performed, acting[r])
    /\ UNCHANGED <<scenario, drillTenant, late, drillOp, reported, unreported, drillFaults>>

\* _emit_missed_quality, before the end of the run is committed; a failure is swallowed.
ReportMisses(r) ==
    /\ drillPc[r] = "loaded" /\ drillOp[r] \in {"finish", "settle", "abort"}
    /\ drillPc' = [drillPc EXCEPT ![r] = "reported"]
    /\ \/ /\ reported' = reported \cup Missed(Score(drillView[r].actions))
          /\ UNCHANGED <<unreported, drillFaults>>
       \/ /\ drillFaults < DrillMaxFaults /\ drillFaults' = drillFaults + 1
          /\ unreported' = TRUE
          /\ UNCHANGED reported
    /\ UNCHANGED <<scenario, drill, drillTenant, late, drillOp, drillView, acting, performed>>

\* finish_run writes the end, the score and a review, by the model or from the template;
\* abort_run writes no review.
EndedRow(row, o, review) ==
    [row EXCEPT !.status = IF o = "abort" THEN "aborted" ELSE "finished",
                !.score = Score(row.actions),
                !.review = review]

EndDrill(r) ==
    /\ drillPc[r] = "reported"
    /\ \E review \in CASE drillOp[r] = "finish" -> {"llm", "template"}
                       [] drillOp[r] = "settle" -> {"template"}
                       [] drillOp[r] = "abort"  -> {drillView[r].review} :
          SaveDrill(r, EndedRow(drillView[r], drillOp[r], review))
    /\ UNCHANGED <<scenario, drillTenant, late, drillOp, performed, reported, unreported,
                   drillFaults>>

DrillDies(r) ==
    /\ drillPc[r] # "idle" /\ drillFaults < DrillMaxFaults
    /\ drillFaults' = drillFaults + 1
    /\ drillPc' = [drillPc EXCEPT ![r] = "idle"]
    /\ drillView' = [drillView EXCEPT ![r] = NoDrill]
    /\ acting' = [acting EXCEPT ![r] = {}]
    /\ UNCHANGED <<scenario, drill, drillTenant, late, drillOp, performed, reported,
                   unreported>>

TimePasses ==
    /\ drill.status = "running" /\ ~late
    /\ late' = TRUE
    /\ UNCHANGED <<scenario, drill, drillTenant, drillPc, drillOp, drillView, acting,
                   performed, reported, unreported, drillFaults>>

\* sweep_timeout_runs, run by sweep_loop at its interval.
Sweep == LoadDrill(Sweeper, "settle") \/ ReportMisses(Sweeper) \/ EndDrill(Sweeper)

DrillNext ==
    \/ \E r \in DrillRequests :
          \/ \E o \in DrillOps : LoadDrill(r, o)
          \/ StartDrill(r) \/ RecordAction(r) \/ ReportMisses(r) \/ EndDrill(r)
    \/ Sweep
    \/ \E r \in Actors : DrillDies(r)
    \/ SwitchScenario \/ DeleteScenario \/ TimePasses

\* The loop outlives any failed round.
DrillFairness == WF_drillVars(Sweep)

DrillSpec == DrillInit /\ [][DrillNext]_drillVars /\ DrillFairness

-----------------------------------------------------------------------------
(* Properties.                                                             *)

\* While actions are recorded one at a time, no end of the run that overlaps a recording,
\* neither a settlement nor an abort, takes an acknowledged action back.
ActionsKept == ~Together => drill.actions = performed

\* The stored score credits an action to one item at most, and an item is missed only
\* when no action was left for it: the score is that of the actions up to some moment,
\* those that were recorded while the run was being ended being left out.
ScoreIsFair ==
    drill.status \in Ended /\ ~Together =>
        /\ \A h, g \in drill.score : h[1] = g[1] <=> h[2] = g[2]
        /\ \E n \in 0..Len(drill.actions) :
              /\ \A h \in drill.score : h[2] <= n /\ h[1] \in drill.actions[h[2]]
              /\ \A k \in Missed(drill.score), i \in 1..n :
                    k \in drill.actions[i] => \E h \in drill.score : h[2] = i

\* What an ended run missed was reported, even if the process stopped right after the end.
MissesReported ==
    drill.status \in Ended /\ ~unreported => Missed(drill.score) \subseteq reported

\* Ending a run keeps its actions, scores them fairly and reports its misses, whatever
\* recordings, sweeps and failures overlap it.
DrillKept == ActionsKept /\ ScoreIsFair /\ MissesReported

\* A run of the default tenant that is late ends, although nobody asks for its state.
LateDrillEnds ==
    (drill.status = "running" /\ late /\ drillTenant = "default") ~> (drill.status \in Ended)
=============================================================================
