------------------------------ MODULE Lifespan ------------------------------
(***************************************************************************)
(* The life of a process of the backend: the steps of its start, of which  *)
(* a few are required and most are passed over when they fail, the tasks   *)
(* it starts, and how they are stopped.  Processes share the database,     *)
(* whose tables and first administrator whoever comes first makes, and the *)
(* configuration in Redis, of which each holds what it needs in memory.    *)
(***************************************************************************)
EXTENDS Naturals, Sequences, SequencesExt, FiniteSets

CONSTANTS
    Procs,        \* processes of the backend
    Attempts,     \* attempts to reach MySQL, 0 to not wait for it
    Queues,       \* queues with a worker each
    Enabled,      \* sets of loops the settings may turn on
    Fallible,     \* components whose initialisation may fail
    Admins,       \* requests that change the configuration
    Slides,       \* whether reading from Redis renews the time of the key
    MaxLives,     \* bound: starts
    MaxSaves,     \* bound: changes of the configuration
    LifeMaxFaults \* bound: failures and kills

ASSUME LifeAssumption ==
    /\ Attempts \in Nat /\ Slides \in BOOLEAN
    /\ MaxLives \in Nat /\ MaxSaves \in Nat /\ LifeMaxFaults \in Nat

VARIABLES
    place,     \* place[p]: the step p is at, or up, draining, closing, down, aborted
    tried,     \* tried[p]: attempts to reach MySQL
    works,     \* works[p]: the fallible components that were initialised
    loopsOn,   \* the loops that are turned on
    tasks,     \* tasks[p]: the tasks that run
    tables,    \* whether the database has its tables
    admins,    \* the administrators in it
    savedDoc,    \* the configuration in Redis
    fading,    \* whether Redis will forget it
    hot,       \* hot[p]: the value p works with
    saving,    \* saving[a]: the change of a that is in Redis and not yet in memory
    astray,    \* history: the processes whose memory and Redis need not agree
    lives, saves, lifeFaults

lifeVars == <<place, tried, works, loopsOn, tasks, tables, admins, savedDoc, fading, hot,
              saving, astray, lives, saves, lifeFaults>>

\* Components in the order of the start.
Components ==
    <<"minio", "milvus", "memory", "bge", "neo4j", "otel", "mcp", "series", "config">>
EarlyLoops == <<"health", "llm", "warmup", "cleanup", "metrics">>
LateLoops == <<"evolution", "gap", "fix_rate", "decay", "reconcile", "report", "sweep", "eval">>

\* Mutant: the workers start with what waits for nothing, before the tools are there.
StartOrderWorkersFirst ==
    <<"mysql", "nacos", "tables", "columns", "look", "admin", "workers">> \o Components
        \o EarlyLoops \o <<"prewarm", "archive", "backup">> \o LateLoops

StartOrder ==
    <<"mysql", "nacos", "tables", "columns", "look", "admin">> \o Components \o EarlyLoops
        \o <<"prewarm", "archive", "backup", "workers">> \o LateLoops

Loops == Range(EarlyLoops) \cup {"archive", "backup"} \cup Range(LateLoops)
Workers == Queues \cup {"dispatcher"}

\* A queue has no name a loop has.
ASSUME NamesApart == Queues \cap Loops = {}

Unset == 9
Values == {0, 1}     \* 0 is the default
NoChange == [p |-> "none"]

LifespanTypeOK ==
    /\ \A p \in Procs : place[p] \in Range(StartOrder)
                                     \cup {"up", "draining", "closing", "down", "aborted"}
    /\ tried \in [Procs -> 0..Attempts] /\ works \in [Procs -> SUBSET Fallible]
    /\ loopsOn \subseteq Loops /\ tasks \in [Procs -> SUBSET (Loops \cup Workers)]
    /\ tables \in BOOLEAN /\ admins \in 0..1
    /\ savedDoc \in [ef : Values \cup {Unset}] /\ fading \in BOOLEAN /\ hot \in [Procs -> Values]
    /\ \A a \in Admins : saving[a] = NoChange \/ saving[a].p \in Procs
    /\ astray \subseteq Procs
    /\ lives \in 0..MaxLives /\ saves \in 0..MaxSaves /\ lifeFaults \in 0..LifeMaxFaults

LifespanInit ==
    /\ place = [p \in Procs |-> "down"] /\ tried = [p \in Procs |-> 0]
    /\ works = [p \in Procs |-> {}] /\ loopsOn \in Enabled
    /\ tasks = [p \in Procs |-> {}]
    /\ tables = FALSE /\ admins = 0
    /\ savedDoc = [ef |-> Unset] /\ fading = FALSE /\ hot = [p \in Procs |-> 0]
    /\ saving = [a \in Admins |-> NoChange] /\ astray = {}
    /\ lives = 0 /\ saves = 0 /\ lifeFaults = 0

dbVars == <<tables, admins>>
configVars == <<savedDoc, fading, hot, saving, astray, saves>>

After(step) ==
    LET i == CHOOSE j \in DOMAIN StartOrder : StartOrder[j] = step
    IN  IF i = Len(StartOrder) THEN "up" ELSE StartOrder[i + 1]

Before(step) == {StartOrder[i] : i \in {j \in DOMAIN StartOrder :
                    \E k \in (j + 1)..Len(StartOrder) : StartOrder[k] = step}}

StepTo(p, next) == place' = [place EXCEPT ![p] = next]
Proceeds(p, step) == place[p] = step /\ StepTo(p, After(step))
Faulty == lifeFaults < LifeMaxFaults /\ lifeFaults' = lifeFaults + 1

-----------------------------------------------------------------------------
(* The start.                                                              *)

Start(p) ==
    /\ place[p] \in {"down", "aborted"} /\ lives < MaxLives
    /\ lives' = lives + 1
    /\ StepTo(p, "mysql")
    /\ tried' = [tried EXCEPT ![p] = 0] /\ works' = [works EXCEPT ![p] = {}]
    /\ hot' = [hot EXCEPT ![p] = 0]
    /\ UNCHANGED <<loopsOn, tasks, dbVars, savedDoc, fading, saving, astray, saves, lifeFaults>>

\* The start ends in an error, and the process with it.
Aborts(p) == StepTo(p, "aborted") /\ Faulty

\* _wait_for_startup_dependencies.
WaitForMySQL(p) ==
    /\ place[p] = "mysql"
    /\ \/ StepTo(p, After("mysql")) /\ UNCHANGED <<tried, lifeFaults>>
       \/ /\ tried[p] + 1 < Attempts
          /\ tried' = [tried EXCEPT ![p] = @ + 1] /\ Faulty
          /\ UNCHANGED place
       \/ tried[p] + 1 = Attempts /\ Aborts(p) /\ UNCHANGED tried
    /\ UNCHANGED <<works, loopsOn, tasks, dbVars, configVars, lives>>

\* The central configuration is read, or not.
Override(p) ==
    /\ Proceeds(p, "nacos")
    /\ UNCHANGED <<tried, works, loopsOn, tasks, dbVars, configVars, lives, lifeFaults>>

\* init_db: the tables that are missing; another process may have made them meanwhile.
MakeTables(p) ==
    /\ place[p] = "tables"
    /\ \/ StepTo(p, "columns") /\ tables' = TRUE /\ UNCHANGED lifeFaults
       \/ Aborts(p) /\ UNCHANGED tables
    /\ UNCHANGED <<tried, works, loopsOn, tasks, admins, configVars, lives>>

\* A column that is there already is passed over, and one that cannot be made is reported.
AddColumns(p) ==
    /\ Proceeds(p, "columns")
    /\ UNCHANGED <<tried, works, loopsOn, tasks, dbVars, configVars, lives, lifeFaults>>

LookForAdmin(p) ==
    /\ place[p] = "look"
    /\ StepTo(p, IF admins = 0 THEN "admin" ELSE After("admin"))
    /\ UNCHANGED <<tried, works, loopsOn, tasks, dbVars, configVars, lives, lifeFaults>>

\* The names of users are unique: whoever comes second fails.
MakeAdmin(p) ==
    /\ place[p] = "admin"
    /\ IF admins = 0 THEN StepTo(p, After("admin")) /\ admins' = 1
       ELSE StepTo(p, "aborted") /\ UNCHANGED admins
    /\ UNCHANGED <<tried, works, loopsOn, tasks, tables, configVars, lives, lifeFaults>>

\* load_runtime: what Redis does not say, or does not tell, stays at its default.
EfOf(doc) == IF doc.ef = Unset THEN 0 ELSE doc.ef

LoadRuntime(p, ok) ==
    /\ hot' = [hot EXCEPT ![p] = IF ok THEN EfOf(savedDoc) ELSE 0]
    /\ fading' = (fading \/ (ok /\ Slides /\ savedDoc.ef # Unset))
    /\ astray' = IF ok /\ \A a \in Admins : saving[a] = NoChange THEN astray \ {p}
                 ELSE astray \cup {p}
    /\ UNCHANGED <<savedDoc, saving, saves>>

\* A component is initialised, tried again as often as is set, or done without.
Initialise(p) ==
    /\ place[p] \in Range(Components) /\ StepTo(p, After(place[p]))
    /\ \/ /\ works' = [works EXCEPT ![p] = @ \cup ({place[p]} \cap Fallible)]
          /\ IF place[p] = "config" THEN LoadRuntime(p, TRUE) ELSE UNCHANGED configVars
          /\ UNCHANGED lifeFaults
       \/ /\ place[p] \in Fallible /\ Faulty
          /\ IF place[p] = "config" THEN LoadRuntime(p, FALSE) ELSE UNCHANGED configVars
          /\ UNCHANGED works
    /\ UNCHANGED <<tried, loopsOn, tasks, dbVars, lives>>

\* The cache is filled once, waited for.
Prewarm(p) ==
    /\ Proceeds(p, "prewarm")
    /\ UNCHANGED <<tried, works, loopsOn, tasks, dbVars, configVars, lives, lifeFaults>>

StartLoop(p) ==
    /\ place[p] \in Loops /\ StepTo(p, After(place[p]))
    /\ tasks' = [tasks EXCEPT ![p] = @ \cup ({place[p]} \cap (loopsOn \cup {"health"}))]
    /\ UNCHANGED <<tried, works, loopsOn, dbVars, configVars, lives, lifeFaults>>

\* start_background_workers: one for each queue, and one for the events.
StartWorkers(p) ==
    /\ Proceeds(p, "workers")
    /\ \/ tasks' = [tasks EXCEPT ![p] = @ \cup Workers] /\ UNCHANGED lifeFaults
       \/ UNCHANGED tasks /\ Faulty
    /\ UNCHANGED <<tried, works, loopsOn, dbVars, configVars, lives>>

-----------------------------------------------------------------------------
(* The end.                                                                *)

\* The workers are asked to stop ...
Stop(p) ==
    /\ place[p] = "up" /\ \A a \in Admins : saving[a] # NoChange => saving[a].p # p
    /\ StepTo(p, "draining")
    /\ UNCHANGED <<tried, works, loopsOn, tasks, dbVars, configVars, lives, lifeFaults>>

\* ... and end with the job they are at ...
WorkerEnds(p, w) ==
    /\ place[p] = "draining" /\ w \in tasks[p] \cap Workers
    /\ tasks' = [tasks EXCEPT ![p] = @ \ {w}]
    /\ UNCHANGED <<place, tried, works, loopsOn, dbVars, configVars, lives, lifeFaults>>

\* ... or are cancelled after five seconds, and waited for; their jobs stay claimed.
CancelWorkers(p) ==
    /\ place[p] = "draining" /\ tasks[p] \cap Workers # {} /\ Faulty
    /\ tasks' = [tasks EXCEPT ![p] = @ \ Workers]
    /\ UNCHANGED <<place, tried, works, loopsOn, dbVars, configVars, lives>>

Cancelled == Loops

\* The loops are cancelled one after the other without giving way, then connections closed.
CancelLoops(p) ==
    /\ place[p] = "draining" /\ tasks[p] \cap Workers = {}
    /\ StepTo(p, "closing")
    /\ tasks' = [tasks EXCEPT ![p] = @ \ Cancelled]
    /\ UNCHANGED <<tried, works, loopsOn, dbVars, configVars, lives, lifeFaults>>

ProcessEnds(p) ==
    /\ StepTo(p, "down")
    /\ tasks' = [tasks EXCEPT ![p] = {}]
    /\ saving' = [a \in Admins |-> IF saving[a] # NoChange /\ saving[a].p = p THEN NoChange
                                   ELSE saving[a]]
    /\ UNCHANGED <<tried, works, loopsOn, dbVars, savedDoc, fading, hot, astray, saves, lives>>

CloseClients(p) == place[p] = "closing" /\ ProcessEnds(p) /\ UNCHANGED lifeFaults

Kill(p) == place[p] \notin {"down", "aborted"} /\ Faulty /\ ProcessEnds(p)

-----------------------------------------------------------------------------
(* The configuration while processes serve.                                *)

\* update_milvus_config and its like: the whole document is replaced in Redis, with or
\* without the value that is kept in memory ...
Save(p, a, doc) ==
    /\ place[p] = "up" /\ saving[a] = NoChange /\ saves < MaxSaves
    /\ saves' = saves + 1
    /\ savedDoc' = doc /\ fading' = FALSE
    /\ saving' = [saving EXCEPT ![a] = [p |-> p, doc |-> doc]]
    /\ astray' = astray \cup (Procs \ {p})
                 \cup IF doc.ef = Unset \/ \E b \in Admins : saving[b] # NoChange THEN {p} ELSE {}
    /\ UNCHANGED <<place, tried, works, loopsOn, tasks, dbVars, hot, lives, lifeFaults>>

\* ... and the value then in memory.
SetHot(a) ==
    /\ saving[a] # NoChange
    /\ hot' = IF saving[a].doc.ef = Unset THEN hot
              ELSE [hot EXCEPT ![saving[a].p] = saving[a].doc.ef]
    /\ saving' = [saving EXCEPT ![a] = NoChange]
    /\ UNCHANGED <<place, tried, works, loopsOn, tasks, dbVars, savedDoc, fading, astray, saves,
                   lives, lifeFaults>>

ReadConfig(p) ==
    /\ place[p] = "up" /\ savedDoc.ef # Unset
    /\ fading' = (fading \/ Slides)
    /\ UNCHANGED <<place, tried, works, loopsOn, tasks, dbVars, savedDoc, hot, saving, astray,
                   saves, lives, lifeFaults>>

\* Redis forgets what has a time.
Fade ==
    /\ fading
    /\ savedDoc' = [ef |-> Unset] /\ fading' = FALSE /\ astray' = Procs
    /\ UNCHANGED <<place, tried, works, loopsOn, tasks, dbVars, hot, saving, saves, lives,
                   lifeFaults>>

LifespanNext ==
    \/ Fade
    \/ \E a \in Admins :
          SetHot(a) \/ \E p \in Procs, v \in Values \cup {Unset} : Save(p, a, [ef |-> v])
    \/ \E p \in Procs :
          \/ Start(p) \/ WaitForMySQL(p) \/ Override(p)
          \/ MakeTables(p) \/ AddColumns(p) \/ LookForAdmin(p) \/ MakeAdmin(p)
          \/ Initialise(p) \/ Prewarm(p) \/ StartLoop(p) \/ StartWorkers(p)
          \/ Stop(p) \/ CancelWorkers(p) \/ CancelLoops(p) \/ CloseClients(p) \/ Kill(p)
          \/ ReadConfig(p) \/ \E w \in Workers : WorkerEnds(p, w)

LifespanSpec == LifespanInit /\ [][LifespanNext]_lifeVars

-----------------------------------------------------------------------------
(* Properties.                                                             *)

\* A process serves, and its workers work, only on a database that has its tables and an
\* administrator, however many processes start at once.
ServesOnADatabase ==
    \A p \in Procs :
        place[p] = "up" \/ tasks[p] \cap Workers # {} => tables /\ admins = 1

\* The workers start when every component has been tried and the configuration is loaded.
WorkersComeLast ==
    \A p \in Procs :
        tasks[p] \cap Workers # {} => place[p] \notin Range(Components) \cup Before("minio")

\* A start that fails leaves no task behind, and connections are closed only when every task
\* has been told to end.
ToldBeforeClosed ==
    \A p \in Procs : place[p] \in {"closing", "down", "aborted"} => tasks[p] = {}

\* What a process works with is what Redis holds, once no change is under way, unless changes
\* overlapped, left the value out or were made in another process.
HotIsStored ==
    \A p \in Procs :
        place[p] = "up" /\ p \notin astray /\ (\A a \in Admins : saving[a] = NoChange)
            => hot[p] = EfOf(savedDoc)

\* A process serves on a database, starts its workers last, ends its tasks before it closes its
\* connections, and works with what it stored.
LifespanHolds == ServesOnADatabase /\ WorkersComeLast /\ ToldBeforeClosed /\ HotIsStored

\* "After all providers, MCP tools and the configuration are ready": a worker has the tools.
WorkersHaveTools == \A p \in Procs : tasks[p] \cap Workers # {} => "mcp" \in works[p]

\* "Kept in Redis, not lost by a restart": what an administrator saved is there until it is
\* replaced.
SavedStays == [][savedDoc.ef # Unset /\ saves' = saves => savedDoc' = savedDoc]_lifeVars
=============================================================================
