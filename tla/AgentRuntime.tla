---------------------------- MODULE AgentRuntime ----------------------------
(***************************************************************************)
(* The loop of an agent: a model asks for tools until it answers.          *)
(*                                                                         *)
(* Each turn is a call of the model, which is offered the tools of the     *)
(* persona and may name any; the registry checks the role, runs the tool   *)
(* and has a task write the audit.  Too many turns, or a model that fails, *)
(* leave the answer to the fallback of the persona.  With the consent of   *)
(* the call the loop begins with what is remembered of the user and ends   *)
(* with a task that extracts facts from the dialogue (AgentMemory).        *)
(*                                                                         *)
(* Every tool there is takes a tenant, so the refusal of one that does not *)
(* is left out; so are the texts, and the answer cut out of them.          *)
(***************************************************************************)
EXTENDS AgentMemory

CONSTANTS
    AgentCalls,     \* who runs an agent: a trusted context or none, and its consents
    Personas,       \* Personas[p]: the tools offered, the turns, whether there is a fallback
    Toolbox,        \* Toolbox[t]: the roles a tool is for (none: for all), and whether it writes
    MaxAgentRuns    \* bound: runs; the next begins when the loop of the last has ended

ASSUME AgentAssumption ==
    /\ MaxAgentRuns \in Nat
    /\ AgentCalls \subseteq [ctx : BOOLEAN, owner : Owners, role : STRING,
                             persona : DOMAIN Personas, reads : BOOLEAN, writes : BOOLEAN]
    /\ "" \notin DOMAIN Personas  \* the persona of rows that are for any of them

VARIABLES
    agentRuns,      \* the runs: the call, the turn, the tools asked for and the steps made
    toolWrites,     \* history: <<run, tool>> of the writes that tools made
    toolAudits,     \* MySQL: <<run, step>> of the calls of tools on record
    memoryOn,       \* the settings of the memory that are on
    agentTools,     \* bound: the models ask for tools, or the memory changes
    agentAlone      \* no run begins before the memory of the last is written

agentVars == <<memVars, agentRuns, toolWrites, toolAudits, memoryOn, agentTools, agentAlone>>

Reads(call) == call.reads \/ call.writes
PersonaOf(a) == Personas[agentRuns[a].call.persona]
AgentAt(a, pc) == agentRuns[a].pc = pc

AgentTypeOK ==
    /\ Len(memRows) <= MaxMemories /\ memVectors \cup memHot \subseteq 1..MaxMemories
    /\ \A i \in DOMAIN memRows : /\ memRows[i].owner \in Owners /\ memRows[i].fact \in MemFacts
                                 /\ memRows[i].state \in {"kept", "dropped", "overdue", "purged"}
                                 /\ memRows[i].weight \in 0..2
    /\ \A p \in memPrefs : \E o \in Owners : p[1] = o.user
    /\ DOMAIN memJobs = DOMAIN agentRuns
    /\ \A a \in DOMAIN agentRuns :
          /\ agentRuns[a].pc \in {"recall", "think", "tools", "fallback", "answered", "degraded"}
          /\ agentRuns[a].turn <= PersonaOf(a).turns
          /\ memJobs[a].pc \in {"none", "asked", "admitted"}
    /\ Len(agentRuns) <= MaxAgentRuns

AgentInit ==
    /\ MemoryInit
    /\ agentRuns = <<>> /\ toolWrites = {} /\ toolAudits = {}
    /\ memoryOn \in SUBSET {"enable", "auto_save"}
    /\ agentTools \in BOOLEAN /\ agentAlone \in BOOLEAN

MemStep == UNCHANGED <<toolWrites, toolAudits, memoryOn, agentTools, agentAlone>>
LoopStep == UNCHANGED <<memRows, MemStores, memTold, MemPast, memoryOn, agentTools, agentAlone>>

LoopEnded(a) == agentRuns[a].pc \in {"answered", "degraded"}

StartAgent ==
    /\ Len(agentRuns) < MaxAgentRuns
    /\ \A a \in DOMAIN agentRuns : LoopEnded(a)
    /\ agentAlone => \A a \in DOMAIN memJobs : memJobs[a] = NoJobs
    /\ \E call \in AgentCalls :
          LET recalls == call.ctx /\ "enable" \in memoryOn /\ Reads(call) IN
          /\ agentRuns' = Append(agentRuns, [call |-> call, turn |-> 0, asked |-> <<>>, steps |-> <<>>,
                                             pc |-> IF recalls THEN "recall" ELSE "think"])
          /\ memTold' = IF recalls THEN [NothingTold EXCEPT !.pc = "asked",
                                              !.gone = {i \in DOMAIN memRows : ~Kept(i)}]
                        ELSE NothingTold
    /\ memJobs' = Append(memJobs, NoJobs)
    /\ UNCHANGED <<memRows, MemStores, MemPast, memFaults>> /\ MemStep

\* A store that fails ends its part of the recall, which tells less.
Recall(a) ==
    LET call == agentRuns[a].call IN
    /\ AgentAt(a, "recall")
    /\ \/ RecallRecent(call.owner, call.persona) /\ UNCHANGED agentRuns
       \/ RecallSimilar(call.owner, call.persona) /\ UNCHANGED agentRuns
       \/ RecallPreferences(call.owner) /\ agentRuns' = [agentRuns EXCEPT ![a].pc = "think"]
    /\ MemStep

\* The facts a model finds in the dialogue, if the call and the operator want them saved.
AskToRemember(a) ==
    LET call == agentRuns[a].call IN
    IF call.ctx /\ "auto_save" \in memoryOn /\ call.writes
    THEN \E count \in 0..2 : \E facts \in [1..count -> MemFacts] :
            memJobs' = [memJobs EXCEPT ![a] =
                          IF facts = <<>> THEN NoJobs
                          ELSE [NoJobs EXCEPT !.pc = "asked", !.owner = call.owner,
                                              !.agent = call.persona, !.facts = facts]]
    ELSE UNCHANGED memJobs

\* A turn: the model answers, asks for tools, or fails.
Think(a) ==
    LET me == agentRuns[a]  turn == me.turn + 1 IN
    /\ AgentAt(a, "think") /\ me.turn < PersonaOf(a).turns
    /\ \/ \E asked \in {<<t>> : t \in DOMAIN Toolbox \cup {"unknown"}}
                      \cup {<<"unknown", t>> : t \in DOMAIN Toolbox} :
             /\ agentTools
             /\ agentRuns' = [agentRuns EXCEPT ![a].turn = turn, ![a].pc = "tools",
                                               ![a].asked = asked]
             /\ UNCHANGED <<memJobs, memFaults>>
       \/ /\ agentRuns' = [agentRuns EXCEPT ![a].turn = turn, ![a].pc = "answered"]
          /\ AskToRemember(a)
          /\ UNCHANGED memFaults
       \/ /\ agentRuns' = [agentRuns EXCEPT ![a].turn = turn, ![a].pc = "fallback"]
          /\ MemFault /\ UNCHANGED memJobs
    /\ UNCHANGED <<toolWrites, toolAudits>> /\ LoopStep

OutOfTurns(a) ==
    /\ AgentAt(a, "think") /\ agentRuns[a].turn = PersonaOf(a).turns
    /\ agentRuns' = [agentRuns EXCEPT ![a].pc = "fallback"]
    /\ UNCHANGED <<memJobs, toolWrites, toolAudits, memFaults>> /\ LoopStep

\* The fallback may fail as well: the result is degraded either way, and is not remembered.
Fallback(a) ==
    /\ AgentAt(a, "fallback")
    /\ agentRuns' = [agentRuns EXCEPT ![a].pc = "degraded"]
    /\ UNCHANGED <<memJobs, toolWrites, toolAudits, memFaults>> /\ LoopStep

\* ToolRegistry.run: without a context no role is asked for.
Denied(call, tool) == call.ctx /\ Toolbox[tool].roles # {} /\ call.role \notin Toolbox[tool].roles

\* Mutant: a call without a context goes unrecorded, as it once did.
AuditedWithContext(a, step, tool) ==
    IF tool = "unknown" \/ ~agentRuns[a].call.ctx THEN toolAudits
    ELSE toolAudits \cup {<<a, step>>}

\* Every call of a tool there is, denied or not, goes on record in a task of its own.
Audited(a, step, tool) ==
    IF tool = "unknown" THEN toolAudits ELSE toolAudits \cup {<<a, step>>}

RunTool(a) ==
    LET me == agentRuns[a]
        tool == Head(me.asked)
        step == Len(me.steps) + 1
        runs == tool # "unknown" /\ ~Denied(me.call, tool)
        After(fails) ==
            [agentRuns EXCEPT ![a].steps = Append(@, [tool |-> tool, turn |-> me.turn,
                                                      error |-> fails \/ ~runs]),
                              ![a].asked = Tail(@),
                              ![a].pc = IF Tail(me.asked) = <<>> THEN "think" ELSE "tools"]
    IN /\ AgentAt(a, "tools")
       /\ \/ /\ agentRuns' = After(FALSE)
             /\ toolWrites' = IF runs /\ Toolbox[tool].writes
                              THEN toolWrites \cup {<<a, tool>>} ELSE toolWrites
             /\ toolAudits' = Audited(a, step, tool)
             /\ UNCHANGED memFaults
          \/ /\ runs /\ MemFault
             /\ agentRuns' = After(TRUE)
             /\ toolAudits' = Audited(a, step, tool) /\ UNCHANGED toolWrites
          \/ /\ runs /\ MemFault
             /\ agentRuns' = After(FALSE)
             /\ toolWrites' = IF Toolbox[tool].writes THEN toolWrites \cup {<<a, tool>>} ELSE toolWrites
             /\ UNCHANGED toolAudits
       /\ UNCHANGED memJobs /\ LoopStep

MemoryStep == ~agentTools /\ MemoryNext /\ UNCHANGED agentRuns /\ MemStep

AgentNext ==
    \/ StartAgent
    \/ \E a \in DOMAIN agentRuns :
          Recall(a) \/ Think(a) \/ OutOfTurns(a) \/ RunTool(a) \/ Fallback(a)
    \/ MemoryStep

AgentSpec == AgentInit /\ [][AgentNext]_agentVars
-----------------------------------------------------------------------------
\* A tool that writes ran for a role it is for, whatever the model asked for; only the calls
\* without a context (the old diagnosis) go unchecked.
WritesAreAuthorised ==
    \A w \in toolWrites :
        LET call == agentRuns[w[1]].call IN
        call.ctx /\ Toolbox[w[2]].roles # {} => call.role \in Toolbox[w[2]].roles

\* What tools did is on record, denied calls and those without a context included.
CallsAreOnRecord ==
    memFaults = 0 => \A a \in DOMAIN agentRuns : \A n \in DOMAIN agentRuns[a].steps :
        agentRuns[a].steps[n].tool # "unknown" => <<a, n>> \in toolAudits

\* A fact is remembered of a user who consented in the call, of a persona that answered
\* without a fallback, with both settings of the operator on.
RememberedWithConsent ==
    \A i \in DOMAIN memRows : memRows[i].mode \in Explicit =>
        /\ "auto_save" \in memoryOn
        /\ LET a == memRows[i].by IN
              /\ AgentAt(a, "answered")
              /\ agentRuns[a].call.writes /\ agentRuns[a].call.owner = memRows[i].owner
              /\ agentRuns[a].call.persona = memRows[i].agent

\* A run is told facts of its own user and persona that were saved with consent and were not
\* forgotten when it began, whatever the vectors and the list of recent facts hold.
ToldIsOwned ==
    memTold.rows # {} =>
        LET call == Last(agentRuns).call IN
        /\ "enable" \in memoryOn /\ call.ctx /\ Reads(call)
        /\ \A i \in memTold.rows :
              /\ memRows[i].owner = call.owner /\ memRows[i].agent = call.persona
              /\ memRows[i].mode \in Explicit /\ i \notin memTold.gone

\* A user has no more facts than the capacity, one consolidation at a time.
CapacityKept == agentAlone => \A o \in Owners : Cardinality(KeptOf(o)) <= Capacity

\* What has been purged cannot be found by its vector.
PurgedLeavesNoVector ==
    memFaults = 0 => \A i \in memVectors : memRows[i].state # "purged"

\* Tools run for those who may use them and leave a trace, and memories keep to their owners.
AgentsHold ==
    /\ WritesAreAuthorised /\ CallsAreOnRecord /\ RememberedWithConsent /\ ToldIsOwned
    /\ CapacityKept /\ PurgedLeavesNoVector

\* "防止跨租户同名用户串扰" (agent_memory_service.py:42): a run is told of its own tenant alone.
\* TLC refutes it: the edges of the graph go under the user's name.
PreferencesStayInTenant ==
    \A e \in memTold.prefs : \E i \in DOMAIN memRows :
        About[memRows[i].fact] = e /\ memRows[i].owner = Last(agentRuns).call.owner

\* "forget 时调用" (neo4j_client.py:249): what was forgotten is told no more.  TLC refutes it:
\* nothing calls the deletion of the edge.
ForgottenStaysForgotten ==
    \A e \in memTold.prefs : \E i \in DOMAIN memRows :
        About[memRows[i].fact] = e /\ memRows[i].mode \in Explicit /\ i \notin memTold.gone

\* "淘汰权重最低的 facts_to_write 条" (agent_memory_service.py:144): rows go to make room for what
\* is written.  TLC refutes it: what is known already, or cannot be embedded, evicts too.
EvictedForSomething == memLost = {}

\* "去重" (agent_memory_service.py:163): one user has a fact once.  TLC refutes it: a batch may
\* hold it twice, and two consolidations do not see each other.
FactsAreDistinct ==
    \A o \in Owners : \A i, j \in KeptOf(o) : memRows[i].fact = memRows[j].fact => i = j

\* "工具子集" (agent_runtime.py:191): a persona uses the tools it was given.  TLC refutes it: the
\* registry runs whatever the model names.
OnlyToolsOfPersona ==
    \A a \in DOMAIN agentRuns : \A n \in DOMAIN agentRuns[a].steps :
        agentRuns[a].steps[n].error \/ agentRuns[a].steps[n].tool \in PersonaOf(a).tools
=============================================================================
