----------------------------- MODULE AgentMemory -----------------------------
(***************************************************************************)
(* The long-term memory of agents: facts a model extracts from a dialogue. *)
(*                                                                         *)
(* A fact is a row (MySQL), a vector (Milvus), an edge from the user to    *)
(* what it is about (Neo4j) and an entry of a list of recent facts         *)
(* (Redis).  Only the rows are transactional, and they alone carry who may *)
(* be told: the other stores lead to a row or, the graph, stand by         *)
(* themselves.  Forgetting marks the row; a daily pass lowers the weight   *)
(* of what nobody asked for and purges what was forgotten long ago.        *)
(***************************************************************************)
EXTENDS Naturals, FiniteSets, SequencesExt

CONSTANTS
    Owners,         \* records of a tenant and a user name
    About,          \* About[f]: what fact f is about, or ""
    Capacity,       \* MEMORY_CAPACITY
    MaxMemories,    \* bound: rows
    MaxMemorySpans, \* bound: long periods that pass
    MaxForgets,     \* bound: facts that are forgotten
    MemMaxFaults    \* bound: stores that fail

ASSUME MemoryAssumption ==
    /\ {Capacity, MaxMemories, MaxMemorySpans, MaxForgets, MemMaxFaults} \subseteq Nat
    /\ Capacity >= 2  \* 500 as delivered: what a dialogue yields, here two facts, has room
    /\ \A o \in Owners : DOMAIN o = {"tenant", "user"}

VARIABLES
    memRows,        \* MySQL: the rows of agent_memory
    memVectors,     \* Milvus: fact ids, each under the owner of its row
    memHot,         \* Redis: fact ids, the same
    memPrefs,       \* Neo4j: <<user name, entity>>
    memJobs,        \* the consolidations under way, by the run of an agent they follow
    memTold,        \* what the run at hand was told
    memLost,        \* history: rows evicted for facts none of which was written
    memSpans, memForgets, memFaults

memVars == <<memRows, memVectors, memHot, memPrefs, memJobs, memTold, memLost, memSpans,
             memForgets, memFaults>>

MemFacts == DOMAIN About
NoJobs == [pc |-> "none", owner |-> CHOOSE o \in Owners : TRUE, agent |-> "", facts |-> <<>>,
           evicted |-> {}]
NothingTold == [pc |-> "none", gone |-> {}, rows |-> {}, prefs |-> {}]

Kept(i) == memRows[i].state = "kept"
RowsOf(owner) == {i \in DOMAIN memRows : memRows[i].owner = owner}
KeptOf(owner) == {i \in RowsOf(owner) : Kept(i)}
Explicit == {"explicit", "explicit_opt_in"}

MemoryInit ==
    /\ \E owner \in Owners, f \in MemFacts :
          memRows = <<[owner |-> owner, agent |-> "", by |-> 0, fact |-> f, mode |-> "legacy", weight |-> 2,
                       idle |-> 0, state |-> "kept"]>>
    /\ memVectors = {1} /\ memHot = {1} /\ memPrefs = {}
    /\ memJobs = <<>> /\ memTold = NothingTold
    /\ memLost = {} /\ memSpans = 0 /\ memForgets = 0 /\ memFaults = 0

MemFault == memFaults < MemMaxFaults /\ memFaults' = memFaults + 1
MemStores == <<memVectors, memHot, memPrefs>>
MemPast == <<memLost, memSpans, memForgets>>
-----------------------------------------------------------------------------
\* consolidate: without a free slot, as many of the lightest rows go as there are facts.
Evictions(owner, count) ==
    {S \in SUBSET KeptOf(owner) :
        /\ Cardinality(S) = IF count < Cardinality(KeptOf(owner)) THEN count
                            ELSE Cardinality(KeptOf(owner))
        /\ \A i \in S, j \in KeptOf(owner) \ S : memRows[i].weight <= memRows[j].weight}

Evicted(rows, S) == [i \in DOMAIN rows |-> IF i \in S THEN [rows[i] EXCEPT !.state = "dropped"]
                                           ELSE rows[i]]

FactsOf(owner, rows) ==
    {rows[i].fact : i \in {j \in DOMAIN rows : rows[j].owner = owner /\ rows[j].state = "kept"}}

\* The elements of a list at these positions, in their order.
FactsAt(list, positions) ==
    [n \in 1..Cardinality(positions) |->
        list[CHOOSE i \in positions : Cardinality({j \in positions : j < i}) = n - 1]]

\* The slots are counted, the evictions committed, and what is known already is left out.
Admit(a) ==
    LET job == memJobs[a]
        free == Cardinality(KeptOf(job.owner)) < Capacity
        slots == IF free THEN Capacity - Cardinality(KeptOf(job.owner)) ELSE Len(job.facts)
    IN /\ job.pc = "asked"
       /\ \E S \in IF free THEN {{}} ELSE Evictions(job.owner, Len(job.facts)) :
             LET left == Evicted(memRows, S)
                 new == {i \in DOMAIN job.facts :
                            i <= slots /\ job.facts[i] \notin FactsOf(job.owner, left)}
             IN /\ memRows' = left
                /\ memJobs' = [memJobs EXCEPT ![a] =
                                 IF new = {} THEN NoJobs
                                 ELSE [@ EXCEPT !.pc = "admitted", !.evicted = S,
                                                !.facts = FactsAt(job.facts, new)]]
                /\ memLost' = IF new = {} THEN memLost \cup S ELSE memLost
       /\ UNCHANGED <<MemStores, memTold, memSpans, memForgets, memFaults>>

\* The embedding fails: nothing is written, and what was evicted stays evicted.
EmbeddingFails(a) ==
    /\ memJobs[a].pc = "admitted" /\ MemFault
    /\ memJobs' = [memJobs EXCEPT ![a] = NoJobs]
    /\ memLost' = memLost \cup memJobs[a].evicted
    /\ UNCHANGED <<memRows, MemStores, memTold, memSpans, memForgets>>

\* Vectors, edges and the list of recent facts come before the commit; each may fail alone.
NewIds(a) == {Len(memRows) + i : i \in DOMAIN memJobs[a].facts}
\* The edge goes under the name of the user alone.
PrefOf(owner, fact) == IF About[fact] = "" THEN {} ELSE {<<owner.user, About[fact]>>}

Consolidate(a) ==
    LET job == memJobs[a] IN
    /\ job.pc = "admitted" /\ Len(memRows) + Len(job.facts) <= MaxMemories
    /\ memRows' = memRows \o [i \in DOMAIN job.facts |->
                    [owner |-> job.owner, agent |-> job.agent, by |-> a, fact |-> job.facts[i],
                     mode |-> "explicit_opt_in", weight |-> 2, idle |-> 0, state |-> "kept"]]
    /\ \E failed \in {{}, {"vectors"}, {"prefs"}, {"hot"}} :
          /\ IF failed = {} THEN UNCHANGED memFaults ELSE MemFault
          /\ memVectors' = IF "vectors" \in failed THEN memVectors ELSE memVectors \cup NewIds(a)
          /\ memHot' = IF "hot" \in failed THEN memHot ELSE memHot \cup NewIds(a)
          /\ memPrefs' = IF "prefs" \in failed THEN memPrefs
                         ELSE memPrefs \cup UNION {PrefOf(job.owner, f) : f \in ToSet(job.facts)}
    /\ memJobs' = [memJobs EXCEPT ![a] = NoJobs]
    /\ UNCHANGED <<memTold, MemPast>>
-----------------------------------------------------------------------------
\* Who may be told a row: its user in its tenant, by the persona that wrote it or by any.
Tellable(owner, agent) ==
    {i \in KeptOf(owner) : memRows[i].mode \in Explicit /\ memRows[i].agent \in {agent, ""}}

TellMore(pc, rows, prefs) ==
    memTold' = [memTold EXCEPT !.pc = pc, !.rows = @ \cup rows, !.prefs = @ \cup prefs]

RecallRecent(owner, agent) ==
    /\ memTold.pc = "asked"
    /\ TellMore("recent", memHot \cap Tellable(owner, agent), {})
    /\ UNCHANGED <<memRows, MemStores, memJobs, MemPast, memFaults>>

\* The search, whose hits are read again as rows; they become recent.
RecallSimilar(owner, agent) ==
    /\ memTold.pc = "recent"
    /\ \E hits \in SUBSET (memVectors \cap Tellable(owner, agent)) :
          /\ TellMore("similar", hits, {})
          /\ memHot' = memHot \cup hits
          /\ memRows' = [i \in DOMAIN memRows |->
                           IF i \in hits THEN [memRows[i] EXCEPT !.idle = 0] ELSE memRows[i]]
    /\ UNCHANGED <<memVectors, memPrefs, memJobs, MemPast, memFaults>>

RecallPreferences(owner) ==
    /\ memTold.pc = "similar"
    /\ TellMore("told", {}, {p[2] : p \in {q \in memPrefs : q[1] = owner.user}})
    /\ UNCHANGED <<memRows, MemStores, memJobs, MemPast, memFaults>>

\* A user forgets a row of the tenant; the list of recent facts may be out of reach.
Forget(i) ==
    /\ memForgets < MaxForgets /\ memRows[i].state # "purged"
    /\ memForgets' = memForgets + 1
    /\ memRows' = [memRows EXCEPT ![i].state = "dropped"]
    /\ \/ memHot' = memHot \ {i} /\ UNCHANGED memFaults
       \/ MemFault /\ UNCHANGED memHot
    /\ UNCHANGED <<memVectors, memPrefs, memJobs, memTold, memLost, memSpans>>

\* Ninety days without a hit, which is also more than a forgotten row is kept.
SpanPasses ==
    /\ memSpans < MaxMemorySpans /\ memSpans' = memSpans + 1
    /\ memRows' = [i \in DOMAIN memRows |->
                     [memRows[i] EXCEPT !.idle = IF @ < 2 THEN @ + 1 ELSE @,
                                        !.state = IF @ = "dropped" THEN "overdue" ELSE @]]
    /\ UNCHANGED <<MemStores, memJobs, memTold, memLost, memForgets, memFaults>>

\* decay: the overdue rows go, with their vectors; what was not asked for weighs less.
Decay ==
    LET overdue == {i \in DOMAIN memRows : memRows[i].state = "overdue"}
        idle == {i \in DOMAIN memRows : Kept(i) /\ memRows[i].idle > 0}
        Lighter(row) == [row EXCEPT !.weight = IF row.idle >= row.weight THEN 0 ELSE @ - row.idle]
    IN /\ overdue \cup idle # {}
       /\ memRows' = [i \in DOMAIN memRows |->
                        IF i \in overdue THEN [memRows[i] EXCEPT !.state = "purged"]
                        ELSE IF i \in idle THEN Lighter(memRows[i]) ELSE memRows[i]]
       /\ \/ memVectors' = memVectors \ overdue /\ UNCHANGED memFaults
          \/ overdue # {} /\ MemFault /\ UNCHANGED memVectors
       /\ UNCHANGED <<memHot, memPrefs, memJobs, memTold, MemPast>>

MemoryNext ==
    \/ \E a \in DOMAIN memJobs : Admit(a) \/ EmbeddingFails(a) \/ Consolidate(a)
    \/ \E i \in DOMAIN memRows : Forget(i)
    \/ SpanPasses \/ Decay
=============================================================================
