------------------------------ MODULE Workflows ------------------------------
(***************************************************************************)
(* Workflows: graphs that people draw, and the runs of them.               *)
(*                                                                         *)
(* A creation is refused if its name is in use; a save may rename, and     *)
(* asks for nothing.  A save of a graph validates it and raises the        *)
(* version of the row.  Starting a run commits a "running" row and leaves  *)
(* the execution to a task, which reads the workflow again and goes        *)
(* through its nodes in a topological order: a node that no executed node  *)
(* leads to is skipped, a condition activates one branch only, a node that *)
(* fails activates nothing.                                                *)
(*                                                                         *)
(* The text of a node is abstracted to the node it comes from; 0 is no     *)
(* text.  A node whose type or parameters are refused has the type         *)
(* "unfit"; templates, and the names that variables go by, are left out.   *)
(***************************************************************************)
EXTENDS Naturals, FiniteSets, SequencesExt, OrmSession

CONSTANTS
    Designers,      \* concurrent requests
    Sketches,       \* the graphs they save: types of the nodes, and edges in their order
    FlowNames,      \* the names they are given
    MaxFlows,       \* bound: workflows
    MaxFlowOps,     \* bound: requests one after the other
    MaxFlowOverlap, \* bound: requests that may overlap
    MaxFlowRuns,    \* bound: runs
    FlowMaxFaults   \* bound: nodes that fail, runs that go over their time, restarts

FlowEdge == [from : Nat, to : Nat, branch : STRING]

ASSUME WorkflowAssumption ==
    /\ {MaxFlows, MaxFlowOps, MaxFlowOverlap, MaxFlowRuns, FlowMaxFaults} \subseteq Nat
    /\ \A graph \in Sketches : graph \in [types : Seq(STRING), edges : Seq(FlowEdge)]
    /\ FlowNames \subseteq STRING \ {""}

VARIABLES
    flowRows,       \* the workflows
    flowsMade,      \* how many were created
    flowRuns,       \* the rows of the runs, in the order they were started
    flowTasks,      \* flowTasks[r]: the execution of run r
    flowReq,        \* the requests, with the row they read
    flowsDrawn,     \* history: the graphs committed under each version of each workflow
    flowsRenamed,   \* history: the workflows that were given another name
    flowOps, flowFaults,
    flowAlone       \* no two requests at once

workflowVars == <<flowRows, flowsMade, flowRuns, flowTasks, flowReq, flowsDrawn, flowsRenamed,
                  flowOps, flowFaults, flowAlone>>
flowHistory == <<flowsDrawn, flowsRenamed>>

NoGraph == [types |-> <<>>, edges |-> <<>>]
NoFlow == [graph |-> NoGraph, version |-> 0, name |-> "", enabled |-> FALSE]
NoTask == [pc |-> "none", graph |-> NoGraph, order |-> <<>>, at |-> 0, active |-> {}, late |-> FALSE]
NoFlowReq == [pc |-> "idle", flow |-> 0, row |-> NoFlow]

Flows == 1..MaxFlows
Standing == {f \in Flows : flowRows[f] # NoFlow}
NodesOf(graph) == DOMAIN graph.types
Incoming(graph, n) == {i \in DOMAIN graph.edges : graph.edges[i].to = n}
Conditions == {"contains", "is_empty"}
-----------------------------------------------------------------------------
\* Kahn: what has no incoming edge first, then each node once its sources are listed.
SourcesListed(graph, done) ==
    {n \in NodesOf(graph) : \A e \in ToSet(graph.edges) : e.to = n => e.from \in ToSet(done)}

FirstListed(graph) == SetToSortSeq(SourcesListed(graph, <<>>), <)

\* The targets of node n that its listing makes ready, in the order of the edges.
FreedBy(graph, n, done) ==
    LET targets == [i \in DOMAIN graph.edges |-> graph.edges[i].to]
        Free(i) == /\ graph.edges[i].from = n
                   /\ targets[i] \in SourcesListed(graph, Append(done, n)) \ (ToSet(done) \cup {n})
    IN SelectSeq([i \in DOMAIN targets |-> IF Free(i) THEN targets[i] ELSE 0], LAMBDA t : t # 0)

ListNext(graph, s) ==
    IF s.queue = <<>> THEN s
    ELSE [queue |-> Tail(s.queue) \o FreedBy(graph, Head(s.queue), s.order),
          order |-> Append(s.order, Head(s.queue))]

TopoOrder(graph) ==
    LET kahn[k \in 0..Cardinality(NodesOf(graph))] ==
            IF k = 0 THEN [queue |-> FirstListed(graph), order |-> <<>>]
            ELSE ListNext(graph, kahn[k - 1])
    IN kahn[Cardinality(NodesOf(graph))].order

EdgesFit(graph) ==
    /\ IsInjective([i \in DOMAIN graph.edges |-> <<graph.edges[i].from, graph.edges[i].to>>])
    /\ \A e \in ToSet(graph.edges) :
          /\ {e.from, e.to} \subseteq NodesOf(graph) /\ e.from # e.to
          /\ e.branch # "" <=> graph.types[e.from] \in Conditions

Onward(edges, N) == N \cup {e.to : e \in {x \in edges : x.from \in N}}

ReachableFrom(graph, edges, n) ==
    LET reach[k \in 0..Cardinality(NodesOf(graph))] ==
            IF k = 0 THEN {n} ELSE Onward(edges, reach[k - 1])
    IN reach[Cardinality(NodesOf(graph))]

InputsOf(graph) == {n \in NodesOf(graph) : graph.types[n] = "input"}

ValidGraph(graph) ==
    /\ "unfit" \notin ToSet(graph.types) /\ "output" \in ToSet(graph.types)
    /\ Cardinality(InputsOf(graph)) = 1
    /\ EdgesFit(graph)
    /\ \A n \in InputsOf(graph) : ReachableFrom(graph, ToSet(graph.edges), n) = NodesOf(graph)
    /\ ToSet(TopoOrder(graph)) = NodesOf(graph)

Savable == {graph \in Sketches : ValidGraph(graph)}

-----------------------------------------------------------------------------
FlowsTypeOK ==
    /\ \A f \in Flows : /\ flowRows[f].graph \in Sketches \cup {NoGraph}
                        /\ flowRows[f].version \in 0..MaxFlowOps
                        /\ flowRows[f].name \in FlowNames \cup {""}
    /\ flowsMade \in 0..MaxFlows /\ Len(flowRuns) <= MaxFlowRuns /\ DOMAIN flowTasks = 1..MaxFlowRuns
    /\ \A r \in DOMAIN flowRuns :
          /\ flowRuns[r].status \in {"running", "done", "failed"}
          /\ flowRuns[r].version \in 1..MaxFlowOps
          /\ \A n \in DOMAIN flowRuns[r].states :
                flowRuns[r].states[n] \in {"pending", "done", "error", "skipped"}
    /\ \A r \in DOMAIN flowTasks : flowTasks[r].pc \in {"none", "made", "nodes", "ended"}
    /\ \A d \in Designers :
          flowReq[d].pc \in {"idle", "create", "save", "delete", "start"}
    /\ flowsRenamed \subseteq Flows
    /\ flowOps <= MaxFlowOps /\ flowFaults <= FlowMaxFaults

FlowsInit ==
    /\ flowRows = [f \in Flows |-> NoFlow] /\ flowsMade = 0 /\ flowRuns = <<>> /\ flowsDrawn = {}
    /\ flowsRenamed = {}
    /\ flowTasks = [r \in 1..MaxFlowRuns |-> NoTask]
    /\ flowReq = [d \in Designers |-> NoFlowReq]
    /\ flowOps = 0 /\ flowFaults = 0 /\ flowAlone \in BOOLEAN

FlowCounts == <<flowOps, flowFaults, flowAlone>>
FlowFault == flowFaults < FlowMaxFaults /\ flowFaults' = flowFaults + 1
ReleaseFlow(d) == flowReq' = [flowReq EXCEPT ![d] = NoFlowReq]

NameInUse(name) == \E f \in Standing : flowRows[f].name = name

\* A route authenticates, and its transaction reads the row; a creation reads the names.
BeginFlow(d) ==
    /\ flowReq[d] = NoFlowReq /\ flowOps < IF flowAlone THEN MaxFlowOps ELSE MaxFlowOverlap
    /\ flowAlone => flowReq = [e \in Designers |-> NoFlowReq]
    /\ flowOps' = flowOps + 1
    /\ \/ \E name \in FlowNames :
             /\ ~NameInUse(name)
             /\ flowReq' = [flowReq EXCEPT ![d] = [pc |-> "create", flow |-> 0,
                                                  row |-> [NoFlow EXCEPT !.name = name]]]
       \/ \E f \in Standing, op \in {"save", "delete", "start"} :
             /\ op = "start" => flowRows[f].enabled /\ Len(flowRuns) < MaxFlowRuns
             /\ flowReq' = [flowReq EXCEPT ![d] = [pc |-> op, flow |-> f, row |-> flowRows[f]]]
    /\ UNCHANGED <<flowRows, flowsMade, flowRuns, flowTasks, flowHistory, flowFaults, flowAlone>>

CreateFlow(d) ==
    /\ flowReq[d].pc = "create"
    /\ \E graph \in Sketches :
          IF graph \in Savable /\ flowsMade < MaxFlows
          THEN /\ flowRows' = [flowRows EXCEPT ![flowsMade + 1] =
                                 [graph |-> graph, version |-> 1, name |-> flowReq[d].row.name,
                                  enabled |-> TRUE]]
               /\ flowsMade' = flowsMade + 1
               /\ flowsDrawn' = flowsDrawn \cup {<<flowsMade + 1, 1, graph>>}
          ELSE UNCHANGED <<flowRows, flowsMade, flowsDrawn>>
    /\ ReleaseFlow(d)
    /\ UNCHANGED <<flowRuns, flowTasks, flowsRenamed, FlowCounts>>

NextVersion(version) == version + 1

\* What an update may make of a row: each of its columns may be given or not.  A graph is
\* validated and raises the version; whether another workflow has the name is not asked.
Updated(row) ==
    {new \in [graph : Savable, version : {row.version, NextVersion(row.version)},
              name : FlowNames, enabled : BOOLEAN] :
        new.version = row.version => new.graph = row.graph}

\* A row that is gone, and a graph that is refused, change nothing.
SaveFlow(d) ==
    LET me == flowReq[d]  f == flowReq[d].flow IN
    /\ me.pc = "save"
    /\ \/ /\ f \in Standing
          /\ \E new \in Updated(me.row) :
                /\ flowRows' = [flowRows EXCEPT ![f] = Flushed(@, me.row, new)]
                /\ flowsDrawn' = IF new.version = me.row.version THEN flowsDrawn
                                 ELSE flowsDrawn \cup {<<f, new.version, new.graph>>}
                /\ flowsRenamed' = IF new.name = me.row.name THEN flowsRenamed
                                   ELSE flowsRenamed \cup {f}
       \/ UNCHANGED <<flowRows, flowHistory>> /\ (f \notin Standing \/ Savable # Sketches)
    /\ ReleaseFlow(d)
    /\ UNCHANGED <<flowsMade, flowRuns, flowTasks, FlowCounts>>

DeleteFlow(d) ==
    /\ flowReq[d].pc = "delete"
    /\ flowRows' = [flowRows EXCEPT ![flowReq[d].flow] = NoFlow]
    /\ ReleaseFlow(d)
    /\ UNCHANGED <<flowsMade, flowRuns, flowTasks, flowHistory, FlowCounts>>

\* start_run, with the row the route has read: the run is committed, the task made.
StartRun(d) ==
    LET me == flowReq[d] IN
    /\ me.pc = "start" /\ Len(flowRuns) < MaxFlowRuns
    /\ flowRuns' = Append(flowRuns, [flow |-> me.flow, version |-> me.row.version,
                                     drawn |-> me.row.graph, status |-> "running",
                                     states |-> <<>>, texts |-> <<>>, output |-> 0])
    /\ flowTasks' = [flowTasks EXCEPT ![Len(flowRuns) + 1] = [NoTask EXCEPT !.pc = "made"]]
    /\ ReleaseFlow(d)
    /\ UNCHANGED <<flowRows, flowsMade, flowHistory, FlowCounts>>
-----------------------------------------------------------------------------
\* execute_run reads the workflow as it is now; one that is gone fails, and so does a cycle.
LoadRun(r) ==
    LET f == flowRuns[r].flow IN
    /\ flowTasks[r].pc = "made"
    /\ LET graph == IF f \in Standing THEN flowRows[f].graph ELSE NoGraph
           order == TopoOrder(graph)
       IN
       IF graph = NoGraph \/ ToSet(order) # NodesOf(graph)
       THEN /\ flowRuns' = [flowRuns EXCEPT ![r].status = "failed"]
            /\ flowTasks' = [flowTasks EXCEPT ![r] = [NoTask EXCEPT !.pc = "ended", !.graph = graph]]
       ELSE /\ flowRuns' = [flowRuns EXCEPT ![r].states = [n \in NodesOf(graph) |-> "pending"],
                                            ![r].texts = [n \in NodesOf(graph) |-> 0]]
            /\ flowTasks' = [flowTasks EXCEPT ![r] =
                               [NoTask EXCEPT !.pc = "nodes", !.graph = graph,
                                              !.order = order, !.at = 1, !.active = InputsOf(graph)]]
    /\ UNCHANGED <<flowRows, flowsMade, flowReq, flowHistory, FlowCounts>>

\* What the node at hand reads: the main text of the source of its first incoming edge.
Upstream(r, n) ==
    LET graph == flowTasks[r].graph  into == Incoming(graph, n) IN
    IF into = {} THEN 0 ELSE flowRuns[r].texts[graph.edges[Min(into)].from]

\* The texts a node can end with.  A search that found nothing has its query for a text.
NodeTexts(r, n) ==
    LET type == flowTasks[r].graph.types[n] IN
    CASE type = "input" -> {n}
      [] type = "retrieval" -> {n} \cup InputsOf(flowTasks[r].graph)
      [] type \in {"kg", "llm", "agent"} -> {n, 0}
      [] OTHER -> {Upstream(r, n)}

Branches(r, n) ==
    CASE flowTasks[r].graph.types[n] = "is_empty" ->
           {IF Upstream(r, n) = 0 THEN "true" ELSE "false"}
      [] flowTasks[r].graph.types[n] = "contains" ->
           IF Upstream(r, n) = 0 THEN {"false"} ELSE {"true", "false"}
      [] OTHER -> {""}

\* Mutant: a condition activates what follows on either branch.
ActivatedOnEither(graph, n, branch) ==
    {e.to : e \in {x \in ToSet(graph.edges) : x.from = n}}

Activated(graph, n, branch) == {e.to : e \in {x \in ToSet(graph.edges) :
                                                x.from = n /\ x.branch = branch}}

AtNode(r) == flowTasks[r].pc = "nodes" /\ flowTasks[r].at \in DOMAIN flowTasks[r].order
NodeAt(r) == flowTasks[r].order[flowTasks[r].at]
SetNode(r, n, state, text) ==
    flowRuns' = [flowRuns EXCEPT ![r].states[n] = state, ![r].texts[n] = text]

SkipNode(r) ==
    /\ AtNode(r) /\ NodeAt(r) \notin flowTasks[r].active
    /\ SetNode(r, NodeAt(r), "skipped", 0)
    /\ flowTasks' = [flowTasks EXCEPT ![r].at = @ + 1]
    /\ UNCHANGED <<flowRows, flowsMade, flowReq, flowHistory, FlowCounts>>

ExecuteNode(r) ==
    LET n == NodeAt(r)  graph == flowTasks[r].graph IN
    /\ AtNode(r) /\ n \in flowTasks[r].active /\ ~flowTasks[r].late
    /\ \E text \in NodeTexts(r, n), branch \in Branches(r, n) :
          /\ SetNode(r, n, "done", text)
          /\ flowTasks' = [flowTasks EXCEPT ![r].at = @ + 1,
                                            ![r].active = @ \cup Activated(graph, n, branch)]
    /\ UNCHANGED <<flowRows, flowsMade, flowReq, flowHistory, FlowCounts>>

\* An error or its own time limit; or the budget of the run, gone for this node and the rest.
FailNode(r) ==
    /\ AtNode(r) /\ NodeAt(r) \in flowTasks[r].active
    /\ SetNode(r, NodeAt(r), "error", 0)
    /\ \/ /\ FlowFault
          /\ \E late \in BOOLEAN :
                flowTasks' = [flowTasks EXCEPT ![r].at = @ + 1, ![r].late = @ \/ late]
       \/ /\ flowTasks[r].late /\ UNCHANGED flowFaults
          /\ flowTasks' = [flowTasks EXCEPT ![r].at = @ + 1]
    /\ UNCHANGED <<flowRows, flowsMade, flowReq, flowHistory, flowOps, flowAlone>>

OutputsDone(r) ==
    {i \in DOMAIN flowTasks[r].order :
        LET n == flowTasks[r].order[i] IN
        flowTasks[r].graph.types[n] = "output" /\ flowRuns[r].states[n] = "done"}

\* The last output in the order gives the answer; without one the run has failed.
EndRun(r) ==
    LET outputs == OutputsDone(r) IN
    /\ flowTasks[r].pc = "nodes" /\ ~AtNode(r)
    /\ flowRuns' = [flowRuns EXCEPT
                      ![r].status = IF outputs # {} THEN "done" ELSE "failed",
                      ![r].output = IF outputs = {} THEN 0
                                    ELSE flowRuns[r].texts[flowTasks[r].order[Max(outputs)]]]
    /\ flowTasks' = [flowTasks EXCEPT ![r].pc = "ended"]
    /\ UNCHANGED <<flowRows, flowsMade, flowReq, flowHistory, FlowCounts>>

\* The process ends: tasks and requests are gone, and nothing takes a run up again.
FlowRestart ==
    /\ FlowFault
    /\ flowTasks' = [r \in DOMAIN flowTasks |-> [flowTasks[r] EXCEPT !.pc = "none"]]
    /\ flowReq' = [d \in Designers |-> NoFlowReq]
    /\ UNCHANGED <<flowRows, flowsMade, flowRuns, flowHistory, flowOps, flowAlone>>

FlowsNext ==
    \/ \E d \in Designers : BeginFlow(d) \/ CreateFlow(d) \/ SaveFlow(d) \/ DeleteFlow(d) \/ StartRun(d)
    \/ \E r \in DOMAIN flowRuns :
          LoadRun(r) \/ SkipNode(r) \/ ExecuteNode(r) \/ FailNode(r) \/ EndRun(r)
    \/ FlowRestart

FlowsSpec == FlowsInit /\ [][FlowsNext]_workflowVars
-----------------------------------------------------------------------------
Executed(r) == flowRuns[r].status # "running" /\ flowRuns[r].states # <<>>

\* What can be saved can be run: a run of a workflow that stands goes through the graph and
\* settles every node, so the engine's own guard against cycles has nothing to catch.
EveryNodeSettles ==
    \A r \in DOMAIN flowRuns :
        flowRuns[r].status # "running" /\ flowTasks[r].graph # NoGraph =>
            /\ DOMAIN flowRuns[r].states = NodesOf(flowTasks[r].graph)
            /\ "pending" \notin ToSet(flowRuns[r].states)

\* The path to the answer: a run is done only if executed nodes lead from the input to an
\* output, and no node is executed on a branch its condition did not take.
DoneHasAPath ==
    \A r \in DOMAIN flowRuns : Executed(r) =>
        LET graph == flowTasks[r].graph
            done == {n \in NodesOf(graph) : flowRuns[r].states[n] = "done"}
            Taken(e) == \/ graph.types[e.from] # "is_empty"
                        \/ e.branch = IF flowRuns[r].texts[e.from] = 0 THEN "true" ELSE "false"
            path == {e \in ToSet(graph.edges) : {e.from, e.to} \subseteq done /\ Taken(e)}
        IN /\ done \subseteq UNION {ReachableFrom(graph, path, n) : n \in InputsOf(graph)}
           /\ flowRuns[r].status = "done" <=> \E n \in done : graph.types[n] = "output"

\* "优雅失败，不留僵尸 running 行" (workflow_engine.py): only a restart leaves a run running.
RunningHasTask ==
    flowFaults = 0 => \A r \in DOMAIN flowRuns :
        flowRuns[r].status = "running" => flowTasks[r].pc \in {"made", "nodes"}

\* A run executes a graph that was saved for its workflow, under the version its row names or a
\* later one.
RunsWhatWasSaved(r) ==
    flowTasks[r].graph # NoGraph =>
        \E x \in flowsDrawn : /\ x[1] = flowRuns[r].flow /\ x[2] >= flowRuns[r].version
                              /\ x[3] = flowTasks[r].graph

\* As long as requests do not overlap: two workflows have one name only if one of them was
\* renamed; one version of a workflow is one graph; and that, or a later one, is what a run that
\* names the version executes.
VersionsNameGraphs ==
    flowAlone =>
        /\ \A f, g \in Standing :
              f # g /\ flowRows[f].name = flowRows[g].name => {f, g} \cap flowsRenamed # {}
        /\ \A x, y \in flowsDrawn : x[1] = y[1] /\ x[2] = y[2] => x[3] = y[3]
        /\ \A r \in DOMAIN flowRuns : RunsWhatWasSaved(r)

\* The nodes of a run settle, what is done was reached, and a version names one graph.
FlowsHold == EveryNodeSettles /\ DoneHasAPath /\ RunningHasTask /\ VersionsNameGraphs

\* "同名工作流已存在" (workflow_service.py:61): a name has one workflow.  TLC refutes it, with one
\* request after the other: update_workflow (line 85) gives a name without asking.
NamesAreUnique ==
    flowAlone => \A f, g \in Standing : flowRows[f].name = flowRows[g].name => f = g

\* "run + workflow 快照执行" (workflow_engine.py:393): a run executes the graph of the version
\* its row names.  TLC refutes it: the task reads the workflow again, after a save.
RunsItsVersion ==
    \A r \in DOMAIN flowRuns : flowTasks[r].pc = "nodes" => flowTasks[r].graph = flowRuns[r].drawn

\* "取上游输出的主字段为最终答案" (workflow_engine.py:14): when what leads to the output has a text,
\* so has the answer.  TLC refutes it: the output reads the first of its edges, which may be
\* that of a branch that was skipped.
AnswerReachesOutput ==
    \A r \in DOMAIN flowRuns : Executed(r) /\ flowRuns[r].status = "done" =>
        \A e \in ToSet(flowTasks[r].graph.edges) :
            /\ flowTasks[r].graph.types[e.to] = "output" /\ flowRuns[r].texts[e.from] # 0
            => flowRuns[r].output # 0

\* _PRIMARY_FIELD (workflow_engine.py:45): the main field of a search is its context, so a
\* condition can tell an empty one.  TLC refutes it: the query stands in for it.
EmptySearchIsEmpty ==
    \A r \in DOMAIN flowRuns : Executed(r) =>
        \A n \in NodesOf(flowTasks[r].graph) :
            flowTasks[r].graph.types[n] = "retrieval" => flowRuns[r].texts[n] \in {n, 0}
=============================================================================
