--------------------------- MODULE WorkflowsProofs ---------------------------
(***************************************************************************)
(* Two things that go from step to step, and share nothing but this        *)
(* module.                                                                 *)
(*                                                                         *)
(* Workflows, for any graphs and any number of requests, runs, nodes that  *)
(* fail and restarts: a run settles every node of its graph, and what it   *)
(* executes is led to from the input.                                      *)
(*                                                                         *)
(* The audit of a ticket, whatever is written in it and whatever a model   *)
(* finds: what is spared the review deserves it, and what is forbidden     *)
(* costs points.                                                           *)
(***************************************************************************)
EXTENDS Workflows, TicketAudit, FiniteSetTheorems, SequenceTheorems, WellFoundedInduction, TLAPS

-----------------------------------------------------------------------------
(* Orders of the nodes.                                                    *)

\* Less-than on the naturals is well-founded, as a set of pairs.
LEMMA BelowWellFounded == IsWellFoundedOn({ss \in Nat \X Nat : ss[1] < ss[2]}, Nat)
BY NatLessThanWellFounded DEF OpToRel

\* A set of naturals that has an element has a least one: induction, as the least
\* counterexample.
LEMMA LeastElement ==
  ASSUME NEW T, T \subseteq Nat, T # {}
  PROVE  \E x \in T : \A y \in T : x <= y
<1> DEFINE R == {ss \in Nat \X Nat : ss[1] < ss[2]}
<1>1. \E x \in T : \A y \in T : ~(<<y, x>> \in R)
  <2> HIDE DEF R
  <2>1. IsWellFoundedOn(R, Nat)
    BY BelowWellFounded DEF R
  <2> QED
    BY <2>1, WFMin
<1>2. PICK x \in T : \A y \in T : ~(<<y, x>> \in R)
  BY <1>1
<1>3. ASSUME NEW y \in T PROVE x <= y
  <2>1. x \in Nat /\ y \in Nat
    OBVIOUS
  <2>2. y < x => <<y, x>> \in R
    BY <2>1
  <2> QED
    BY <1>2, <2>1, <2>2
<1> QED
  BY <1>3

\* Kahn's algorithm, step by step, and the sets of nodes within so many steps.
KahnUpTo(graph, n, f) ==
    f = [k \in 0..n |->
            IF k = 0 THEN [queue |-> FirstListed(graph), order |-> <<>>]
            ELSE ListNext(graph, f[k - 1])]

ReachUpTo(edges, m, n, f) ==
    f = [k \in 0..n |-> IF k = 0 THEN {m} ELSE Onward(edges, f[k - 1])]

\* Both can be computed step by step.
LEMMA KahnExists ==
  ASSUME NEW graph, NEW N \in Nat
  PROVE  \E f : KahnUpTo(graph, N, f)
<1> DEFINE start == [queue |-> FirstListed(graph), order |-> <<>>]
           Step(s) == ListNext(graph, s)
           UpTo(n, f) == f = [k \in 0..n |-> IF k = 0 THEN start ELSE Step(f[k - 1])]
           T == {n \in Nat : ~ \E f : UpTo(n, f)}
<1>1. \A n, f : KahnUpTo(graph, n, f) <=> UpTo(n, f)
  BY DEF KahnUpTo
<1> HIDE DEF start, Step, UpTo
<1> SUFFICES ASSUME T # {} PROVE FALSE
  BY <1>1
<1>2. PICK n \in T : \A m \in T : n <= m
  BY LeastElement
<1>3. CASE n = 0
  <2>1. UpTo(0, [k \in 0..0 |-> start])
    BY DEF UpTo
  <2> QED BY <1>2, <1>3, <2>1
<1>4. CASE n # 0
  <2>1. n \in Nat /\ n - 1 \in Nat /\ n - 1 \notin T
    BY <1>2, <1>4
  <2>2. PICK f : UpTo(n - 1, f)
    BY <2>1
  <2> DEFINE g == [k \in 0..n |-> IF k = n THEN Step(f[n - 1]) ELSE f[k]]
  <2>3. \A k \in 0..(n - 1) : g[k] = f[k]
    BY <2>1
  <2>4. \A k \in 0..n : g[k] = IF k = 0 THEN start ELSE Step(g[k - 1])
    <3> SUFFICES ASSUME NEW k \in 0..n PROVE g[k] = IF k = 0 THEN start ELSE Step(g[k - 1])
      OBVIOUS
    <3>1. CASE k = n
      BY <1>4, <2>1, <2>3, <3>1
    <3>2. CASE k # n
      <4>1. k \in 0..(n - 1) /\ (k # 0 => k - 1 \in 0..(n - 1))
        BY <2>1, <3>2
      <4>2. f[k] = IF k = 0 THEN start ELSE Step(f[k - 1])
        BY <2>2, <4>1 DEF UpTo
      <4> QED BY <2>3, <4>1, <4>2
    <3> QED BY <3>1, <3>2
  <2>5. UpTo(n, g)
    <3>1. g = [k \in 0..n |-> g[k]]
      OBVIOUS
    <3> HIDE DEF g
    <3> QED BY <2>4, <3>1 DEF UpTo
  <2> QED BY <1>2, <2>1, <2>5
<1> QED BY <1>3, <1>4

LEMMA ReachExists ==
  ASSUME NEW edges, NEW m, NEW N \in Nat
  PROVE  \E f : ReachUpTo(edges, m, N, f)
<1> DEFINE Step(s) == Onward(edges, s)
           UpTo(n, f) == f = [k \in 0..n |-> IF k = 0 THEN {m} ELSE Step(f[k - 1])]
           T == {n \in Nat : ~ \E f : UpTo(n, f)}
<1>1. \A n, f : ReachUpTo(edges, m, n, f) <=> UpTo(n, f)
  BY DEF ReachUpTo
<1> HIDE DEF Step, UpTo
<1> SUFFICES ASSUME T # {} PROVE FALSE
  BY <1>1
<1>2. PICK n \in T : \A l \in T : n <= l
  BY LeastElement
<1>3. CASE n = 0
  <2>1. UpTo(0, [k \in 0..0 |-> {m}])
    BY DEF UpTo
  <2> QED BY <1>2, <1>3, <2>1
<1>4. CASE n # 0
  <2>1. n \in Nat /\ n - 1 \in Nat /\ n - 1 \notin T
    BY <1>2, <1>4
  <2>2. PICK f : UpTo(n - 1, f)
    BY <2>1
  <2> DEFINE g == [k \in 0..n |-> IF k = n THEN Step(f[n - 1]) ELSE f[k]]
  <2>3. \A k \in 0..(n - 1) : g[k] = f[k]
    BY <2>1
  <2>4. \A k \in 0..n : g[k] = IF k = 0 THEN {m} ELSE Step(g[k - 1])
    <3> SUFFICES ASSUME NEW k \in 0..n PROVE g[k] = IF k = 0 THEN {m} ELSE Step(g[k - 1])
      OBVIOUS
    <3>1. CASE k = n
      BY <1>4, <2>1, <2>3, <3>1
    <3>2. CASE k # n
      <4>1. k \in 0..(n - 1) /\ (k # 0 => k - 1 \in 0..(n - 1))
        BY <2>1, <3>2
      <4>2. f[k] = IF k = 0 THEN {m} ELSE Step(f[k - 1])
        BY <2>2, <4>1 DEF UpTo
      <4> QED BY <2>3, <4>1, <4>2
    <3> QED BY <3>1, <3>2
  <2>5. UpTo(n, g)
    <3>1. g = [k \in 0..n |-> g[k]]
      OBVIOUS
    <3> HIDE DEF g
    <3> QED BY <2>4, <3>1 DEF UpTo
  <2> QED BY <1>2, <2>1, <2>5
<1> QED BY <1>3, <1>4

\* A list and one more element, of whatever kind.
LEMMA AppendTo ==
  ASSUME NEW s, s \in Seq(ToSet(s)), NEW x
  PROVE  LET t == Append(s, x) IN
         t \in Seq(ToSet(t)) /\ Len(t) = Len(s) + 1
<1> DEFINE S == ToSet(s) \cup {x}
           t == Append(s, x)
<1>1. s \in Seq(S) /\ x \in S
  <2>1. ToSet(s) \subseteq S
    OBVIOUS
  <2>2. DOMAIN s = 1..Len(s) /\ Len(s) \in Nat /\ \A i \in 1..Len(s) : s[i] \in S
    BY DEF ToSet
  <2> HIDE DEF S
  <2>3. s \in [1..Len(s) -> S]
    BY <2>2
  <2> QED BY <2>2, <2>3, SeqDef DEF S
<1> HIDE DEF S
<1>2. t \in Seq(S) /\ Len(t) = Len(s) + 1
  BY <1>1, AppendProperties
<1> HIDE DEF t
<1>3. DOMAIN t = 1..Len(t) /\ Len(t) \in Nat /\ t = [i \in 1..Len(t) |-> t[i]]
  BY <1>2
<1>4. \A i \in 1..Len(t) : t[i] \in ToSet(t)
  BY <1>3 DEF ToSet
<1>5. t \in [1..Len(t) -> ToSet(t)]
  BY <1>3, <1>4
<1>6. t \in Seq(ToSet(t))
  BY <1>3, <1>5, SeqDef
<1> QED BY <1>2, <1>6 DEF t

\* topo_order lists no more nodes than there are.
LEMMA OrderLength ==
  ASSUME NEW graph, NEW N \in Nat, N = Cardinality(NodesOf(graph))
  PROVE  LET order == TopoOrder(graph) IN order \in Seq(ToSet(order)) /\ Len(order) <= N
<1>1. \E f : KahnUpTo(graph, N, f) /\ TopoOrder(graph) = f[N].order
  <2>1. PICK g : KahnUpTo(graph, N, g)
    BY KahnExists
  <2>2. TopoOrder(graph) = (CHOOSE f : KahnUpTo(graph, N, f))[N].order
    BY DEF TopoOrder, KahnUpTo
  <2> QED BY <2>1, <2>2
<1>2. PICK f : KahnUpTo(graph, N, f) /\ TopoOrder(graph) = f[N].order
  BY <1>1
<1> DEFINE Fine(n) == f[n].order \in Seq(ToSet(f[n].order)) /\ Len(f[n].order) <= n
           T == {n \in 0..N : ~Fine(n)}
<1> SUFFICES ASSUME T # {} PROVE FALSE
  BY <1>2
<1>3. PICK n \in T : \A m \in T : n <= m
  <2>1. T \subseteq Nat
    OBVIOUS
  <2> QED BY <2>1, LeastElement
<1>4. n \in 0..N /\ n \in Nat /\ ~Fine(n)
  OBVIOUS
<1>5. f[n] = IF n = 0 THEN [queue |-> FirstListed(graph), order |-> <<>>]
             ELSE ListNext(graph, f[n - 1])
  BY <1>2, <1>4 DEF KahnUpTo
<1>6. CASE n = 0
  <2>1. f[n].order = <<>>
    BY <1>5, <1>6
  <2>2. <<>> \in Seq(ToSet(<<>>)) /\ Len(<<>>) = 0
    OBVIOUS
  <2> QED BY <1>4, <1>6, <2>1, <2>2
<1>7. CASE n # 0
  <2>1. n - 1 \in 0..N /\ n - 1 \in Nat /\ n - 1 \notin T
    BY <1>3, <1>4, <1>7
  <2>2. Fine(n - 1)
    BY <2>1
  <2>3. \/ f[n].order = f[n - 1].order
        \/ f[n].order = Append(f[n - 1].order, Head(f[n - 1].queue))
    BY <1>5, <1>7 DEF ListNext
  <2>4. CASE f[n].order = f[n - 1].order
    <3>1. Len(f[n - 1].order) <= n
      BY <1>4, <2>2
    <3> QED BY <1>4, <2>2, <2>4, <3>1
  <2>5. CASE f[n].order = Append(f[n - 1].order, Head(f[n - 1].queue))
    <3>1. f[n].order \in Seq(ToSet(f[n].order)) /\ Len(f[n].order) = Len(f[n - 1].order) + 1
      BY <2>2, <2>5, AppendTo
    <3>2. Len(f[n - 1].order) \in Nat
      BY <2>2
    <3> QED BY <1>4, <2>2, <3>1, <3>2
  <2> QED BY <2>3, <2>4, <2>5
<1> QED BY <1>6, <1>7

\* What a graph that can be saved is like: it can be run through.
LEMMA SavableGraph ==
  ASSUME NEW graph \in Savable
  PROVE  LET order == TopoOrder(graph)  N == Cardinality(NodesOf(graph)) IN
         /\ graph.types \in Seq(STRING) /\ graph.edges \in Seq(FlowEdge) /\ N \in Nat
         /\ NodesOf(graph) = 1..Len(graph.types) /\ NodesOf(graph) \subseteq Nat
         /\ \E m \in NodesOf(graph) : InputsOf(graph) = {m}
         /\ \A e \in ToSet(graph.edges) : e \in FlowEdge /\ {e.from, e.to} \subseteq NodesOf(graph)
         /\ order \in Seq(Nat) /\ Len(order) \in Nat /\ Len(order) <= N
         /\ DOMAIN order = 1..Len(order) /\ \A i \in 1..Len(order) : order[i] \in NodesOf(graph)
         /\ \A n \in NodesOf(graph) : \E i \in 1..Len(order) : order[i] = n
         /\ \A i, j \in 1..Len(order) : order[i] = order[j] => i = j
         /\ graph # NoGraph /\ ToSet(order) = NodesOf(graph)
<1> DEFINE order == TopoOrder(graph)
           V == NodesOf(graph)
           N == Cardinality(V)
<1>1. graph \in [types : Seq(STRING), edges : Seq(FlowEdge)] /\ ValidGraph(graph)
  BY WorkflowAssumption DEF Savable
<1>2. graph.types \in Seq(STRING) /\ graph.edges \in Seq(FlowEdge)
  BY <1>1
<1>3. V = 1..Len(graph.types) /\ Len(graph.types) \in Nat
  BY <1>2 DEF NodesOf
<1> HIDE DEF V
<1>4. IsFiniteSet(V) /\ N \in Nat /\ V \subseteq Nat
  <2>1. 1 \in Int /\ Len(graph.types) \in Int
    BY <1>3
  <2>2. IsFiniteSet(1..Len(graph.types))
    BY <2>1, FS_Interval
  <2>3. IsFiniteSet(V)
    BY <1>3, <2>2
  <2>4. N \in Nat
    BY <2>3, FS_CardinalityType
  <2> QED BY <1>3, <2>3, <2>4
<1> USE DEF V
<1>5. \E m \in V : InputsOf(graph) = {m}
  <2>1. Cardinality(InputsOf(graph)) = 1 /\ InputsOf(graph) \subseteq V
    BY <1>1 DEF ValidGraph, InputsOf
  <2>2. IsFiniteSet(InputsOf(graph))
    BY <1>4, <2>1, FS_Subset
  <2> QED BY <2>1, <2>2, FS_Singleton
<1>6. \A e \in ToSet(graph.edges) : e \in FlowEdge /\ {e.from, e.to} \subseteq V
  <2>1. EdgesFit(graph)
    BY <1>1 DEF ValidGraph
  <2>2. \A e \in ToSet(graph.edges) : {e.from, e.to} \subseteq V
    BY <2>1, Zenon DEF EdgesFit
  <2>3. \A i \in DOMAIN graph.edges : graph.edges[i] \in FlowEdge
    BY <1>2
  <2>4. \A e \in ToSet(graph.edges) : e \in FlowEdge
    BY <2>3, Zenon DEF ToSet
  <2> QED BY <2>2, <2>4
<1>7. order \in Seq(ToSet(order)) /\ Len(order) <= N
  BY <1>4, OrderLength
<1>8. ToSet(order) = V
  BY <1>1 DEF ValidGraph
<1>9. graph # NoGraph
  <2>1. "output" \in ToSet(graph.types)
    BY <1>1 DEF ValidGraph
  <2> QED BY <2>1 DEF NoGraph, ToSet
<1> HIDE DEF order, V, N
<1>10. order \in Seq(V) /\ Len(order) \in Nat /\ DOMAIN order = 1..Len(order)
       /\ \A i \in 1..Len(order) : order[i] \in V
  BY <1>7, <1>8
<1>11. order \in Seq(Nat)
  <2>1. \A i \in 1..Len(order) : order[i] \in Nat
    BY <1>4, <1>10
  <2>2. order = [i \in 1..Len(order) |-> order[i]]
    BY <1>10
  <2>3. order \in [1..Len(order) -> Nat]
    BY <2>1, <2>2
  <2> QED BY <1>10, <2>3, SeqDef
<1>12. \A n \in V : \E i \in 1..Len(order) : order[i] = n
  BY <1>8, <1>10 DEF ToSet
<1>13. \A i, j \in 1..Len(order) : order[i] = order[j] => i = j
  <2> DEFINE D == 1..Len(order)
  <2>1. order \in Surjection(D, V)
    BY <1>10, <1>12 DEF Surjection
  <2>2. IsFiniteSet(D) /\ Cardinality(D) = Len(order)
    <3>1. 1 \in Int /\ Len(order) \in Int
      BY <1>10
    <3>2. /\ IsFiniteSet(1..Len(order))
          /\ Cardinality(1..Len(order)) = IF 1 > Len(order) THEN 0 ELSE Len(order) - 1 + 1
      BY <3>1, FS_Interval
    <3> QED BY <1>10, <3>2
  <2> HIDE DEF D
  <2>3. N <= Cardinality(D) /\ (N = Cardinality(D) <=> order \in Injection(D, V))
    BY <2>1, <2>2, FS_Surjection DEF N
  <2>4. order \in Injection(D, V)
    <3>1. N \in Nat /\ Len(order) \in Nat /\ N <= Len(order) /\ Len(order) <= N
      BY <1>4, <1>7, <1>10, <2>2, <2>3
    <3>2. N = Cardinality(D)
      BY <2>2, <3>1
    <3> QED BY <2>3, <3>2
  <2> QED BY <2>4, <1>10 DEF Injection, IsInjective, D
<1> QED
  BY <1>2, <1>3, <1>4, <1>5, <1>6, <1>7, <1>8, <1>9, <1>10, <1>11, <1>12, <1>13 DEF order, V, N

\* To each of these nodes an edge of the path leads, from one that is earlier in the order.
LedAlong(graph, done, path) ==
    LET order == TopoOrder(graph) IN
    \A i \in 1..Len(order) : order[i] \in done =>
        \/ order[i] \in InputsOf(graph)
        \/ \E j \in 1..(i - 1) : \E e \in path :
              e.from = order[j] /\ order[j] \in done /\ e.to = order[i]

\* What is led to, node after node in the order, is within reach of the input.
LEMMA LedIsReached ==
  ASSUME NEW graph \in Savable, NEW done, done \subseteq NodesOf(graph), NEW path,
         LedAlong(graph, done, path)
  PROVE  done \subseteq UNION {ReachableFrom(graph, path, n) : n \in InputsOf(graph)}
<1> DEFINE order == TopoOrder(graph)
           N == Cardinality(NodesOf(graph))
<1>1. /\ N \in Nat /\ Len(order) \in Nat /\ Len(order) <= N
      /\ \A n \in NodesOf(graph) : \E i \in 1..Len(order) : order[i] = n
  BY SavableGraph
<1>2. PICK m : InputsOf(graph) = {m}
  BY SavableGraph
<1>3. \E f : ReachUpTo(path, m, N, f) /\ ReachableFrom(graph, path, m) = f[N]
  <2>1. PICK g : ReachUpTo(path, m, N, g)
    BY <1>1, ReachExists
  <2>2. ReachableFrom(graph, path, m) = (CHOOSE f : ReachUpTo(path, m, N, f))[N]
    BY DEF ReachableFrom, ReachUpTo
  <2> QED BY <2>1, <2>2
<1>4. PICK f : ReachUpTo(path, m, N, f) /\ ReachableFrom(graph, path, m) = f[N]
  BY <1>3
<1> HIDE DEF order, N
<1>5. \A i \in 1..Len(order) : order[i] \in done =>
         \/ order[i] = m
         \/ \E j \in 1..(i - 1) : \E e \in path :
               e.from = order[j] /\ order[j] \in done /\ e.to = order[i]
  BY <1>2 DEF LedAlong, order
<1>6. \A k \in 0..N : f[k] = IF k = 0 THEN {m} ELSE Onward(path, f[k - 1])
  BY <1>4 DEF ReachUpTo
<1>7. \A k \in 0..N : m \in f[k]
  <2> DEFINE T == {k \in 0..N : m \notin f[k]}
  <2> SUFFICES ASSUME T # {} PROVE FALSE
    OBVIOUS
  <2>1. PICK k \in T : \A l \in T : k <= l
    <3>1. T \subseteq Nat
      OBVIOUS
    <3> QED BY <3>1, LeastElement
  <2>2. k \in 0..N /\ k # 0 /\ k - 1 \in 0..N /\ ~(k <= k - 1)
    BY <1>1, <1>6, <2>1
  <2>3. m \in f[k - 1] /\ f[k] = Onward(path, f[k - 1])
    BY <1>6, <2>1, <2>2
  <2> QED BY <2>1, <2>3 DEF Onward
<1>8. \A i \in 1..Len(order) : order[i] \in done => \A k \in (i - 1)..N : order[i] \in f[k]
  <2> DEFINE T == {i \in 1..Len(order) :
                      order[i] \in done /\ \E k \in (i - 1)..N : order[i] \notin f[k]}
  <2> SUFFICES ASSUME T # {} PROVE FALSE
    OBVIOUS
  <2>1. PICK i \in T : \A l \in T : i <= l
    <3>1. T \subseteq Nat
      BY <1>1
    <3> QED BY <3>1, LeastElement
  <2>2. i \in 1..Len(order) /\ order[i] \in done
    BY <2>1
  <2>3. PICK k \in (i - 1)..N : order[i] \notin f[k]
    BY <2>1
  <2>4. k \in 0..N
    BY <1>1, <2>2, <2>3
  <2>5. order[i] # m
    BY <1>7, <2>3, <2>4
  <2>6. PICK j \in 1..(i - 1), e \in path :
           e.from = order[j] /\ order[j] \in done /\ e.to = order[i]
    BY <1>5, <2>2, <2>5
  <2>7. j \in 1..Len(order) /\ j \notin T /\ k - 1 \in (j - 1)..N /\ k - 1 \in 0..N /\ k # 0
    BY <1>1, <2>1, <2>2, <2>3, <2>4, <2>6
  <2>8. order[j] \in f[k - 1]
    BY <2>6, <2>7
  <2>9. order[i] \in Onward(path, f[k - 1])
    BY <2>6, <2>8 DEF Onward
  <2> QED BY <1>6, <2>3, <2>4, <2>7, <2>9
<1>9. ASSUME NEW n \in done PROVE n \in f[N]
  <2>1. PICK i \in 1..Len(order) : order[i] = n
    BY <1>1, <1>9
  <2>2. N \in (i - 1)..N
    BY <1>1, <2>1
  <2> QED BY <1>8, <1>9, <2>1, <2>2
<1> QED BY <1>2, <1>4, <1>9

-----------------------------------------------------------------------------
(* The inductive invariant.                                                *)

NodeStates == {"pending", "done", "error", "skipped"}
FlowRow == [graph : Savable \cup {NoGraph}, version : Nat, name : FlowNames \cup {""},
            enabled : BOOLEAN]
FlowRun ==
    [flow : Flows, version : Nat, drawn : Savable, status : {"running", "done", "failed"},
     states : {<<>>} \cup UNION {[NodesOf(graph) -> NodeStates] : graph \in Savable},
     texts : {<<>>} \cup UNION {[NodesOf(graph) -> Nat] : graph \in Savable}, output : Nat]
FlowTask ==
    [pc : {"none", "made", "nodes", "ended"}, graph : Savable \cup {NoGraph}, order : Seq(Nat),
     at : Nat, active : SUBSET Nat, late : BOOLEAN]
FlowRequest ==
    [pc : {"idle", "create", "save", "delete", "start"}, flow : Flows \cup {0}, row : FlowRow]

\* A workflow that a request has read can be saved, and a creation has a name.
RequestTypes ==
    /\ flowReq \in [Designers -> FlowRequest]
    /\ \A d \in Designers :
          /\ flowReq[d].pc \notin {"idle", "create"} =>
                flowReq[d].flow \in Flows /\ flowReq[d].row.graph \in Savable
          /\ flowReq[d].pc = "create" => flowReq[d].row.name \in FlowNames

\* A workflow that stands can be saved.
WorkflowTypes ==
    /\ flowRows \in [Flows -> FlowRow] /\ flowsMade \in 0..MaxFlows
    /\ flowRuns \in Seq(FlowRun) /\ Len(flowRuns) <= MaxFlowRuns
    /\ flowTasks \in [1..MaxFlowRuns -> FlowTask] /\ RequestTypes
    /\ flowsDrawn \subseteq Flows \X Nat \X Savable /\ flowsRenamed \subseteq Flows
    /\ flowOps \in Nat /\ flowFaults \in Nat /\ flowAlone \in BOOLEAN
    /\ \A f \in Standing : flowRows[f].graph \in Savable

\* What node n activates when it ends with this text: either branch of a condition that looks
\* for words, the one it has to take of one that asks for an empty text.
LedBy(graph, n, text) ==
    {e.to : e \in {x \in ToSet(graph.edges) :
                      /\ x.from = n
                      /\ \/ graph.types[n] # "is_empty"
                         \/ x.branch = IF text = 0 THEN "true" ELSE "false"}}

LeadsTo(run, graph, m, n) == run.states[m] = "done" /\ n \in LedBy(graph, m, run.texts[m])

\* A run has come as far as its task is in the order; what is active or done was led to by a
\* node that is earlier in the order.
Progress(run, task) ==
    LET graph == task.graph  order == task.order
        Led(n, k) == n \in InputsOf(graph) \/ \E j \in 1..(k - 1) : LeadsTo(run, graph, order[j], n)
    IN /\ order = TopoOrder(graph) /\ task.at \in 1..(Len(order) + 1)
       /\ task.active \subseteq NodesOf(graph)
       /\ run.states \in [NodesOf(graph) -> NodeStates] /\ run.texts \in [NodesOf(graph) -> Nat]
       /\ \A i \in DOMAIN order : run.states[order[i]] = "pending" <=> i >= task.at
       /\ \A n \in task.active : Led(n, task.at)
       /\ \A i \in DOMAIN order : run.states[order[i]] = "done" => Led(order[i], i)
       /\ run.status # "running" =>
             /\ task.at = Len(order) + 1
             /\ run.status = "done" <=>
                   \E n \in NodesOf(graph) : run.states[n] = "done" /\ graph.types[n] = "output"

RunInv(run, task) ==
    /\ task.pc = "made" => run.status = "running" /\ task.graph = NoGraph
    /\ task.pc = "nodes" => run.status = "running" /\ task.graph # NoGraph
    /\ IF task.graph = NoGraph THEN run.states = <<>> ELSE Progress(run, task)

RunsInv == (\A r \in DOMAIN flowRuns : RunInv(flowRuns[r], flowTasks[r])) /\ RunningHasTask

\* One request at a time: it sees the workflows as they are.
LoneFlowInv ==
    /\ \A d, e \in Designers : flowReq[d] # NoFlowReq /\ flowReq[e] # NoFlowReq => d = e
    /\ \A d \in Designers :
          /\ flowReq[d].pc = "create" => ~NameInUse(flowReq[d].row.name)
          /\ flowReq[d].pc \notin {"idle", "create"} =>
                flowReq[d].flow \in Standing /\ flowReq[d].row = flowRows[flowReq[d].flow]
    /\ \A f, g \in Standing :
          f # g /\ flowRows[f].name = flowRows[g].name => {f, g} \cap flowsRenamed # {}
    /\ Standing \subseteq 1..flowsMade
    /\ \A f \in Standing : <<f, flowRows[f].version, flowRows[f].graph>> \in flowsDrawn
    /\ \A x \in flowsDrawn :
          x[1] <= flowsMade /\ (x[1] \in Standing => x[2] <= flowRows[x[1]].version)
    /\ \A x, y \in flowsDrawn : x[1] = y[1] /\ x[2] = y[2] => x[3] = y[3]

\* The graph was saved for the workflow of the run, under its version or a later one.
SavedFor(run, graph) ==
    \E x \in flowsDrawn : x[1] = run.flow /\ x[2] >= run.version /\ x[3] = graph

\* A run is of a workflow that was made and has not gone back, and what it executes was saved.
RanInv ==
    \A r \in DOMAIN flowRuns :
        LET run == flowRuns[r] IN
        /\ run.flow <= flowsMade
        /\ run.flow \in Standing => run.version <= flowRows[run.flow].version
        /\ flowTasks[r].graph # NoGraph => SavedFor(run, flowTasks[r].graph)

WorkflowInv == WorkflowTypes /\ RunsInv /\ (flowAlone => LoneFlowInv /\ RanInv)

-----------------------------------------------------------------------------
(* The runs.                                                               *)

\* A set of positions that has an element has a last one.
LEMMA LastPosition ==
  ASSUME NEW N \in Nat, NEW T, T \subseteq 1..N, T # {}
  PROVE  Max(T) \in T
<1> DEFINE U == {N - x : x \in T}
<1>1. U \subseteq Nat /\ U # {}
  <2>1. \A x \in T : N - x \in Nat
    OBVIOUS
  <2>2. PICK x \in T : TRUE
    OBVIOUS
  <2>3. N - x \in U
    OBVIOUS
  <2> QED BY <2>1, <2>3
<1>2. PICK u \in U : \A y \in U : u <= y
  BY <1>1, LeastElement
<1>3. PICK x \in T : u = N - x
  BY <1>2
<1>4. ASSUME NEW y \in T PROVE x >= y
  <2>1. N - y \in U
    OBVIOUS
  <2> HIDE DEF U
  <2>2. N - x <= N - y /\ x \in Nat /\ y \in Nat
    BY <1>2, <1>3, <2>1
  <2> QED BY <2>2
<1> QED BY <1>3, <1>4 DEF Max

\* And a first one.
LEMMA FirstPosition ==
  ASSUME NEW T, T \subseteq Nat, T # {}
  PROVE  Min(T) \in T
BY LeastElement DEF Min

\* A run that has a text for each node of its graph, and one that has none, are rows.
LEMMA RunRows ==
  ASSUME NEW run \in FlowRun, NEW graph \in Savable,
         NEW states \in [NodesOf(graph) -> NodeStates], NEW texts \in [NodesOf(graph) -> Nat]
  PROVE  [run EXCEPT !.states = states, !.texts = texts] \in FlowRun
<1>1. states \in UNION {[NodesOf(g) -> NodeStates] : g \in Savable}
  OBVIOUS
<1>2. texts \in UNION {[NodesOf(g) -> Nat] : g \in Savable}
  OBVIOUS
<1> DEFINE S == {<<>>} \cup UNION {[NodesOf(g) -> NodeStates] : g \in Savable}
           X == {<<>>} \cup UNION {[NodesOf(g) -> Nat] : g \in Savable}
<1>3. states \in S /\ texts \in X
  BY <1>1, <1>2
<1>4. FlowRun = [flow : Flows, version : Nat, drawn : Savable,
                 status : {"running", "done", "failed"}, states : S, texts : X, output : Nat]
  BY DEF FlowRun
<1> HIDE DEF S, X
<1> QED BY <1>3, <1>4

\* The node at hand settles: the run comes one node further, and what the node activates it
\* leads to.
LEMMA NodeSettles ==
  ASSUME NEW run \in FlowRun, NEW task \in FlowTask, RunInv(run, task), task.pc = "nodes",
         task.at \in DOMAIN task.order, NEW state \in {"done", "error", "skipped"},
         NEW text \in Nat, NEW more \in SUBSET NodesOf(task.graph), NEW late \in BOOLEAN,
         state = "done" => task.order[task.at] \in task.active,
         more # {} => state = "done",
         more \subseteq LedBy(task.graph, task.order[task.at], text)
  PROVE  LET n == task.order[task.at]
             after == [run EXCEPT !.states[n] = state, !.texts[n] = text]
             next == [task EXCEPT !.at = @ + 1, !.active = @ \cup more, !.late = late]
         IN after \in FlowRun /\ next \in FlowTask /\ RunInv(after, next)
<1> DEFINE graph == task.graph
           order == task.order
           at == task.at
           n == order[at]
           states == [run.states EXCEPT ![n] = state]
           texts == [run.texts EXCEPT ![n] = text]
           after == [run EXCEPT !.states = states, !.texts = texts]
           next == [task EXCEPT !.at = at + 1, !.active = @ \cup more, !.late = late]
<1>1. Progress(run, task) /\ run.status = "running" /\ graph \in Savable /\ graph # NoGraph
  BY DEF RunInv, FlowTask
<1>2. /\ order = TopoOrder(graph) /\ Len(order) \in Nat /\ DOMAIN order = 1..Len(order)
      /\ at \in 1..Len(order) /\ n \in NodesOf(graph) /\ NodesOf(graph) \subseteq Nat
      /\ \A i \in 1..Len(order) : order[i] \in NodesOf(graph)
      /\ \A i, j \in 1..Len(order) : order[i] = order[j] => i = j
  <2>1. order = TopoOrder(graph)
    BY <1>1, Zenon DEF Progress
  <2> HIDE DEF order, graph
  <2>2. /\ Len(order) \in Nat /\ DOMAIN order = 1..Len(order) /\ NodesOf(graph) \subseteq Nat
        /\ \A i \in 1..Len(order) : order[i] \in NodesOf(graph)
        /\ \A i, j \in 1..Len(order) : order[i] = order[j] => i = j
    BY <1>1, <2>1, SavableGraph
  <2>3. at \in DOMAIN order
    BY DEF order
  <2> QED BY <2>1, <2>2, <2>3
<1>3. /\ run.states \in [NodesOf(graph) -> NodeStates] /\ run.texts \in [NodesOf(graph) -> Nat]
      /\ task.active \subseteq NodesOf(graph)
      /\ \A i \in 1..Len(order) : run.states[order[i]] = "pending" <=> i >= at
  BY <1>1, <1>2 DEF Progress
<1>4. /\ states \in [NodesOf(graph) -> NodeStates] /\ texts \in [NodesOf(graph) -> Nat]
      /\ states[n] = state /\ texts[n] = text
      /\ \A j \in 1..Len(order) : j # at =>
            states[order[j]] = run.states[order[j]] /\ texts[order[j]] = run.texts[order[j]]
  BY <1>2, <1>3 DEF NodeStates
<1>5. after \in FlowRun
  BY <1>1, <1>4, RunRows
<1>6. /\ after.states = states /\ after.texts = texts /\ after.status = "running"
  BY <1>1 DEF FlowRun
<1>7. /\ next.at = at + 1 /\ next.active = task.active \cup more /\ next.graph = graph
      /\ next.order = order /\ next.pc = "nodes" /\ next \in FlowTask
  <2>1. at + 1 \in Nat /\ task.active \cup more \in SUBSET Nat
    BY <1>2, <1>3
  <2> QED BY <2>1 DEF FlowTask
<1> HIDE DEF states, texts, after, next
<1> DEFINE Led(x, k) == x \in InputsOf(graph)
                           \/ \E j \in 1..(k - 1) : LeadsTo(run, graph, order[j], x)
           LedNow(x, k) == x \in InputsOf(graph)
                           \/ \E j \in 1..(k - 1) : LeadsTo(after, graph, order[j], x)
<1>8. /\ \A x \in task.active : Led(x, at)
      /\ \A i \in 1..Len(order) : run.states[order[i]] = "done" => Led(order[i], i)
  BY <1>1, <1>2, Zenon DEF Progress
<1>9. ASSUME NEW j \in 1..Len(order), j # at, NEW x, LeadsTo(run, graph, order[j], x)
      PROVE  LeadsTo(after, graph, order[j], x)
  BY <1>4, <1>6, <1>9 DEF LeadsTo
<1>10. ASSUME NEW x, NEW k \in Nat, k <= at, Led(x, k) PROVE LedNow(x, k)
  <2>1. \A j \in 1..(k - 1) : j \in 1..Len(order) /\ j # at
    BY <1>2, <1>10
  <2> QED BY <1>9, <1>10, <2>1
<1>11. ASSUME NEW x, NEW k \in Nat, NEW l \in Nat, k <= l, LedNow(x, k) PROVE LedNow(x, l)
  <2>1. 1..(k - 1) \subseteq 1..(l - 1)
    BY <1>11
  <2> QED BY <1>11, <2>1
<1> HIDE DEF Led, LedNow
<1>12. ASSUME NEW x \in next.active PROVE LedNow(x, at + 1)
  <2>1. CASE x \in task.active
    <3>1. LedNow(x, at)
      BY <1>2, <1>8, <1>10, <2>1
    <3> QED BY <1>2, <1>11, <3>1
  <2>2. CASE x \in more
    <3>1. LeadsTo(after, graph, n, x)
      <4>1. after.states[n] = "done" /\ after.texts[n] = text
        BY <1>4, <1>6, <2>2
      <4>2. x \in LedBy(graph, n, text)
        BY <2>2
      <4> QED BY <4>1, <4>2 DEF LeadsTo
    <3>2. at \in 1..((at + 1) - 1)
      BY <1>2
    <3> QED BY <3>1, <3>2 DEF LedNow
  <2> QED BY <1>7, <1>12, <2>1, <2>2
<1>13. ASSUME NEW i \in 1..Len(order), after.states[order[i]] = "done"
       PROVE  LedNow(order[i], i)
  <2>1. CASE i = at
    <3>1. n \in task.active
      BY <1>4, <1>6, <1>13, <2>1
    <3> QED BY <1>2, <1>8, <1>10, <2>1, <3>1
  <2>2. CASE i # at
    <3>1. run.states[order[i]] = "done" /\ i < at
      BY <1>2, <1>3, <1>4, <1>6, <1>13, <2>2
    <3> QED BY <1>2, <1>8, <1>10, <3>1
  <2> QED BY <2>1, <2>2
<1>14. ASSUME NEW i \in 1..Len(order)
       PROVE  after.states[order[i]] = "pending" <=> i >= at + 1
  <2>1. CASE i = at
    BY <1>2, <1>4, <1>6, <2>1
  <2>2. CASE i # at
    <3>1. after.states[order[i]] = "pending" <=> i >= at
      BY <1>3, <1>4, <1>6, <2>2
    <3> QED BY <1>2, <2>2, <3>1
  <2> QED BY <2>1, <2>2
<1>15. Progress(after, next)
  <2>1. /\ next.order = TopoOrder(next.graph) /\ next.at \in 1..(Len(next.order) + 1)
        /\ next.active \subseteq NodesOf(next.graph)
        /\ after.states \in [NodesOf(next.graph) -> NodeStates]
        /\ after.texts \in [NodesOf(next.graph) -> Nat]
        /\ after.status = "running"
    BY <1>2, <1>3, <1>4, <1>6, <1>7
  <2>2. \A i \in DOMAIN next.order : after.states[next.order[i]] = "pending" <=> i >= next.at
    BY <1>2, <1>7, <1>14
  <2>3. ASSUME NEW x \in next.active
        PROVE  x \in InputsOf(next.graph) \/ \E j \in 1..(next.at - 1) :
                  LeadsTo(after, next.graph, next.order[j], x)
    <3>1. LedNow(x, next.at)
      BY <1>7, <1>12
    <3> QED BY <1>7, <3>1 DEF LedNow
  <2>4. ASSUME NEW i \in DOMAIN next.order, after.states[next.order[i]] = "done"
        PROVE  next.order[i] \in InputsOf(next.graph) \/ \E j \in 1..(i - 1) :
                  LeadsTo(after, next.graph, next.order[j], next.order[i])
    <3>1. LedNow(order[i], i)
      BY <1>2, <1>7, <1>13, <2>4
    <3> QED BY <1>7, <3>1 DEF LedNow
  <2> QED BY <2>1, <2>2, <2>3, <2>4, Zenon DEF Progress
<1>16. RunInv(after, next)
  BY <1>1, <1>6, <1>7, <1>15 DEF RunInv
<1> QED BY <1>5, <1>7, <1>16 DEF after, next, states, texts

\* The bounds are numbers.
LEMMA FlowBounds == MaxFlows \in Nat /\ MaxFlowRuns \in Nat
BY WorkflowAssumption

\* There is a row for each run and a task for each row.
LEMMA RunsAreRows ==
  ASSUME WorkflowTypes
  PROVE  /\ DOMAIN flowRuns = 1..Len(flowRuns) /\ Len(flowRuns) \in Nat
         /\ flowsMade \in Nat /\ flowFaults \in Nat
         /\ \A r \in DOMAIN flowRuns :
               /\ r \in 1..Len(flowRuns) /\ r \in 1..MaxFlowRuns
               /\ flowRuns[r] \in FlowRun /\ flowTasks[r] \in FlowTask
<1>1. /\ flowRuns \in Seq(FlowRun) /\ Len(flowRuns) <= MaxFlowRuns
      /\ flowTasks \in [1..MaxFlowRuns -> FlowTask]
      /\ flowsMade \in 0..MaxFlows /\ flowFaults \in Nat
  BY DEF WorkflowTypes
<1> QED BY <1>1, FlowBounds

\* The workflows as they are at the start.
LEMMA FlowsStart == FlowsInit => WorkflowInv
<1> SUFFICES ASSUME FlowsInit PROVE WorkflowInv
  OBVIOUS
<1>1. NoFlow \in FlowRow /\ NoFlowReq \in FlowRequest /\ NoTask \in FlowTask
  BY DEF NoFlow, NoFlowReq, NoTask, FlowRow, FlowRequest, FlowTask
<1>2. Standing = {}
  BY DEF FlowsInit, Standing
<1>3. MaxFlows \in Nat /\ MaxFlowRuns \in Nat
  BY WorkflowAssumption
<1>4. \A d \in Designers : flowReq[d] = NoFlowReq /\ flowReq[d].pc = "idle"
  BY DEF FlowsInit, NoFlowReq
<1>5. flowRuns = <<>> /\ DOMAIN flowRuns = {}
  BY DEF FlowsInit
<1>6. WorkflowTypes
  BY <1>1, <1>2, <1>3, <1>4, <1>5 DEF FlowsInit, WorkflowTypes, RequestTypes
<1>7. RunsInv
  BY <1>5 DEF RunsInv, RunningHasTask
<1>8. LoneFlowInv /\ RanInv
  BY <1>2, <1>4, <1>5 DEF FlowsInit, LoneFlowInv, RanInv
<1> QED BY <1>6, <1>7, <1>8 DEF WorkflowInv

\* A step of one run, which changes its row and its task, and perhaps counts a fault.
LEMMA RunGoes ==
  ASSUME WorkflowInv, NEW r \in DOMAIN flowRuns, NEW run \in FlowRun, NEW task \in FlowTask,
         RunInv(run, task), run.status = "running" => task.pc \in {"made", "nodes"},
         flowRuns' = [flowRuns EXCEPT ![r] = run], flowTasks' = [flowTasks EXCEPT ![r] = task],
         run.flow = flowRuns[r].flow, run.version = flowRuns[r].version,
         task.graph = flowTasks[r].graph \/ (flowAlone => SavedFor(run, task.graph)),
         flowFaults' \in Nat, flowFaults' = 0 => flowFaults = 0,
         UNCHANGED <<flowRows, flowsMade, flowReq, flowsDrawn, flowsRenamed, flowOps, flowAlone>>
  PROVE  WorkflowInv'
<1>1. /\ WorkflowTypes /\ DOMAIN flowRuns = 1..Len(flowRuns) /\ Len(flowRuns) \in Nat
      /\ r \in 1..Len(flowRuns) /\ MaxFlowRuns \in Nat /\ r \in 1..MaxFlowRuns
  BY FlowBounds, RunsAreRows DEF WorkflowInv
<1>2. Standing' = Standing
  BY DEF Standing
<1>3. /\ flowRuns' \in Seq(FlowRun) /\ Len(flowRuns') = Len(flowRuns)
      /\ DOMAIN flowRuns' = DOMAIN flowRuns /\ flowRuns'[r] = run
      /\ \A s \in DOMAIN flowRuns : s # r => flowRuns'[s] = flowRuns[s]
  BY <1>1, ExceptSeq DEF WorkflowTypes
<1>4. /\ flowTasks' \in [1..MaxFlowRuns -> FlowTask] /\ flowTasks'[r] = task
      /\ \A s \in 1..MaxFlowRuns : s # r => flowTasks'[s] = flowTasks[s]
  BY <1>1 DEF WorkflowTypes
<1>5. WorkflowTypes'
  <2>1. RequestTypes'
    BY <1>1 DEF WorkflowTypes, RequestTypes
  <2> QED BY <1>1, <1>2, <1>3, <1>4, <2>1 DEF WorkflowTypes
<1>6. RunsInv'
  <2>1. RunsInv /\ \A s \in DOMAIN flowRuns : s \in 1..MaxFlowRuns
    BY <1>1 DEF WorkflowInv, WorkflowTypes
  <2>2. ASSUME NEW s \in DOMAIN flowRuns' PROVE RunInv(flowRuns'[s], flowTasks'[s])
    BY <1>3, <1>4, <2>1 DEF RunsInv
  <2>3. RunningHasTask'
    BY <1>3, <1>4, <2>1 DEF RunsInv, RunningHasTask
  <2> QED BY <2>2, <2>3 DEF RunsInv
<1>7. flowAlone' => LoneFlowInv'
  BY <1>2 DEF WorkflowInv, LoneFlowInv, NameInUse
<1>8. ASSUME flowAlone' PROVE RanInv'
  <2>1. RanInv /\ \A s \in DOMAIN flowRuns : s \in 1..MaxFlowRuns
    BY <1>1, <1>8 DEF WorkflowInv, WorkflowTypes
  <2>2. task.graph # NoGraph => SavedFor(run, task.graph)
    BY <1>8, <2>1 DEF RanInv, SavedFor
  <2> SUFFICES ASSUME NEW s \in DOMAIN flowRuns
               PROVE  /\ flowRuns'[s].flow <= flowsMade
                      /\ flowRuns'[s].flow \in Standing =>
                            flowRuns'[s].version <= flowRows[flowRuns'[s].flow].version
                      /\ flowTasks'[s].graph # NoGraph =>
                            SavedFor(flowRuns'[s], flowTasks'[s].graph)
    BY <1>2, <1>3 DEF RanInv, SavedFor
  <2>3. CASE s = r
    BY <1>3, <1>4, <2>1, <2>2, <2>3 DEF RanInv
  <2>4. CASE s # r
    BY <1>3, <1>4, <2>1, <2>4 DEF RanInv
  <2> QED BY <2>3, <2>4
<1> QED BY <1>5, <1>6, <1>7, <1>8 DEF WorkflowInv

\* A step of a request that leaves the runs alone.
LEMMA RunsStay ==
  ASSUME RunsInv, UNCHANGED <<flowRuns, flowTasks, flowFaults>>
  PROVE  RunsInv'
BY DEF RunsInv, RunningHasTask

\* A step of a request leaves what was saved, and no workflow goes back.
LEMMA RanStay ==
  ASSUME WorkflowTypes, WorkflowTypes', RanInv, UNCHANGED <<flowRuns, flowTasks>>,
         flowsDrawn \subseteq flowsDrawn', flowsMade <= flowsMade',
         \A f \in Standing' : f <= flowsMade =>
             f \in Standing /\ flowRows[f].version <= flowRows'[f].version
  PROVE  RanInv'
<1> SUFFICES ASSUME NEW r \in DOMAIN flowRuns
             PROVE  LET run == flowRuns[r] IN
                    /\ run.flow <= flowsMade'
                    /\ run.flow \in Standing' => run.version <= flowRows'[run.flow].version
                    /\ flowTasks[r].graph # NoGraph => SavedFor(run, flowTasks[r].graph)'
  BY DEF RanInv, SavedFor
<1> DEFINE run == flowRuns[r]
<1>1. /\ run.flow <= flowsMade /\ run.flow \in Nat /\ run.version \in Nat
      /\ flowsMade \in Nat /\ flowsMade' \in Nat /\ run.flow \in Flows
  <2>1. run \in FlowRun /\ flowsMade \in Nat /\ flowsMade' \in 0..MaxFlows
    BY RunsAreRows DEF WorkflowTypes
  <2>2. run.flow \in Flows /\ run.version \in Nat
    BY <2>1 DEF FlowRun
  <2>3. run.flow <= flowsMade
    BY DEF RanInv
  <2> HIDE DEF run
  <2> QED BY <2>1, <2>2, <2>3, FlowBounds DEF Flows
<1>2. flowRows[run.flow].version \in Nat /\ flowRows'[run.flow].version \in Nat
  <2>1. flowRows[run.flow] \in FlowRow /\ flowRows'[run.flow] \in FlowRow
    BY <1>1 DEF WorkflowTypes
  <2> QED BY <2>1 DEF FlowRow
<1>3. flowTasks[r].graph # NoGraph => SavedFor(run, flowTasks[r].graph)'
  BY DEF RanInv, SavedFor
<1>4. run.flow \in Standing' => run.version <= flowRows'[run.flow].version
  BY <1>1, <1>2 DEF RanInv
<1> QED BY <1>1, <1>3, <1>4

\* What is known of a run that is under way.
LEMMA RunUnderWay ==
  ASSUME WorkflowInv, NEW r \in DOMAIN flowRuns, flowTasks[r].pc = "nodes"
  PROVE  /\ flowRuns[r] \in FlowRun /\ flowTasks[r] \in FlowTask
         /\ RunInv(flowRuns[r], flowTasks[r]) /\ Progress(flowRuns[r], flowTasks[r])
         /\ flowRuns[r].status = "running" /\ flowTasks[r].graph \in Savable
         /\ AtNode(r) => NodeAt(r) \in NodesOf(flowTasks[r].graph)
         /\ flowFaults \in Nat
<1>1. /\ flowRuns[r] \in FlowRun /\ flowTasks[r] \in FlowTask /\ flowFaults \in Nat
      /\ RunInv(flowRuns[r], flowTasks[r])
  <2>1. WorkflowTypes /\ RunInv(flowRuns[r], flowTasks[r])
    BY DEF WorkflowInv, RunsInv
  <2> QED BY <2>1, RunsAreRows
<1>2. /\ Progress(flowRuns[r], flowTasks[r]) /\ flowRuns[r].status = "running"
      /\ flowTasks[r].graph \in Savable
  BY <1>1 DEF RunInv, FlowTask
<1>3. AtNode(r) => NodeAt(r) \in NodesOf(flowTasks[r].graph)
  <2>1. flowTasks[r].order = TopoOrder(flowTasks[r].graph)
    BY <1>2 DEF Progress
  <2> QED BY <1>2, <2>1, SavableGraph DEF AtNode, NodeAt
<1> QED BY <1>1, <1>2, <1>3

\* What a node reads and what it ends with are texts.
LEMMA TextsOfNodes ==
  ASSUME WorkflowInv, NEW r \in DOMAIN flowRuns, flowTasks[r].pc = "nodes",
         NEW n \in NodesOf(flowTasks[r].graph)
  PROVE  Upstream(r, n) \in Nat /\ NodeTexts(r, n) \subseteq Nat
<1> DEFINE graph == flowTasks[r].graph
           into == Incoming(graph, n)
<1>1. graph \in Savable /\ flowRuns[r].texts \in [NodesOf(graph) -> Nat]
  BY RunUnderWay DEF Progress
<1>2. /\ graph.edges \in Seq(FlowEdge) /\ NodesOf(graph) \subseteq Nat
      /\ \A e \in ToSet(graph.edges) : {e.from, e.to} \subseteq NodesOf(graph)
  BY <1>1, SavableGraph
<1> HIDE DEF graph
<1>3. Upstream(r, n) \in Nat
  <2>1. CASE into = {}
    BY <2>1 DEF Upstream, graph
  <2>2. CASE into # {}
    <3>1. into \subseteq Nat /\ into \subseteq DOMAIN graph.edges
      BY <1>2 DEF Incoming
    <3>2. Min(into) \in DOMAIN graph.edges
      BY <2>2, <3>1, FirstPosition
    <3>3. graph.edges[Min(into)].from \in NodesOf(graph)
      BY <1>2, <3>2 DEF ToSet
    <3>4. flowRuns[r].texts[graph.edges[Min(into)].from] \in Nat
      BY <1>1, <3>3
    <3> QED BY <2>2, <3>4 DEF Upstream, graph
  <2> QED BY <2>1, <2>2
<1>4. NodeTexts(r, n) \subseteq Nat
  <2>1. InputsOf(graph) \subseteq Nat /\ n \in Nat
    BY <1>2 DEF InputsOf, graph
  <2> DEFINE type == graph.types[n]
             up == Upstream(r, n)
  <2>2. NodeTexts(r, n) = CASE type = "input" -> {n}
                            [] type = "retrieval" -> {n} \cup InputsOf(graph)
                            [] type \in {"kg", "llm", "agent"} -> {n, 0}
                            [] OTHER -> {up}
    BY DEF NodeTexts, graph
  <2> HIDE DEF type, up
  <2>3. \/ NodeTexts(r, n) = {n} \/ NodeTexts(r, n) = {n} \cup InputsOf(graph)
        \/ NodeTexts(r, n) = {n, 0} \/ NodeTexts(r, n) = {up}
    BY <2>2
  <2> QED BY <1>3, <2>1, <2>3 DEF up
<1> QED BY <1>3, <1>4

\* Nothing led to the node: it is skipped.
LEMMA SkipNodeStep ==
  ASSUME WorkflowInv, NEW r \in DOMAIN flowRuns, SkipNode(r)
  PROVE  WorkflowInv'
<1> DEFINE run == flowRuns[r]
           task == flowTasks[r]
           n == NodeAt(r)
           after == [run EXCEPT !.states[n] = "skipped", !.texts[n] = 0]
           next == [task EXCEPT !.at = @ + 1, !.active = @ \cup {}, !.late = task.late]
<1>1. AtNode(r) /\ task.pc = "nodes" /\ task.at \in DOMAIN task.order /\ n = task.order[task.at]
  BY DEF SkipNode, AtNode, NodeAt
<1>2. run \in FlowRun /\ task \in FlowTask /\ RunInv(run, task) /\ flowFaults \in Nat
  BY <1>1, RunUnderWay
<1>3. {} \in SUBSET NodesOf(task.graph) /\ task.late \in BOOLEAN
  BY <1>2 DEF FlowTask
<1>4. after \in FlowRun /\ next \in FlowTask /\ RunInv(after, next)
  BY <1>1, <1>2, <1>3, NodeSettles
<1>5. flowRuns' = [flowRuns EXCEPT ![r] = after]
  BY DEF SkipNode, SetNode
<1>6. flowTasks' = [flowTasks EXCEPT ![r] = next]
  <2>1. next = [task EXCEPT !.at = @ + 1]
    BY <1>2 DEF FlowTask
  <2> QED BY <2>1 DEF SkipNode
<1>7. next.pc \in {"made", "nodes"}
  BY <1>1, <1>2 DEF FlowTask
<1>8. UNCHANGED <<flowRows, flowsMade, flowReq, flowHistory, FlowCounts>>
  BY DEF SkipNode
<1>9. after.flow = run.flow /\ after.version = run.version /\ next.graph = task.graph
  BY <1>2 DEF FlowRun, FlowTask
<1> HIDE DEF after, next
<1> QED BY <1>2, <1>4, <1>5, <1>6, <1>7, <1>8, <1>9, RunGoes DEF flowHistory, FlowCounts

\* A node is executed, and what it activates it leads to.
LEMMA ExecuteNodeStep ==
  ASSUME WorkflowInv, NEW r \in DOMAIN flowRuns, ExecuteNode(r)
  PROVE  WorkflowInv'
<1> DEFINE run == flowRuns[r]
           task == flowTasks[r]
           n == NodeAt(r)
           graph == task.graph
<1>1. AtNode(r) /\ task.pc = "nodes" /\ task.at \in DOMAIN task.order /\ n = task.order[task.at]
      /\ n \in task.active
  BY DEF ExecuteNode, AtNode, NodeAt
<1>2. /\ run \in FlowRun /\ task \in FlowTask /\ RunInv(run, task) /\ flowFaults \in Nat
      /\ graph \in Savable /\ n \in NodesOf(graph)
  BY <1>1, RunUnderWay
<1>3. PICK text \in NodeTexts(r, n), branch \in Branches(r, n) :
         /\ SetNode(r, n, "done", text)
         /\ flowTasks' = [flowTasks EXCEPT ![r].at = @ + 1,
                                           ![r].active = @ \cup Activated(graph, n, branch)]
  BY DEF ExecuteNode
<1>4. text \in Nat
  BY <1>1, <1>2, TextsOfNodes
<1> DEFINE more == Activated(graph, n, branch)
           after == [run EXCEPT !.states[n] = "done", !.texts[n] = text]
           next == [task EXCEPT !.at = @ + 1, !.active = @ \cup more, !.late = task.late]
<1>5. more \in SUBSET NodesOf(graph) /\ task.late \in BOOLEAN
  <2>1. \A e \in ToSet(graph.edges) : {e.from, e.to} \subseteq NodesOf(graph)
    BY <1>2, SavableGraph
  <2> QED BY <1>2, <2>1 DEF Activated, FlowTask
<1>6. more \subseteq LedBy(graph, n, text)
  <2>1. CASE graph.types[n] # "is_empty"
    BY <2>1 DEF Activated, LedBy
  <2>2. CASE graph.types[n] = "is_empty"
    <3>1. text = Upstream(r, n)
      BY <1>3, <2>2 DEF NodeTexts
    <3>2. branch = IF Upstream(r, n) = 0 THEN "true" ELSE "false"
      BY <1>3, <2>2 DEF Branches
    <3> QED BY <3>1, <3>2 DEF Activated, LedBy
  <2> QED BY <2>1, <2>2
<1> HIDE DEF more
<1>7. after \in FlowRun /\ next \in FlowTask /\ RunInv(after, next)
  BY <1>1, <1>2, <1>4, <1>5, <1>6, NodeSettles
<1>8. flowRuns' = [flowRuns EXCEPT ![r] = after]
  BY <1>3 DEF SetNode
<1>9. flowTasks' = [flowTasks EXCEPT ![r] = next]
  <2>1. next = [task EXCEPT !.at = @ + 1, !.active = @ \cup more]
    BY <1>2 DEF FlowTask
  <2> QED BY <1>3, <2>1 DEF more
<1>10. next.pc \in {"made", "nodes"}
  BY <1>1, <1>2 DEF FlowTask
<1>11. UNCHANGED <<flowRows, flowsMade, flowReq, flowHistory, FlowCounts>>
  BY DEF ExecuteNode
<1>12. after.flow = run.flow /\ after.version = run.version /\ next.graph = task.graph
  BY <1>2 DEF FlowRun, FlowTask
<1> HIDE DEF after, next
<1> QED BY <1>2, <1>7, <1>8, <1>9, <1>10, <1>11, <1>12, RunGoes DEF flowHistory, FlowCounts

\* A node fails and activates nothing.
LEMMA FailNodeStep ==
  ASSUME WorkflowInv, NEW r \in DOMAIN flowRuns, FailNode(r)
  PROVE  WorkflowInv'
<1> DEFINE run == flowRuns[r]
           task == flowTasks[r]
           n == NodeAt(r)
           after == [run EXCEPT !.states[n] = "error", !.texts[n] = 0]
<1>1. AtNode(r) /\ task.pc = "nodes" /\ task.at \in DOMAIN task.order /\ n = task.order[task.at]
  BY DEF FailNode, AtNode, NodeAt
<1>2. run \in FlowRun /\ task \in FlowTask /\ RunInv(run, task) /\ flowFaults \in Nat
  BY <1>1, RunUnderWay
<1>3. task.late \in BOOLEAN
  BY <1>2 DEF FlowTask
<1>4. /\ flowFaults' \in Nat /\ (flowFaults' = 0 => flowFaults = 0)
      /\ \E late \in BOOLEAN : flowTasks' = [flowTasks EXCEPT ![r] =
                                  [task EXCEPT !.at = @ + 1, !.late = late]]
  <2>1. CASE FlowFault /\ \E late \in BOOLEAN :
                flowTasks' = [flowTasks EXCEPT ![r].at = @ + 1, ![r].late = @ \/ late]
    <3>1. PICK late \in BOOLEAN :
             flowTasks' = [flowTasks EXCEPT ![r] = [task EXCEPT !.at = @ + 1, !.late = @ \/ late]]
      BY <2>1
    <3> DEFINE b == task.late \/ late
    <3>2. b \in BOOLEAN
      BY <1>3
    <3>3. flowTasks' = [flowTasks EXCEPT ![r] = [task EXCEPT !.at = @ + 1, !.late = b]]
      BY <3>1
    <3> HIDE DEF b
    <3>4. flowFaults' = flowFaults + 1
      BY <2>1 DEF FlowFault
    <3>5. flowFaults' \in Nat /\ (flowFaults' = 0 => flowFaults = 0)
      BY <1>2, <3>4
    <3> QED BY <3>2, <3>3, <3>5, Zenon
  <2>2. CASE UNCHANGED flowFaults /\ flowTasks' = [flowTasks EXCEPT ![r].at = @ + 1]
    <3>1. [task EXCEPT !.at = @ + 1] = [task EXCEPT !.at = @ + 1, !.late = task.late]
      BY <1>2 DEF FlowTask
    <3> QED BY <1>2, <1>3, <2>2, <3>1
  <2> QED BY <2>1, <2>2 DEF FailNode
<1>5. PICK late \in BOOLEAN :
         flowTasks' = [flowTasks EXCEPT ![r] = [task EXCEPT !.at = @ + 1, !.late = late]]
  BY <1>4
<1> DEFINE next == [task EXCEPT !.at = @ + 1, !.active = @ \cup {}, !.late = late]
<1>6. {} \in SUBSET NodesOf(task.graph)
  OBVIOUS
<1>7. after \in FlowRun /\ next \in FlowTask /\ RunInv(after, next)
  BY <1>1, <1>2, <1>6, NodeSettles
<1>8. flowRuns' = [flowRuns EXCEPT ![r] = after]
  BY DEF FailNode, SetNode
<1>9. flowTasks' = [flowTasks EXCEPT ![r] = next]
  <2>1. next = [task EXCEPT !.at = @ + 1, !.late = late]
    BY <1>2 DEF FlowTask
  <2> QED BY <1>5, <2>1
<1>10. next.pc \in {"made", "nodes"}
  BY <1>1, <1>2 DEF FlowTask
<1>11. UNCHANGED <<flowRows, flowsMade, flowReq, flowHistory, flowOps, flowAlone>>
  BY DEF FailNode
<1>12. after.flow = run.flow /\ after.version = run.version /\ next.graph = task.graph
  BY <1>2 DEF FlowRun, FlowTask
<1> HIDE DEF after, next
<1> QED BY <1>2, <1>4, <1>7, <1>8, <1>9, <1>10, <1>11, <1>12, RunGoes DEF flowHistory

\* The task reads the workflow: what stands can be run through, so no cycle is met.
LEMMA LoadRunStep ==
  ASSUME WorkflowInv, NEW r \in DOMAIN flowRuns, LoadRun(r)
  PROVE  WorkflowInv'
<1> DEFINE run == flowRuns[r]
           f == flowRuns[r].flow
           graph == IF f \in Standing THEN flowRows[f].graph ELSE NoGraph
           order == TopoOrder(graph)
<1>1. /\ run \in FlowRun /\ flowTasks[r].pc = "made" /\ r \in 1..MaxFlowRuns
      /\ RunInv(run, flowTasks[r]) /\ flowFaults \in Nat
  <2>1. WorkflowTypes /\ RunInv(run, flowTasks[r]) /\ flowTasks[r].pc = "made"
    BY DEF WorkflowInv, RunsInv, LoadRun
  <2> QED BY <2>1, RunsAreRows
<1>2. run.status = "running" /\ run.states = <<>> /\ f \in Flows
  BY <1>1 DEF RunInv, FlowRun
<1>3. graph \in Savable \cup {NoGraph}
  BY DEF WorkflowInv, WorkflowTypes
<1>4. UNCHANGED <<flowRows, flowsMade, flowReq, flowHistory, FlowCounts>>
  BY DEF LoadRun
<1> HIDE DEF run
<1>5. CASE graph = NoGraph
  <2> DEFINE after == [run EXCEPT !.status = "failed"]
             next == [NoTask EXCEPT !.pc = "ended", !.graph = NoGraph]
  <2>1. flowRuns' = [flowRuns EXCEPT ![r] = after] /\ flowTasks' = [flowTasks EXCEPT ![r] = next]
    BY <1>5 DEF LoadRun, run
  <2>2. /\ after \in FlowRun /\ after.status = "failed" /\ after.states = <<>>
        /\ after.flow = run.flow /\ after.version = run.version
    BY <1>1, <1>2 DEF FlowRun
  <2>3. next \in FlowTask /\ next.pc = "ended" /\ next.graph = NoGraph
    <3>1. NoTask \in FlowTask
      BY DEF FlowTask, NoTask
    <3> QED BY <3>1 DEF FlowTask
  <2> HIDE DEF after, next
  <2>4. RunInv(after, next)
    BY <2>2, <2>3 DEF RunInv
  <2>5. flowTasks[r].graph = NoGraph
    BY <1>1 DEF RunInv
  <2> QED
    BY <1>1, <1>4, <2>1, <2>2, <2>3, <2>4, <2>5, RunGoes DEF run, flowHistory, FlowCounts
<1>6. CASE graph # NoGraph
  <2>1. graph \in Savable
    BY <1>3, <1>6
  <2>13. ASSUME flowAlone PROVE SavedFor(run, graph)
    <3>1. f \in Standing /\ graph = flowRows[f].graph /\ f = run.flow
      BY <1>6 DEF run
    <3>2. run.version <= flowRows[f].version /\ <<f, flowRows[f].version, graph>> \in flowsDrawn
      BY <2>13, <3>1 DEF WorkflowInv, LoneFlowInv, RanInv, run
    <3>3. run.version \in Nat /\ flowRows[f].version \in Nat
      BY <1>1, <1>2, <3>1 DEF FlowRun, FlowRow, WorkflowInv, WorkflowTypes
    <3> HIDE DEF graph, f
    <3> QED BY <3>1, <3>2, <3>3 DEF SavedFor
  <2> DEFINE states == [n \in NodesOf(graph) |-> "pending"]
             texts == [n \in NodesOf(graph) |-> 0]
             after == [run EXCEPT !.states = states, !.texts = texts]
             next == [NoTask EXCEPT !.pc = "nodes", !.graph = graph, !.order = order,
                                    !.at = 1, !.active = InputsOf(graph)]
  <2> HIDE DEF graph
  <2>2. /\ ToSet(order) = NodesOf(graph) /\ order \in Seq(Nat) /\ NodesOf(graph) \subseteq Nat
        /\ Len(order) \in Nat /\ DOMAIN order = 1..Len(order)
        /\ \A i \in 1..Len(order) : order[i] \in NodesOf(graph)
    BY <2>1, SavableGraph
  <2>3. /\ flowRuns' = [flowRuns EXCEPT ![r].states = states, ![r].texts = texts]
        /\ flowTasks' = [flowTasks EXCEPT ![r] = next]
    BY <1>6, <2>2 DEF LoadRun, graph
  <2>4. flowRuns' = [flowRuns EXCEPT ![r] = after]
    BY <2>3 DEF run
  <2>5. InputsOf(graph) \subseteq NodesOf(graph) /\ InputsOf(graph) \subseteq Nat
    BY <2>2 DEF InputsOf
  <2>6. /\ next \in FlowTask /\ next.pc = "nodes" /\ next.graph = graph /\ next.order = order
        /\ next.at = 1 /\ next.active = InputsOf(graph)
    <3> HIDE DEF order
    <3> QED BY <2>1, <2>2, <2>5 DEF FlowTask, NoTask
  <2>7. states \in [NodesOf(graph) -> NodeStates] /\ texts \in [NodesOf(graph) -> Nat]
    BY DEF NodeStates
  <2>8. after \in FlowRun
    BY <1>1, <2>1, <2>7, RunRows
  <2>9. /\ after.states = states /\ after.texts = texts /\ after.status = "running"
        /\ after.flow = run.flow /\ after.version = run.version
    BY <1>1, <1>2 DEF FlowRun
  <2>10. \A i \in DOMAIN order : after.states[order[i]] = "pending"
    BY <2>2, <2>9
  <2> HIDE DEF after, next, states, texts
  <2>11. Progress(after, next)
    <3>1. /\ next.order = TopoOrder(next.graph) /\ next.at \in 1..(Len(next.order) + 1)
          /\ next.active \subseteq NodesOf(next.graph)
          /\ after.states \in [NodesOf(next.graph) -> NodeStates]
          /\ after.texts \in [NodesOf(next.graph) -> Nat]
          /\ after.status = "running"
      BY <2>2, <2>5, <2>6, <2>7, <2>9
    <3>2. \A i \in DOMAIN next.order : after.states[next.order[i]] = "pending" <=> i >= next.at
      BY <2>2, <2>6, <2>10
    <3>3. \A n \in next.active : n \in InputsOf(next.graph)
      BY <2>6
    <3>4. \A i \in DOMAIN next.order : after.states[next.order[i]] # "done"
      BY <2>6, <2>10
    <3> QED BY <3>1, <3>2, <3>3, <3>4, Zenon DEF Progress
  <2>12. RunInv(after, next)
    BY <1>6, <2>6, <2>9, <2>11 DEF RunInv
  <2>14. flowAlone => SavedFor(after, next.graph)
    BY <2>6, <2>9, <2>13 DEF SavedFor
  <2> QED
    BY <1>1, <1>4, <2>3, <2>4, <2>6, <2>8, <2>9, <2>12, <2>14, RunGoes
       DEF run, flowHistory, FlowCounts
<1> QED BY <1>5, <1>6

\* The run has come to the end of the order.
LEMMA EndRunStep ==
  ASSUME WorkflowInv, NEW r \in DOMAIN flowRuns, EndRun(r)
  PROVE  WorkflowInv'
<1> DEFINE run == flowRuns[r]
           task == flowTasks[r]
           graph == task.graph
           order == task.order
           outputs == OutputsDone(r)
           status == IF outputs # {} THEN "done" ELSE "failed"
           output == IF outputs = {} THEN 0 ELSE run.texts[order[Max(outputs)]]
           after == [run EXCEPT !.status = status, !.output = output]
           next == [task EXCEPT !.pc = "ended"]
<1>1. task.pc = "nodes" /\ task.at \notin DOMAIN order
  BY DEF EndRun, AtNode
<1>2. /\ run \in FlowRun /\ task \in FlowTask /\ RunInv(run, task) /\ Progress(run, task)
      /\ run.status = "running" /\ graph \in Savable /\ graph # NoGraph /\ flowFaults \in Nat
  BY <1>1, RunUnderWay, SavableGraph
<1>3. /\ order = TopoOrder(graph) /\ task.at \in 1..(Len(order) + 1)
      /\ task.active \subseteq NodesOf(graph)
      /\ run.states \in [NodesOf(graph) -> NodeStates] /\ run.texts \in [NodesOf(graph) -> Nat]
  BY <1>2, Zenon DEF Progress
<1>4. flowRuns' = [flowRuns EXCEPT ![r] = after] /\ flowTasks' = [flowTasks EXCEPT ![r] = next]
  BY DEF EndRun
<1>5. UNCHANGED <<flowRows, flowsMade, flowReq, flowHistory, FlowCounts>>
  BY DEF EndRun
<1>6. outputs = {i \in DOMAIN order : graph.types[order[i]] = "output"
                                      /\ run.states[order[i]] = "done"}
  BY DEF OutputsDone
<1> HIDE DEF run, task, graph, order, outputs
<1>7. /\ Len(order) \in Nat /\ DOMAIN order = 1..Len(order)
      /\ \A i \in 1..Len(order) : order[i] \in NodesOf(graph)
      /\ \A n \in NodesOf(graph) : \E i \in 1..Len(order) : order[i] = n
  BY <1>2, <1>3, SavableGraph
<1>8. task.at = Len(order) + 1
  BY <1>1, <1>3, <1>7
<1>9. outputs # {} <=> \E n \in NodesOf(graph) : run.states[n] = "done" /\ graph.types[n] = "output"
  BY <1>6, <1>7
<1>10. output \in Nat
  <2>1. outputs \subseteq 1..Len(order)
    BY <1>6, <1>7
  <2>2. outputs # {} => Max(outputs) \in 1..Len(order)
    BY <1>7, <2>1, LastPosition
  <2>3. outputs # {} => run.texts[order[Max(outputs)]] \in Nat
    BY <1>3, <1>7, <2>2
  <2> QED BY <2>3
<1>11. status \in {"running", "done", "failed"} /\ (status = "done" <=> outputs # {})
       /\ status # "running"
  OBVIOUS
<1> HIDE DEF status, output
<1>12. /\ after \in FlowRun /\ after.status = status /\ after.states = run.states
       /\ after.texts = run.texts /\ after.flow = run.flow /\ after.version = run.version
  BY <1>2, <1>10, <1>11 DEF FlowRun
<1>13. /\ next \in FlowTask /\ next.pc = "ended" /\ next.graph = graph /\ next.order = order
       /\ next.at = task.at /\ next.active = task.active
  BY <1>2 DEF FlowTask, graph, order
<1> HIDE DEF after, next
<1>14. /\ \A i \in DOMAIN order : run.states[order[i]] = "pending" <=> i >= task.at
       /\ \A n \in task.active : n \in InputsOf(graph)
             \/ \E j \in 1..(task.at - 1) : LeadsTo(run, graph, order[j], n)
       /\ \A i \in DOMAIN order : run.states[order[i]] = "done" => order[i] \in InputsOf(graph)
             \/ \E j \in 1..(i - 1) : LeadsTo(run, graph, order[j], order[i])
  BY <1>2, Zenon DEF Progress, graph, order
<1>15. Progress(after, next)
  <2>1. /\ next.order = TopoOrder(next.graph) /\ next.at \in 1..(Len(next.order) + 1)
        /\ next.active \subseteq NodesOf(next.graph)
        /\ after.states \in [NodesOf(next.graph) -> NodeStates]
        /\ after.texts \in [NodesOf(next.graph) -> Nat]
        /\ next.at = Len(next.order) + 1
    BY <1>3, <1>8, <1>12, <1>13
  <2>2. \A i \in DOMAIN next.order : after.states[next.order[i]] = "pending" <=> i >= next.at
    BY <1>12, <1>13, <1>14
  <2>3. ASSUME NEW n \in next.active
        PROVE  n \in InputsOf(next.graph) \/ \E j \in 1..(next.at - 1) :
                  LeadsTo(after, next.graph, next.order[j], n)
    <3>1. n \in InputsOf(graph) \/ \E j \in 1..(task.at - 1) : LeadsTo(run, graph, order[j], n)
      BY <1>13, <1>14, <2>3
    <3> QED BY <1>12, <1>13, <3>1 DEF LeadsTo
  <2>4. ASSUME NEW i \in DOMAIN next.order, after.states[next.order[i]] = "done"
        PROVE  next.order[i] \in InputsOf(next.graph) \/ \E j \in 1..(i - 1) :
                  LeadsTo(after, next.graph, next.order[j], next.order[i])
    <3>1. order[i] \in InputsOf(graph)
             \/ \E j \in 1..(i - 1) : LeadsTo(run, graph, order[j], order[i])
      BY <1>12, <1>13, <1>14, <2>4
    <3> QED BY <1>12, <1>13, <3>1 DEF LeadsTo
  <2>5. after.status = "done" <=>
           \E n \in NodesOf(next.graph) : after.states[n] = "done" /\ next.graph.types[n] = "output"
    BY <1>9, <1>11, <1>12, <1>13
  <2> QED BY <2>1, <2>2, <2>3, <2>4, <2>5, Zenon DEF Progress
<1>16. RunInv(after, next)
  BY <1>2, <1>11, <1>12, <1>13, <1>15 DEF RunInv
<1> QED
  BY <1>2, <1>4, <1>5, <1>11, <1>12, <1>13, <1>16, RunGoes
     DEF run, task, graph, flowHistory, FlowCounts

\* The process ends: the rows stay as they are.
LEMMA FlowRestartStep ==
  ASSUME WorkflowInv, FlowRestart
  PROVE  WorkflowInv'
<1>1. /\ flowTasks' = [r \in DOMAIN flowTasks |-> [flowTasks[r] EXCEPT !.pc = "none"]]
      /\ flowReq' = [d \in Designers |-> NoFlowReq]
      /\ UNCHANGED <<flowRows, flowsMade, flowRuns, flowsDrawn, flowsRenamed, flowOps, flowAlone>>
      /\ flowFaults' = flowFaults + 1
  BY DEF FlowRestart, FlowFault, flowHistory
<1>2. WorkflowTypes /\ RunsInv /\ flowFaults \in Nat /\ MaxFlowRuns \in Nat
  BY FlowBounds DEF WorkflowInv, WorkflowTypes
<1>3. NoFlowReq \in FlowRequest /\ NoFlowReq.pc = "idle"
  BY DEF NoFlow, NoFlowReq, FlowRow, FlowRequest
<1>4. Standing' = Standing
  BY <1>1 DEF Standing
<1>5. ASSUME NEW task \in FlowTask
      PROVE  LET next == [task EXCEPT !.pc = "none"] IN
             /\ next \in FlowTask /\ next.pc = "none" /\ next.graph = task.graph
             /\ next.order = task.order /\ next.at = task.at /\ next.active = task.active
  BY DEF FlowTask
<1>6. /\ \A s \in 1..MaxFlowRuns : flowTasks'[s] = [flowTasks[s] EXCEPT !.pc = "none"]
      /\ \A s \in 1..MaxFlowRuns : flowTasks[s] \in FlowTask
      /\ flowTasks' \in [1..MaxFlowRuns -> FlowTask]
  BY <1>1, <1>2, <1>5 DEF WorkflowTypes
<1>7. WorkflowTypes'
  <2>1. RequestTypes'
    BY <1>1, <1>3 DEF RequestTypes
  <2> QED BY <1>1, <1>2, <1>4, <1>6, <2>1 DEF WorkflowTypes
<1>8. ASSUME NEW s \in DOMAIN flowRuns' PROVE RunInv(flowRuns'[s], flowTasks'[s])
  <2> DEFINE run == flowRuns[s]
             task == flowTasks[s]
             next == [task EXCEPT !.pc = "none"]
  <2>1. s \in 1..MaxFlowRuns /\ RunInv(run, task) /\ flowRuns'[s] = run
    BY <1>1, <1>2 DEF WorkflowTypes, RunsInv
  <2>2. flowTasks'[s] = next /\ task \in FlowTask
    BY <1>6, <2>1
  <2>3. /\ next.pc = "none" /\ next.graph = task.graph
        /\ next.order = task.order /\ next.at = task.at /\ next.active = task.active
    BY <1>5, <2>2
  <2> HIDE DEF run, task, next
  <2>4. Progress(run, task) => Progress(run, next)
    BY <2>3 DEF Progress
  <2>5. RunInv(run, next)
    BY <2>1, <2>3, <2>4 DEF RunInv
  <2> QED BY <2>1, <2>2, <2>5
<1>9. RunsInv'
  BY <1>1, <1>2, <1>8 DEF RunsInv, RunningHasTask
<1>10. flowAlone' => LoneFlowInv'
  BY <1>1, <1>3, <1>4 DEF WorkflowInv, LoneFlowInv
<1>11. ASSUME flowAlone' PROVE RanInv'
  <2>1. ASSUME NEW s \in DOMAIN flowRuns PROVE flowTasks'[s].graph = flowTasks[s].graph
    <3>1. s \in 1..MaxFlowRuns
      BY <1>2 DEF WorkflowTypes
    <3>2. flowTasks[s] \in FlowTask /\ flowTasks'[s] = [flowTasks[s] EXCEPT !.pc = "none"]
      BY <1>6, <3>1
    <3> QED BY <1>5, <3>2
  <2> QED BY <1>1, <1>4, <1>11, <2>1 DEF WorkflowInv, RanInv, SavedFor
<1> QED BY <1>7, <1>9, <1>10, <1>11 DEF WorkflowInv

-----------------------------------------------------------------------------
(* The requests.                                                           *)

\* A request reads the row.
LEMMA BeginFlowStep ==
  ASSUME WorkflowInv, NEW d \in Designers, BeginFlow(d)
  PROVE  WorkflowInv'
<1>1. /\ WorkflowTypes /\ RunsInv /\ flowReq[d] = NoFlowReq
      /\ UNCHANGED <<flowRows, flowsMade, flowRuns, flowTasks, flowsDrawn, flowsRenamed,
                     flowFaults, flowAlone>>
      /\ flowOps' = flowOps + 1
      /\ flowAlone => flowReq = [e \in Designers |-> NoFlowReq]
  BY DEF BeginFlow, WorkflowInv, flowHistory
<1>2. Standing' = Standing
  BY <1>1 DEF Standing
<1>3. PICK new :
         /\ flowReq' = [flowReq EXCEPT ![d] = new] /\ new \in FlowRequest
         /\ \/ new.pc = "create" /\ ~NameInUse(new.row.name) /\ new.row.name \in FlowNames
            \/ /\ new.pc \notin {"idle", "create"} /\ new.flow \in Standing
               /\ new.row = flowRows[new.flow]
  <2>1. ASSUME NEW name \in FlowNames, ~NameInUse(name),
               flowReq' = [flowReq EXCEPT ![d] = [pc |-> "create", flow |-> 0,
                                                  row |-> [NoFlow EXCEPT !.name = name]]]
        PROVE  \E new :
                 /\ flowReq' = [flowReq EXCEPT ![d] = new] /\ new \in FlowRequest
                 /\ new.pc = "create" /\ ~NameInUse(new.row.name) /\ new.row.name \in FlowNames
    <3> DEFINE row == [NoFlow EXCEPT !.name = name]
               new == [pc |-> "create", flow |-> 0, row |-> row]
    <3>1. row \in FlowRow /\ row.name = name
      BY DEF NoFlow, FlowRow
    <3> HIDE DEF row
    <3>2. new \in FlowRequest /\ new.pc = "create" /\ new.row = row
      BY <3>1 DEF FlowRequest
    <3>3. flowReq' = [flowReq EXCEPT ![d] = new]
      BY <2>1 DEF row
    <3> HIDE DEF new
    <3> QED BY <2>1, <3>1, <3>2, <3>3
  <2>2. ASSUME NEW f \in Standing, NEW op \in {"save", "delete", "start"},
               flowReq' = [flowReq EXCEPT ![d] = [pc |-> op, flow |-> f, row |-> flowRows[f]]]
        PROVE  \E new :
                 /\ flowReq' = [flowReq EXCEPT ![d] = new] /\ new \in FlowRequest
                 /\ new.pc \notin {"idle", "create"} /\ new.flow \in Standing
                 /\ new.row = flowRows[new.flow]
    <3> DEFINE new == [pc |-> op, flow |-> f, row |-> flowRows[f]]
    <3>1. f \in Flows /\ flowRows[f] \in FlowRow
      BY <1>1 DEF WorkflowTypes, Standing
    <3>2. new \in FlowRequest /\ new.pc = op /\ new.flow = f /\ new.row = flowRows[f]
      BY <3>1 DEF FlowRequest
    <3> QED BY <2>2, <3>2
  <2> QED BY <2>1, <2>2, Zenon DEF BeginFlow
<1>4. /\ flowReq' \in [Designers -> FlowRequest] /\ flowReq'[d] = new
      /\ \A e \in Designers : e # d => flowReq'[e] = flowReq[e]
  BY <1>1, <1>3 DEF WorkflowTypes, RequestTypes
<1>5. new.pc # "create" => new.flow \in Flows /\ new.row.graph \in Savable
  BY <1>1, <1>3 DEF WorkflowTypes, Standing
<1>6. WorkflowTypes'
  <2>1. RequestTypes'
    BY <1>1, <1>3, <1>4, <1>5 DEF WorkflowTypes, RequestTypes
  <2> QED BY <1>1, <1>2, <2>1 DEF WorkflowTypes
<1>7. RunsInv'
  BY <1>1, RunsStay
<1>8. ASSUME flowAlone' PROVE LoneFlowInv' /\ RanInv'
  <2>1. LoneFlowInv /\ RanInv /\ \A e \in Designers : e # d => flowReq'[e] = NoFlowReq
    BY <1>1, <1>4, <1>8 DEF WorkflowInv
  <2>2. NoFlowReq.pc = "idle"
    BY DEF NoFlowReq
  <2>3. \A e \in Designers : e # d => flowReq'[e].pc = "idle"
    BY <2>1, <2>2
  <2>4. LoneFlowInv'
    BY <1>1, <1>2, <1>3, <1>4, <2>1, <2>3 DEF LoneFlowInv, NameInUse
  <2>5. RanInv'
    BY <1>1, <1>2, <2>1 DEF RanInv, SavedFor
  <2> QED BY <2>4, <2>5
<1> QED BY <1>6, <1>7, <1>8 DEF WorkflowInv

\* A request that is over leaves its place; the rest of them are as they were.
LEMMA ReleaseFlowStep ==
  ASSUME RequestTypes, NEW d \in Designers, ReleaseFlow(d)
  PROVE  /\ RequestTypes' /\ flowReq'[d] = NoFlowReq
         /\ flowReq'[d].pc = "idle"
         /\ \A e \in Designers : e # d => flowReq'[e] = flowReq[e]
<1>1. NoFlowReq \in FlowRequest /\ NoFlowReq.pc = "idle"
  BY DEF NoFlow, NoFlowReq, FlowRow, FlowRequest
<1>2. /\ flowReq' \in [Designers -> FlowRequest] /\ flowReq'[d] = NoFlowReq
      /\ \A e \in Designers : e # d => flowReq'[e] = flowReq[e]
  BY <1>1 DEF ReleaseFlow, RequestTypes
<1> QED BY <1>1, <1>2 DEF RequestTypes

\* A workflow is made, or its graph is refused.
LEMMA CreateFlowStep ==
  ASSUME WorkflowInv, NEW d \in Designers, CreateFlow(d)
  PROVE  WorkflowInv'
<1>1. /\ WorkflowTypes /\ RunsInv /\ flowReq[d].pc = "create" /\ ReleaseFlow(d)
      /\ UNCHANGED <<flowRuns, flowTasks, flowsRenamed, flowOps, flowFaults, flowAlone>>
      /\ MaxFlows \in Nat
  BY FlowBounds DEF CreateFlow, WorkflowInv, FlowCounts
<1>2. /\ RequestTypes' /\ flowReq'[d] = NoFlowReq
      /\ flowReq'[d].pc = "idle"
      /\ \A e \in Designers : e # d => flowReq'[e] = flowReq[e]
  BY <1>1, ReleaseFlowStep DEF WorkflowTypes
<1>3. RunsInv'
  BY <1>1, RunsStay
<1> DEFINE name == flowReq[d].row.name
<1>4. flowAlone => /\ LoneFlowInv /\ RanInv /\ ~NameInUse(name)
                   /\ \A e \in Designers : e # d => flowReq[e] = NoFlowReq
  <2>1. flowReq[d] # NoFlowReq
    BY <1>1 DEF NoFlowReq
  <2> QED BY <1>1, <2>1 DEF WorkflowInv, LoneFlowInv
<1>5. flowAlone => \A e \in Designers : flowReq'[e] = NoFlowReq /\ flowReq'[e].pc = "idle"
  BY <1>2, <1>4
<1>6. CASE UNCHANGED <<flowRows, flowsMade, flowsDrawn>>
  <2>1. Standing' = Standing
    BY <1>6 DEF Standing
  <2>2. WorkflowTypes'
    BY <1>1, <1>2, <1>6, <2>1 DEF WorkflowTypes
  <2>3. flowAlone' => LoneFlowInv' /\ RanInv'
    BY <1>1, <1>4, <1>5, <1>6, <2>1 DEF LoneFlowInv, RanInv, SavedFor
  <2> QED BY <1>3, <2>2, <2>3 DEF WorkflowInv
<1>7. ASSUME NEW graph \in Savable, flowsMade < MaxFlows,
             flowRows' = [flowRows EXCEPT ![flowsMade + 1] =
                            [graph |-> graph, version |-> 1, name |-> name, enabled |-> TRUE]],
             flowsMade' = flowsMade + 1,
             flowsDrawn' = flowsDrawn \cup {<<flowsMade + 1, 1, graph>>}
      PROVE  WorkflowInv'
  <2> DEFINE f == flowsMade + 1
             row == [graph |-> graph, version |-> 1, name |-> name, enabled |-> TRUE]
  <2>1. f \in Flows /\ flowsMade \in Nat /\ f \in 0..MaxFlows
    BY <1>1, <1>7 DEF WorkflowTypes, Flows
  <2>2. row \in FlowRow /\ row.graph = graph /\ row.version = 1 /\ row.name = name
    <3>1. name \in FlowNames
      BY <1>1 DEF WorkflowTypes, RequestTypes
    <3> HIDE DEF name
    <3> QED BY <3>1 DEF FlowRow
  <2>3. row # NoFlow
    BY <2>2, SavableGraph DEF NoFlow
  <2> HIDE DEF row
  <2>4. /\ flowRows' \in [Flows -> FlowRow] /\ flowRows'[f] = row
        /\ \A g \in Flows : g # f => flowRows'[g] = flowRows[g]
    BY <1>1, <1>7, <2>1, <2>2 DEF WorkflowTypes, row
  <2>5. Standing' = Standing \cup {f}
    BY <2>1, <2>3, <2>4 DEF Standing
  <2>6. flowsDrawn' \subseteq Flows \X Nat \X Savable
    <3>1. <<f, 1, graph>> \in Flows \X Nat \X Savable
      BY <2>1
    <3> QED BY <1>1, <1>7, <3>1 DEF WorkflowTypes
  <2>7. WorkflowTypes'
    BY <1>1, <1>2, <1>7, <2>1, <2>2, <2>4, <2>5, <2>6 DEF WorkflowTypes
  <2> HIDE DEF name
  <2>8. ASSUME flowAlone' PROVE LoneFlowInv' /\ RanInv'
    <3>1. LoneFlowInv /\ RanInv /\ flowAlone /\ ~NameInUse(name)
      BY <1>1, <1>4, <2>8 DEF name
    <3>2. \A x \in flowsDrawn : x[1] <= flowsMade /\ x[1] \in Nat
      BY <1>1, <3>1 DEF LoneFlowInv, WorkflowTypes, Flows
    <3>3. \A x \in flowsDrawn' : x \in flowsDrawn \/ (x[1] = f /\ x[2] = 1 /\ x[3] = graph)
      BY <1>7
    <3>4. \A x, y \in flowsDrawn' : x[1] = y[1] /\ x[2] = y[2] => x[3] = y[3]
      BY <2>1, <3>1, <3>2, <3>3 DEF LoneFlowInv
    <3>5. \A x \in flowsDrawn' :
             x[1] <= flowsMade' /\ (x[1] \in Standing' => x[2] <= flowRows'[x[1]].version)
      <4>1. \A g \in Standing : g # f /\ g \in Flows
        BY <2>1, <3>1 DEF LoneFlowInv, Standing
      <4>2. ASSUME NEW x \in flowsDrawn
            PROVE  x[1] <= flowsMade' /\ (x[1] \in Standing' => x[2] <= flowRows'[x[1]].version)
        <5>1. x[1] # f /\ x[1] <= flowsMade' /\ (x[1] \in Standing' => x[1] \in Standing)
          BY <1>7, <2>1, <2>5, <3>2
        <5>2. x[1] \in Standing => x[2] <= flowRows[x[1]].version
          BY <3>1 DEF LoneFlowInv
        <5> QED BY <2>4, <4>1, <5>1, <5>2
      <4>3. ASSUME NEW x \in flowsDrawn', x[1] = f, x[2] = 1
            PROVE  x[1] <= flowsMade' /\ (x[1] \in Standing' => x[2] <= flowRows'[x[1]].version)
        BY <1>7, <2>1, <2>2, <2>4, <4>3
      <4> QED BY <3>3, <4>2, <4>3
    <3>6. Standing' \subseteq 1..flowsMade'
      <4>1. Standing \subseteq 1..flowsMade
        BY <3>1 DEF LoneFlowInv
      <4> QED BY <1>7, <2>1, <2>5, <4>1
    <3>7. \A g \in Standing : g # f /\ g \in Flows /\ flowRows'[g] = flowRows[g]
                             /\ flowRows[g].name # name
      BY <2>1, <2>4, <3>1 DEF LoneFlowInv, Standing, NameInUse
    <3>8. \A g \in Standing' : <<g, flowRows'[g].version, flowRows'[g].graph>> \in flowsDrawn'
      <4>1. \A g \in Standing : <<g, flowRows[g].version, flowRows[g].graph>> \in flowsDrawn
        BY <3>1 DEF LoneFlowInv
      <4>2. \A g \in Standing : <<g, flowRows'[g].version, flowRows'[g].graph>> \in flowsDrawn'
        BY <1>7, <3>7, <4>1
      <4>3. <<f, flowRows'[f].version, flowRows'[f].graph>> \in flowsDrawn'
        BY <1>7, <2>2, <2>4
      <4> QED BY <2>5, <4>2, <4>3
    <3>9. \A g, h \in Standing' :
             g # h /\ flowRows'[g].name = flowRows'[h].name => {g, h} \cap flowsRenamed' # {}
      <4>1. \A g, h \in Standing :
               g # h /\ flowRows[g].name = flowRows[h].name => {g, h} \cap flowsRenamed # {}
        BY <3>1 DEF LoneFlowInv
      <4> QED BY <1>1, <2>2, <2>4, <2>5, <3>7, <4>1
    <3>10. LoneFlowInv'
      BY <1>1, <1>5, <2>8, <3>1, <3>4, <3>5, <3>6, <3>8, <3>9 DEF LoneFlowInv
    <3>11. \A g \in Standing' :
              g <= flowsMade => g \in Standing /\ flowRows[g].version <= flowRows'[g].version
      <4>1. \A g \in Standing : flowRows[g].version \in Nat
        BY <1>1, <3>7 DEF WorkflowTypes, FlowRow
      <4> QED BY <2>1, <2>5, <3>7, <4>1
    <3>12. RanInv'
      <4>1. flowsDrawn \subseteq flowsDrawn' /\ flowsMade <= flowsMade'
        BY <1>7, <2>1
      <4> QED BY <1>1, <2>7, <3>1, <3>11, <4>1, RanStay
    <3> QED BY <3>10, <3>12
  <2> QED BY <1>3, <2>7, <2>8 DEF WorkflowInv
<1> QED BY <1>6, <1>7 DEF CreateFlow

\* A workflow is gone; its runs are not.
LEMMA DeleteFlowStep ==
  ASSUME WorkflowInv, NEW d \in Designers, DeleteFlow(d)
  PROVE  WorkflowInv'
<1> DEFINE f == flowReq[d].flow
<1>1. /\ WorkflowTypes /\ RunsInv /\ flowReq[d].pc = "delete" /\ ReleaseFlow(d)
      /\ flowRows' = [flowRows EXCEPT ![f] = NoFlow]
      /\ UNCHANGED <<flowsMade, flowRuns, flowTasks, flowsDrawn, flowsRenamed, flowOps,
                     flowFaults, flowAlone>>
  BY DEF DeleteFlow, WorkflowInv, FlowCounts, flowHistory
<1>2. /\ RequestTypes' /\ flowReq'[d] = NoFlowReq
      /\ flowReq'[d].pc = "idle"
      /\ \A e \in Designers : e # d => flowReq'[e] = flowReq[e]
  BY <1>1, ReleaseFlowStep DEF WorkflowTypes
<1>3. RunsInv'
  BY <1>1, RunsStay
<1>4. f \in Flows /\ NoFlow \in FlowRow
  BY <1>1 DEF WorkflowTypes, RequestTypes, NoFlow, FlowRow
<1>5. /\ flowRows' \in [Flows -> FlowRow] /\ flowRows'[f] = NoFlow
      /\ \A g \in Flows : g # f => flowRows'[g] = flowRows[g]
  BY <1>1, <1>4 DEF WorkflowTypes
<1>6. Standing' \subseteq Standing /\ \A g \in Standing' : flowRows'[g] = flowRows[g]
  BY <1>5 DEF Standing
<1>7. WorkflowTypes'
  BY <1>1, <1>2, <1>5, <1>6 DEF WorkflowTypes
<1>8. ASSUME flowAlone' PROVE LoneFlowInv' /\ RanInv'
  <2>1. LoneFlowInv /\ RanInv /\ flowReq[d] # NoFlowReq
    BY <1>1, <1>8 DEF WorkflowInv, NoFlowReq
  <2>2. \A e \in Designers : flowReq'[e] = NoFlowReq /\ flowReq'[e].pc = "idle"
    BY <1>2, <2>1 DEF LoneFlowInv
  <2>3. LoneFlowInv'
    <3>1. /\ \A g \in Standing' : g \in Standing /\ flowRows'[g] = flowRows[g]
          /\ \A g \in Standing' : <<g, flowRows'[g].version, flowRows'[g].graph>> \in flowsDrawn
      BY <1>6, <2>1 DEF LoneFlowInv
    <3>2. /\ \A g, h \in Standing' :
                g # h /\ flowRows'[g].name = flowRows'[h].name => {g, h} \cap flowsRenamed # {}
          /\ Standing' \subseteq 1..flowsMade
      <4>1. /\ \A g, h \in Standing :
                  g # h /\ flowRows[g].name = flowRows[h].name => {g, h} \cap flowsRenamed # {}
            /\ Standing \subseteq 1..flowsMade
        BY <2>1 DEF LoneFlowInv
      <4> HIDE DEF f
      <4> QED BY <3>1, <4>1
    <3>3. /\ \A x, y \in flowsDrawn : x[1] = y[1] /\ x[2] = y[2] => x[3] = y[3]
          /\ \A x \in flowsDrawn :
                x[1] <= flowsMade /\ (x[1] \in Standing => x[2] <= flowRows[x[1]].version)
      BY <2>1 DEF LoneFlowInv
    <3>4. \A x \in flowsDrawn :
             x[1] <= flowsMade /\ (x[1] \in Standing' => x[2] <= flowRows'[x[1]].version)
      BY <3>1, <3>3
    <3> QED BY <1>1, <2>2, <3>1, <3>2, <3>3, <3>4 DEF LoneFlowInv
  <2>4. RanInv'
    BY <1>1, <1>6, <2>1 DEF RanInv, SavedFor
  <2> QED BY <2>3, <2>4
<1> QED BY <1>3, <1>7, <1>8 DEF WorkflowInv

\* A run is committed, with a task that has not begun.
LEMMA StartRunStep ==
  ASSUME WorkflowInv, NEW d \in Designers, StartRun(d)
  PROVE  WorkflowInv'
<1> DEFINE me == flowReq[d]
           N == Len(flowRuns)
           run == [flow |-> me.flow, version |-> me.row.version, drawn |-> me.row.graph,
                   status |-> "running", states |-> <<>>, texts |-> <<>>, output |-> 0]
           task == [NoTask EXCEPT !.pc = "made"]
<1>1. /\ WorkflowTypes /\ RunsInv /\ me.pc = "start" /\ N < MaxFlowRuns /\ ReleaseFlow(d)
      /\ flowRuns' = Append(flowRuns, run) /\ flowTasks' = [flowTasks EXCEPT ![N + 1] = task]
      /\ UNCHANGED <<flowRows, flowsMade, flowsDrawn, flowsRenamed, flowOps, flowFaults, flowAlone>>
  BY DEF StartRun, WorkflowInv, FlowCounts, flowHistory
<1>2. /\ RequestTypes' /\ flowReq'[d] = NoFlowReq
      /\ flowReq'[d].pc = "idle"
      /\ \A e \in Designers : e # d => flowReq'[e] = flowReq[e]
  BY <1>1, ReleaseFlowStep DEF WorkflowTypes
<1>3. Standing' = Standing
  BY <1>1 DEF Standing
<1>4. /\ run \in FlowRun /\ run.status = "running" /\ run.states = <<>>
      /\ run.flow = me.flow /\ run.version = me.row.version
  <2>1. me.flow \in Flows /\ me.row.graph \in Savable /\ me.row.version \in Nat
    BY <1>1 DEF WorkflowTypes, RequestTypes, FlowRequest, FlowRow
  <2> DEFINE S == {<<>>} \cup UNION {[NodesOf(g) -> NodeStates] : g \in Savable}
             X == {<<>>} \cup UNION {[NodesOf(g) -> Nat] : g \in Savable}
  <2>2. FlowRun = [flow : Flows, version : Nat, drawn : Savable,
                   status : {"running", "done", "failed"}, states : S, texts : X, output : Nat]
    BY DEF FlowRun
  <2>3. <<>> \in S /\ <<>> \in X
    OBVIOUS
  <2> HIDE DEF S, X, me
  <2> QED BY <2>1, <2>2, <2>3
<1>5. task \in FlowTask /\ task.pc = "made" /\ task.graph = NoGraph
  <2>1. NoTask \in FlowTask /\ NoTask.graph = NoGraph
    BY DEF NoTask, FlowTask
  <2> QED BY <2>1 DEF FlowTask
<1> HIDE DEF run, task
<1>6. /\ N \in Nat /\ DOMAIN flowRuns = 1..N /\ MaxFlowRuns \in Nat /\ N + 1 \in 1..MaxFlowRuns
      /\ flowRuns' \in Seq(FlowRun) /\ Len(flowRuns') = N + 1 /\ DOMAIN flowRuns' = 1..(N + 1)
      /\ flowRuns'[N + 1] = run /\ \A s \in 1..N : flowRuns'[s] = flowRuns[s]
  <2>1. flowRuns \in Seq(FlowRun) /\ Len(flowRuns) <= MaxFlowRuns
    BY <1>1 DEF WorkflowTypes
  <2> QED BY <1>1, <1>4, <2>1, FlowBounds
<1>7. /\ flowTasks' \in [1..MaxFlowRuns -> FlowTask] /\ flowTasks'[N + 1] = task
      /\ \A s \in 1..N : flowTasks'[s] = flowTasks[s]
  BY <1>1, <1>5, <1>6 DEF WorkflowTypes
<1>8. WorkflowTypes'
  BY <1>1, <1>2, <1>3, <1>6, <1>7 DEF WorkflowTypes
<1>9. RunsInv'
  <2>1. RunInv(run, task)
    BY <1>4, <1>5 DEF RunInv
  <2>2. \A s \in DOMAIN flowRuns' : s = N + 1 \/ s \in 1..N
    BY <1>6
  <2>3. ASSUME NEW s \in DOMAIN flowRuns' PROVE RunInv(flowRuns'[s], flowTasks'[s])
    BY <1>1, <1>6, <1>7, <2>1, <2>2 DEF RunsInv
  <2>4. RunningHasTask'
    BY <1>1, <1>5, <1>6, <1>7, <2>2 DEF RunsInv, RunningHasTask
  <2> QED BY <2>3, <2>4 DEF RunsInv
<1>10. ASSUME flowAlone' PROVE LoneFlowInv' /\ RanInv'
  <2>1. LoneFlowInv /\ RanInv /\ flowReq[d] # NoFlowReq
    BY <1>1, <1>10 DEF WorkflowInv, NoFlowReq
  <2>2. \A e \in Designers : flowReq'[e] = NoFlowReq /\ flowReq'[e].pc = "idle"
    BY <1>2, <2>1 DEF LoneFlowInv
  <2>3. LoneFlowInv'
    BY <1>1, <1>3, <2>1, <2>2 DEF LoneFlowInv
  <2>4. /\ run.flow \in Standing /\ run.flow <= flowsMade
        /\ run.version <= flowRows[run.flow].version
    <3>1. me.flow \in Standing /\ me.row = flowRows[me.flow]
      BY <1>1, <2>1 DEF LoneFlowInv
    <3>2. me.row.version \in Nat /\ me.flow \in 1..flowsMade
      BY <1>1, <2>1, <3>1 DEF WorkflowTypes, RequestTypes, FlowRequest, FlowRow, LoneFlowInv
    <3> QED BY <1>4, <3>1, <3>2
  <2>5. \A s \in DOMAIN flowRuns' : s = N + 1 \/ s \in 1..N
    BY <1>6
  <2>6. RanInv'
    BY <1>1, <1>3, <1>5, <1>6, <1>7, <2>1, <2>4, <2>5 DEF RanInv, SavedFor
  <2> QED BY <2>3, <2>6
<1> QED BY <1>8, <1>9, <1>10 DEF WorkflowInv

\* A flush writes a row of the same kind, with the graph of one of the two; one that nobody
\* came between writes what the request has made.
LEMMA FlushedFlow ==
  ASSUME NEW now \in FlowRow, NEW read \in FlowRow, NEW new \in FlowRow
  PROVE  LET row == Flushed(now, read, new) IN
         /\ row \in FlowRow /\ row.graph \in {now.graph, new.graph}
         /\ now = read => row = new
<1>1. /\ DOMAIN now = {"graph", "version", "name", "enabled"} /\ DOMAIN new = DOMAIN now
      /\ now = [column \in DOMAIN now |-> now[column]]
      /\ new = [column \in DOMAIN now |-> new[column]]
  BY DEF FlowRow
<1> DEFINE row == Flushed(now, read, new)
<1>2. /\ row.graph \in {now.graph, new.graph} /\ row.version \in {now.version, new.version}
      /\ row.enabled \in {now.enabled, new.enabled} /\ row.name \in {now.name, new.name}
      /\ row = [graph |-> row.graph, version |-> row.version, name |-> row.name,
                enabled |-> row.enabled]
  BY <1>1 DEF Flushed
<1>3. now = read => row = new
  BY <1>1 DEF Flushed
<1>4. row \in FlowRow
  <2> HIDE DEF row
  <2> QED BY <1>2 DEF FlowRow
<1> QED BY <1>2, <1>3, <1>4

\* A workflow is saved, renamed, enabled or disabled, or the request is refused.
LEMMA SaveFlowStep ==
  ASSUME WorkflowInv, NEW d \in Designers, SaveFlow(d)
  PROVE  WorkflowInv'
<1> DEFINE me == flowReq[d]
           f == me.flow
           read == me.row
<1>1. /\ WorkflowTypes /\ RunsInv /\ me.pc = "save" /\ ReleaseFlow(d)
      /\ UNCHANGED <<flowsMade, flowRuns, flowTasks, flowOps, flowFaults, flowAlone>>
  BY DEF SaveFlow, WorkflowInv, FlowCounts
<1>2. /\ RequestTypes' /\ flowReq'[d] = NoFlowReq
      /\ flowReq'[d].pc = "idle"
      /\ \A e \in Designers : e # d => flowReq'[e] = flowReq[e]
  BY <1>1, ReleaseFlowStep DEF WorkflowTypes
<1>3. RunsInv'
  BY <1>1, RunsStay
<1>4. f \in Flows /\ read \in FlowRow /\ read.graph \in Savable /\ flowRows[f] \in FlowRow
  BY <1>1 DEF WorkflowTypes, RequestTypes, FlowRequest
<1>5. flowAlone =>
         LoneFlowInv /\ RanInv /\ f \in Standing /\ read = flowRows[f]
         /\ \A e \in Designers : flowReq'[e] = NoFlowReq /\ flowReq'[e].pc = "idle"
  <2>1. me # NoFlowReq
    BY <1>1 DEF NoFlowReq
  <2> QED BY <1>1, <1>2, <2>1 DEF WorkflowInv, LoneFlowInv
<1>6. CASE UNCHANGED <<flowRows, flowsDrawn, flowsRenamed>>
  <2>1. Standing' = Standing
    BY <1>6 DEF Standing
  <2>2. WorkflowTypes'
    BY <1>1, <1>2, <1>6, <2>1 DEF WorkflowTypes
  <2>3. flowAlone' => LoneFlowInv' /\ RanInv'
    BY <1>1, <1>5, <1>6, <2>1 DEF LoneFlowInv, RanInv, SavedFor
  <2> QED BY <1>3, <2>2, <2>3 DEF WorkflowInv
<1>7. ASSUME NEW new \in FlowRow, new.graph \in Savable, f \in Standing,
             flowRows' = [flowRows EXCEPT ![f] = Flushed(flowRows[f], read, new)],
             \/ /\ UNCHANGED flowsDrawn /\ new.version = read.version
                /\ new.graph = read.graph
             \/ /\ new.version = read.version + 1
                /\ flowsDrawn' = flowsDrawn \cup {<<f, new.version, new.graph>>},
             flowsRenamed' = IF new.name = read.name THEN flowsRenamed
                             ELSE flowsRenamed \cup {f}
      PROVE  WorkflowInv'
  <2> DEFINE row == Flushed(flowRows[f], read, new)
  <2>1. row \in FlowRow /\ row.graph \in Savable /\ (flowAlone => row = new)
    <3>1. flowRows[f].graph \in Savable
      BY <1>1, <1>7 DEF WorkflowTypes
    <3> QED BY <1>4, <1>5, <1>7, <3>1, FlushedFlow
  <2> HIDE DEF row
  <2>2. /\ flowRows' \in [Flows -> FlowRow] /\ flowRows'[f] = row
        /\ \A g \in Flows : g # f => flowRows'[g] = flowRows[g]
    <3>1. flowRows \in [Flows -> FlowRow] /\ flowRows' = [flowRows EXCEPT ![f] = row]
      BY <1>1, <1>7 DEF WorkflowTypes, row
    <3> HIDE DEF me, f, read
    <3> QED BY <1>4, <2>1, <3>1
  <2>3. row # NoFlow
    <3>1. row.graph # NoGraph
      BY <2>1, SavableGraph
    <3>2. NoFlow.graph = NoGraph
      BY DEF NoFlow
    <3> QED BY <3>1, <3>2
  <2>4. Standing' = Standing
    BY <1>4, <1>7, <2>2, <2>3 DEF Standing
  <2>5. read.version \in Nat
    BY <1>4 DEF FlowRow
  <2>6. \A x \in flowsDrawn' : x \in flowsDrawn
           \/ (x = <<f, new.version, new.graph>> /\ new.version = read.version + 1)
    BY <1>7
  <2>7. flowsDrawn' \subseteq Flows \X Nat \X Savable
    <3>1. <<f, new.version, new.graph>> \in Flows \X Nat \X Savable
      BY <1>4, <1>7 DEF FlowRow
    <3> QED BY <1>1, <2>6, <3>1 DEF WorkflowTypes
  <2>8. WorkflowTypes'
    <3>1. \A g \in Standing' : flowRows'[g].graph \in Savable
      <4>1. \A g \in Standing : g \in Flows /\ flowRows[g].graph \in Savable
        BY <1>1 DEF WorkflowTypes, Standing
      <4> QED BY <2>1, <2>2, <2>4, <4>1
    <3>2. flowsRenamed' \subseteq Flows
      BY <1>1, <1>4, <1>7 DEF WorkflowTypes
    <3> HIDE DEF me, f, read
    <3> QED BY <1>1, <1>2, <2>2, <2>7, <3>1, <3>2 DEF WorkflowTypes
  <2>9. ASSUME flowAlone' PROVE LoneFlowInv' /\ RanInv'
    <3>1. LoneFlowInv /\ RanInv /\ flowAlone /\ read = flowRows[f] /\ row = new
      BY <1>1, <1>5, <2>1, <2>9
    <3>2. f \in 1..flowsMade
      BY <1>7, <3>1 DEF LoneFlowInv
    <3>3. \A x \in flowsDrawn :
             /\ x[1] \in Nat /\ x[2] \in Nat /\ x[1] <= flowsMade
             /\ x[1] = f => x[2] <= read.version
             /\ x[1] \in Standing => x[2] <= flowRows[x[1]].version
      <4>1. \A x \in flowsDrawn : x[1] \in Nat /\ x[2] \in Nat
        BY <1>1 DEF WorkflowTypes, Flows
      <4> QED BY <1>7, <3>1, <4>1 DEF LoneFlowInv
    <3>4. \A x, y \in flowsDrawn' : x[1] = y[1] /\ x[2] = y[2] => x[3] = y[3]
      <4>1. SUFFICES ASSUME NEW x \in flowsDrawn', NEW y \in flowsDrawn',
                            x[1] = y[1], x[2] = y[2]
                     PROVE  x[3] = y[3]
        OBVIOUS
      <4> DEFINE drawn == <<f, new.version, new.graph>>
      <4>2. drawn[1] = f /\ drawn[2] = new.version
        OBVIOUS
      <4> HIDE DEF drawn
      <4>3. \A z \in flowsDrawn' :
               z \in flowsDrawn \/ (z = drawn /\ new.version = read.version + 1)
        BY <2>6 DEF drawn
      <4>4. CASE x \in flowsDrawn /\ y \in flowsDrawn
        BY <3>1, <4>1, <4>4 DEF LoneFlowInv
      <4>5. CASE x \in flowsDrawn /\ y = drawn /\ new.version = read.version + 1
        BY <2>5, <3>3, <4>1, <4>2, <4>5
      <4>6. CASE y \in flowsDrawn /\ x = drawn /\ new.version = read.version + 1
        BY <2>5, <3>3, <4>1, <4>2, <4>6
      <4> QED BY <4>1, <4>3, <4>4, <4>5, <4>6
    <3>5. ASSUME NEW x \in flowsDrawn'
          PROVE  x[1] <= flowsMade' /\ (x[1] \in Standing' => x[2] <= flowRows'[x[1]].version)
      <4>1. CASE x \in flowsDrawn
        <5>1. CASE x[1] = f
          <6>1. x[2] <= read.version /\ x[2] \in Nat /\ x[1] <= flowsMade
            BY <3>3, <4>1, <5>1
          <6>2. flowRows'[x[1]].version \in {read.version, read.version + 1}
            BY <1>7, <2>2, <3>1, <5>1
          <6> QED BY <1>1, <2>5, <6>1, <6>2
        <5>2. CASE x[1] # f
          <6>1. Standing \subseteq Flows
            BY DEF Standing
          <6> QED BY <1>1, <2>2, <2>4, <3>3, <4>1, <5>2, <6>1
        <5> QED BY <5>1, <5>2
      <4>2. CASE x = <<f, new.version, new.graph>> /\ new.version = read.version + 1
        BY <1>1, <2>2, <2>5, <3>1, <3>2, <4>2
      <4> QED BY <2>6, <4>1, <4>2
    <3>6. \A g \in Standing : g \in Flows /\ (g # f => flowRows'[g] = flowRows[g])
      BY <2>2 DEF Standing
    <3>7. \A g \in Standing' : <<g, flowRows'[g].version, flowRows'[g].graph>> \in flowsDrawn'
      <4>1. \A g \in Standing : <<g, flowRows[g].version, flowRows[g].graph>> \in flowsDrawn
        BY <3>1 DEF LoneFlowInv
      <4>2. <<f, new.version, new.graph>> \in flowsDrawn' /\ flowsDrawn \subseteq flowsDrawn'
        BY <1>7, <3>1, <4>1
      <4> QED BY <2>2, <2>4, <3>1, <3>6, <4>1, <4>2
    <3>8. \A g, h \in Standing' :
             g # h /\ flowRows'[g].name = flowRows'[h].name => {g, h} \cap flowsRenamed' # {}
      BY <1>7, <2>2, <2>4, <3>1, <3>6 DEF LoneFlowInv
    <3>9. LoneFlowInv'
      BY <1>1, <1>5, <2>4, <2>9, <3>1, <3>4, <3>5, <3>7, <3>8 DEF LoneFlowInv
    <3>10. RanInv'
      <4>1. flowsDrawn \subseteq flowsDrawn' /\ flowsMade <= flowsMade' /\ flowsMade' = flowsMade
        BY <1>1, <1>7 DEF WorkflowTypes
      <4>2. ASSUME NEW g \in Standing' PROVE flowRows[g].version <= flowRows'[g].version
        <5>1. flowRows[g].version \in Nat
          BY <1>1, <2>4, <3>6 DEF WorkflowTypes, FlowRow
        <5> QED BY <1>7, <2>2, <2>4, <2>5, <3>1, <3>6, <5>1
      <4> HIDE DEF me, f, read
      <4> QED BY <1>1, <2>4, <2>8, <3>1, <4>1, <4>2, RanStay
    <3> QED BY <3>9, <3>10
  <2> QED BY <1>3, <2>8, <2>9 DEF WorkflowInv
<1>8. ASSUME f \in Standing, NEW new \in Updated(read),
             flowRows' = [flowRows EXCEPT ![f] = Flushed(@, read, new)],
             flowsDrawn' = IF new.version = read.version THEN flowsDrawn
                           ELSE flowsDrawn \cup {<<f, new.version, new.graph>>},
             flowsRenamed' = IF new.name = read.name THEN flowsRenamed
                             ELSE flowsRenamed \cup {f}
      PROVE  WorkflowInv'
  <2>1. /\ new \in FlowRow /\ new.graph \in Savable
        /\ \/ new.version = read.version /\ new.graph = read.graph
           \/ new.version = read.version + 1 /\ new.version # read.version
    <3> HIDE DEF me, f, read
    <3>1. read.version \in Nat /\ NextVersion(read.version) = read.version + 1
      BY <1>4 DEF FlowRow, NextVersion
    <3>2. /\ new \in [graph : Savable, version : {read.version, read.version + 1},
                      name : FlowNames, enabled : BOOLEAN]
          /\ new.version = read.version => new.graph = read.graph
      BY <1>8, <3>1 DEF Updated
    <3> DEFINE G == Savable \cup {NoGraph}
               M == FlowNames \cup {""}
               V == {read.version, read.version + 1}
    <3>3. Savable \subseteq G /\ FlowNames \subseteq M /\ V \subseteq Nat
      <4>1. Savable \subseteq G /\ FlowNames \subseteq M
        BY Zenon
      <4>2. V \subseteq Nat
        BY <3>1
      <4> QED BY <4>1, <4>2
    <3>4. FlowRow = [graph : G, version : Nat, name : M, enabled : BOOLEAN]
      BY DEF FlowRow
    <3>5. new \in [graph : Savable, version : V, name : FlowNames, enabled : BOOLEAN]
      BY <3>2
    <3> HIDE DEF G, M, V
    <3>6. new \in FlowRow
      BY <3>3, <3>4, <3>5
    <3> QED BY <3>1, <3>2, <3>6
  <2>2. flowRows' = [flowRows EXCEPT ![f] = Flushed(flowRows[f], read, new)]
    BY <1>8
  <2> HIDE DEF me, f, read
  <2> QED BY <1>7, <1>8, <2>1, <2>2
<1> QED BY <1>6, <1>8 DEF SaveFlow, flowHistory

\* Every step keeps the invariant.
LEMMA FlowsStep == WorkflowInv /\ [FlowsNext]_workflowVars => WorkflowInv'
<1> SUFFICES ASSUME WorkflowInv, [FlowsNext]_workflowVars PROVE WorkflowInv'
  OBVIOUS
<1>1. ASSUME NEW d \in Designers,
             BeginFlow(d) \/ CreateFlow(d) \/ SaveFlow(d) \/ DeleteFlow(d) \/ StartRun(d)
      PROVE  WorkflowInv'
  BY <1>1, BeginFlowStep, CreateFlowStep, SaveFlowStep, DeleteFlowStep, StartRunStep
<1>2. ASSUME NEW r \in DOMAIN flowRuns,
             LoadRun(r) \/ SkipNode(r) \/ ExecuteNode(r) \/ FailNode(r) \/ EndRun(r)
      PROVE  WorkflowInv'
  BY <1>2, LoadRunStep, SkipNodeStep, ExecuteNodeStep, FailNodeStep, EndRunStep
<1>3. CASE UNCHANGED workflowVars
  <2>1. UNCHANGED <<flowRows, flowsMade, flowRuns, flowTasks, flowReq, flowsDrawn, flowsRenamed,
                    flowOps, flowFaults, flowAlone>>
    BY <1>3 DEF workflowVars
  <2>2. Standing' = Standing
    BY <2>1 DEF Standing
  <2>3. WorkflowTypes' /\ RunsInv'
    BY <2>1, <2>2, RunsStay DEF WorkflowInv, WorkflowTypes, RequestTypes
  <2>4. flowAlone' => LoneFlowInv' /\ RanInv'
    BY <2>1, <2>2 DEF WorkflowInv, LoneFlowInv, NameInUse, RanInv, SavedFor
  <2> QED BY <2>3, <2>4 DEF WorkflowInv
<1> QED BY <1>1, <1>2, <1>3, FlowRestartStep DEF FlowsNext

\* Executed nodes lead from the input to each of them.
LEMMA RunHasAPath ==
  ASSUME WorkflowInv, NEW r \in DOMAIN flowRuns, Executed(r)
  PROVE  LET graph == flowTasks[r].graph
             done == {n \in NodesOf(graph) : flowRuns[r].states[n] = "done"}
             Taken(e) == \/ graph.types[e.from] # "is_empty"
                         \/ e.branch = IF flowRuns[r].texts[e.from] = 0 THEN "true" ELSE "false"
             path == {e \in ToSet(graph.edges) : {e.from, e.to} \subseteq done /\ Taken(e)}
         IN /\ done \subseteq UNION {ReachableFrom(graph, path, n) : n \in InputsOf(graph)}
            /\ flowRuns[r].status = "done" <=> \E n \in done : graph.types[n] = "output"
<1> DEFINE run == flowRuns[r]
           task == flowTasks[r]
           graph == task.graph
           order == TopoOrder(graph)
           done == {n \in NodesOf(graph) : run.states[n] = "done"}
           Taken(e) == \/ graph.types[e.from] # "is_empty"
                       \/ e.branch = IF run.texts[e.from] = 0 THEN "true" ELSE "false"
           path == {e \in ToSet(graph.edges) : {e.from, e.to} \subseteq done /\ Taken(e)}
<1>1. RunInv(run, task) /\ task \in FlowTask /\ run.status # "running" /\ run.states # <<>>
  <2>1. WorkflowTypes /\ RunInv(run, task) /\ run.status # "running" /\ run.states # <<>>
    BY DEF WorkflowInv, RunsInv, Executed
  <2> QED BY <2>1, RunsAreRows
<1>2. Progress(run, task) /\ graph \in Savable
  BY <1>1 DEF RunInv, FlowTask
<1> HIDE DEF run, task
<1>3. /\ task.order = order
      /\ \A i \in DOMAIN order : run.states[order[i]] = "done" => order[i] \in InputsOf(graph)
            \/ \E j \in 1..(i - 1) : LeadsTo(run, graph, order[j], order[i])
  BY <1>2, Zenon DEF Progress
<1>4. run.status = "done" <=> \E n \in NodesOf(graph) : run.states[n] = "done"
                                                       /\ graph.types[n] = "output"
  BY <1>1, <1>2 DEF Progress
<1> HIDE DEF graph
<1>5. /\ Len(order) \in Nat /\ DOMAIN order = 1..Len(order)
      /\ \A i \in 1..Len(order) : order[i] \in NodesOf(graph)
  BY <1>2, SavableGraph
<1> HIDE DEF order
<1>6. ASSUME NEW i \in 1..Len(order), order[i] \in done
      PROVE  \/ order[i] \in InputsOf(graph)
             \/ \E j \in 1..(i - 1) : \E e \in path :
                   e.from = order[j] /\ order[j] \in done /\ e.to = order[i]
  <2>1. CASE order[i] \in InputsOf(graph)
    BY <2>1
  <2>2. ASSUME NEW j \in 1..(i - 1), LeadsTo(run, graph, order[j], order[i])
        PROVE  \E e \in path : e.from = order[j] /\ order[j] \in done /\ e.to = order[i]
    <3>1. order[j] \in done
      BY <1>5, <2>2 DEF LeadsTo
    <3>2. PICK e \in ToSet(graph.edges) :
             /\ e.from = order[j] /\ e.to = order[i]
             /\ \/ graph.types[e.from] # "is_empty"
                \/ e.branch = IF run.texts[e.from] = 0 THEN "true" ELSE "false"
      BY <2>2 DEF LeadsTo, LedBy
    <3>3. e \in path
      BY <1>6, <3>1, <3>2
    <3> QED BY <3>1, <3>2, <3>3
  <2> QED BY <1>3, <1>5, <1>6, <2>1, <2>2
<1> HIDE DEF path
<1>7. done \subseteq UNION {ReachableFrom(graph, path, n) : n \in InputsOf(graph)}
  <2>1. done \subseteq NodesOf(graph)
    OBVIOUS
  <2> HIDE DEF done
  <2>2. LedAlong(graph, done, path)
    BY <1>6, Zenon DEF LedAlong, order
  <2> QED BY <1>2, <2>1, <2>2, LedIsReached
<1> QED BY <1>4, <1>7, Zenon DEF run, task, graph, path

\* The invariant is strong enough.
LEMMA FlowsKeptBy == WorkflowInv => FlowsHold
<1> SUFFICES ASSUME WorkflowInv PROVE FlowsHold
  OBVIOUS
<1>1. EveryNodeSettles
  <2> SUFFICES ASSUME NEW r \in DOMAIN flowRuns, flowRuns[r].status # "running",
                      flowTasks[r].graph # NoGraph
               PROVE  /\ DOMAIN flowRuns[r].states = NodesOf(flowTasks[r].graph)
                      /\ "pending" \notin ToSet(flowRuns[r].states)
    BY DEF EveryNodeSettles
  <2> DEFINE run == flowRuns[r]
             task == flowTasks[r]
             graph == task.graph
             order == task.order
  <2>1. RunInv(run, task) /\ task \in FlowTask
    <3>1. WorkflowTypes /\ RunInv(run, task)
      BY DEF WorkflowInv, RunsInv
    <3> QED BY <3>1, RunsAreRows
  <2>2. Progress(run, task) /\ graph \in Savable
    BY <2>1 DEF RunInv, FlowTask
  <2>3. /\ order = TopoOrder(graph) /\ task.at = Len(order) + 1
        /\ run.states \in [NodesOf(graph) -> NodeStates]
        /\ \A i \in DOMAIN order : run.states[order[i]] = "pending" <=> i >= task.at
    BY <2>2 DEF Progress
  <2> HIDE DEF run, task, graph, order
  <2>4. /\ Len(order) \in Nat /\ DOMAIN order = 1..Len(order)
        /\ \A n \in NodesOf(graph) : \E i \in 1..Len(order) : order[i] = n
    BY <2>2, <2>3, SavableGraph
  <2>5. \A n \in NodesOf(graph) : run.states[n] # "pending"
    BY <2>3, <2>4
  <2>6. DOMAIN run.states = NodesOf(graph) /\ "pending" \notin ToSet(run.states)
    BY <2>3, <2>5 DEF ToSet
  <2> QED BY <2>6 DEF run, graph, task
<1>2. DoneHasAPath
  BY RunHasAPath, Zenon DEF DoneHasAPath
<1>3. RunningHasTask
  BY DEF WorkflowInv, RunsInv
<1>4. VersionsNameGraphs
  BY DEF WorkflowInv, VersionsNameGraphs, LoneFlowInv, RanInv, SavedFor, RunsWhatWasSaved
<1> QED BY <1>1, <1>2, <1>3, <1>4 DEF FlowsHold

\* For any graphs and any number of requests, runs and faults: a run that is over has settled
\* every node of its graph, and executed only what executed nodes lead to from the input,
\* each on the branch its condition took; unless the process ended, a run that is "running"
\* has a task at it; and as long as requests come one at a time, two workflows have one name
\* only if one of them was renamed, one version of a workflow is one graph, and a run executes
\* a graph that was saved for its workflow, under the version it names or a later one.
THEOREM WorkflowsKept == FlowsSpec => []FlowsHold
<1> QED BY FlowsStart, FlowsStep, FlowsKeptBy, PTL DEF FlowsSpec

-----------------------------------------------------------------------------
(* The text of a ticket.                                                   *)

Papers == [task : Pieces4Tickets \cup {Unwritten}, steps : Seq(Pieces4Tickets),
           safety : Seq(Pieces4Tickets), risks : Seq(Pieces4Tickets)]
TextLines ==
    [marker : {"none", "steps", "safety", "dangers"}, field : BOOLEAN, long : BOOLEAN,
     odd : BOOLEAN, names : SUBSET {"dispatch", "operator", "task"},
     words : SUBSET {"test", "hang", "earth", "risky", "blocked"}]
WordsOf(lines) == UNION {line.words : line \in lines}

LEMMA LinesAre ==
    ASSUME NEW pieces \in Seq(Pieces4Tickets), NEW marker \in {"steps", "safety", "dangers"}
    PROVE  /\ Lines(pieces, marker) \in Seq(TextLines)
           /\ \A line \in Range(Lines(pieces, marker)) :
                 line.marker = marker /\ pieces # <<>>
           /\ WordsOf(Range(Lines(pieces, marker)))
                 = UNION {pieces[i].words : i \in DOMAIN pieces}
<1> DEFINE lines == Lines(pieces, marker)
<1>1. DOMAIN lines = 1..Len(pieces) /\ DOMAIN pieces = 1..Len(pieces) /\ Len(pieces) \in Nat
  BY DEF Lines
<1>2. ASSUME NEW i \in DOMAIN pieces
      PROVE  /\ lines[i] = Line(marker, FALSE, pieces[i].names, pieces[i])
             /\ lines[i] \in TextLines /\ lines[i].marker = marker
             /\ lines[i].words = pieces[i].words
  <2>1. lines[i] = Line(marker, FALSE, pieces[i].names, pieces[i])
    BY DEF Lines
  <2>2. pieces[i] \in Pieces4Tickets
    BY <1>1
  <2>3. pieces[i].names \in SUBSET {"dispatch", "operator", "task"}
    BY <2>2, AuditAssumption
  <2>4. lines[i] \in TextLines
    BY <2>1, <2>2, <2>3, AuditAssumption DEF TextLines, Line
  <2>5. lines[i].marker = marker /\ lines[i].words = pieces[i].words
    BY <2>1 DEF Line
  <2> QED  BY <2>1, <2>4, <2>5
<1> HIDE DEF lines
<1>3. lines \in Seq(TextLines)
  <2>1. lines = [i \in 1..Len(pieces) |-> lines[i]]
    BY <1>1 DEF lines, Lines
  <2>2. \A i \in 1..Len(pieces) : lines[i] \in TextLines
    BY <1>1, <1>2
  <2> HIDE DEF TextLines
  <2>3. lines \in [1..Len(pieces) -> TextLines]
    BY <2>1, <2>2
  <2> QED  BY <1>1, <2>3
<1>4. \A line \in Range(lines) : line.marker = marker /\ pieces # <<>>
  <2> SUFFICES ASSUME NEW line \in Range(lines)
               PROVE  line.marker = marker /\ pieces # <<>>
    OBVIOUS
  <2>1. PICK i \in DOMAIN lines : line = lines[i]
    BY DEF Range
  <2>2. i \in 1..Len(pieces) /\ i \in DOMAIN pieces
    BY <1>1, <2>1
  <2>3. pieces # <<>>
    BY <2>2
  <2> QED  BY <1>2, <2>1, <2>2, <2>3
<1>5. WordsOf(Range(lines)) = UNION {pieces[i].words : i \in DOMAIN pieces}
  BY <1>1, <1>2 DEF Range, WordsOf
<1> QED  BY <1>3, <1>4, <1>5 DEF lines

\* The text has all that is written in the ticket and nothing else; but for the first, which
\* begins with the name of a field, its lines begin with the name of a part.
LEMMA TextIs ==
    ASSUME paper \in Papers
    PROVE  /\ TextOf(paper) \in Seq(TextLines)
           /\ \A line \in Range(TextOf(paper)) :
                 /\ line.field \/ line.marker # "none"
                 /\ line.marker = "dangers" => paper.risks # <<>>
           /\ WordsOf(Range(TextOf(paper))) = AllWritten4
<1> DEFINE steps == Lines(paper.steps, "steps")
           safety == Lines(paper.safety, "safety")
           dangers == Lines(paper.risks, "dangers")
           both == steps \o safety
           rest == both \o dangers
           named == IF paper.task = Unwritten /\ rest = <<>> THEN {} ELSE {"task"}
           first == Line("none", TRUE, paper.task.names \cup named, paper.task)
<1>1. /\ paper.task \in Pieces4Tickets \cup {Unwritten} /\ paper.steps \in Seq(Pieces4Tickets)
      /\ paper.safety \in Seq(Pieces4Tickets) /\ paper.risks \in Seq(Pieces4Tickets)
  BY DEF Papers
<1>2. /\ steps \in Seq(TextLines) /\ safety \in Seq(TextLines) /\ dangers \in Seq(TextLines)
      /\ \A line \in Range(steps) : line.marker = "steps"
      /\ \A line \in Range(safety) : line.marker = "safety"
      /\ \A line \in Range(dangers) : line.marker = "dangers" /\ paper.risks # <<>>
      /\ WordsOf(Range(steps)) = Written4("steps")
      /\ WordsOf(Range(safety)) = Written4("safety")
      /\ WordsOf(Range(dangers)) = Written4("risks")
  BY <1>1, LinesAre DEF Written4
<1>3. TextOf(paper) = <<first>> \o rest
  BY DEF TextOf
<1>4. first \in TextLines /\ first.field = TRUE /\ first.marker = "none"
      /\ first.words = paper.task.words
  <2>1. paper.task.names \cup named \in SUBSET {"dispatch", "operator", "task"}
    <3>1. paper.task.names \subseteq {"dispatch", "operator"}
      BY <1>1, AuditAssumption DEF Unwritten
    <3> HIDE DEF rest
    <3> QED  BY <3>1
  <2> HIDE DEF named
  <2>2. first \in TextLines
    <3>1. CASE paper.task \in Pieces4Tickets
      BY <2>1, <3>1, AuditAssumption DEF TextLines, Line
    <3>2. CASE paper.task = Unwritten
      <4>1. /\ paper.task.long = FALSE /\ paper.task.odd = FALSE /\ paper.task.words = {}
        BY <3>2 DEF Unwritten
      <4> QED  BY <2>1, <4>1 DEF TextLines, Line
    <3> QED  BY <1>1, <3>1, <3>2
  <2>3. first.field = TRUE /\ first.marker = "none" /\ first.words = paper.task.words
    BY DEF Line
  <2> QED  BY <2>2, <2>3
<1> HIDE DEF steps, safety, dangers, first, TextLines
<1>5. /\ both \in Seq(TextLines) /\ rest \in Seq(TextLines)
      /\ <<first>> \in Seq(TextLines) /\ <<first>> \o rest \in Seq(TextLines)
  BY <1>2, <1>4
<1>6. Range(both) = Range(steps) \cup Range(safety)
  BY <1>2, RangeConcatenation
<1> HIDE DEF both
<1>7. Range(rest) = Range(both) \cup Range(dangers)
  BY <1>2, <1>5, RangeConcatenation
<1>8. Range(<<first>> \o rest) = {first} \cup Range(rest)
  <2>1. Range(<<first>>) = {first}
    BY DEF Range
  <2> HIDE DEF rest
  <2>2. Range(<<first>> \o rest) = Range(<<first>>) \cup Range(rest)
    BY <1>5, RangeConcatenation, Zenon
  <2> QED  BY <2>1, <2>2
<1> HIDE DEF rest
<1>9. Range(TextOf(paper))
        = {first} \cup Range(steps) \cup Range(safety) \cup Range(dangers)
  BY <1>3, <1>6, <1>7, <1>8
<1>10. WordsOf(Range(TextOf(paper)))
        = first.words \cup WordsOf(Range(steps)) \cup WordsOf(Range(safety))
              \cup WordsOf(Range(dangers))
  BY <1>9 DEF WordsOf
<1>11. AllWritten4 = paper.task.words \cup Written4("steps") \cup Written4("safety")
                         \cup Written4("risks")
  BY DEF AllWritten4
<1>12. WordsOf(Range(TextOf(paper))) = AllWritten4
  BY <1>2, <1>4, <1>10, <1>11
<1>13. ASSUME NEW line \in Range(TextOf(paper))
       PROVE  (line.field \/ line.marker # "none")
              /\ (line.marker = "dangers" => paper.risks # <<>>)
  BY <1>2, <1>4, <1>9
<1> QED  BY <1>3, <1>5, <1>12, <1>13

\* What stands under a heading is a line that begins with the name of a part and is too long to
\* be a heading itself; under one of the risks there is something only if there are risks.
LEMMA UnderIs ==
    ASSUME paper \in Papers, NEW part \in {"steps", "safety", "dangers"}
    PROVE  /\ \A i \in Under(TextOf(paper), part) :
                 /\ TextOf(paper)[i].long = TRUE
                 /\ TextOf(paper)[i].words \subseteq AllWritten4
           /\ part = "dangers" /\ paper.risks = <<>> => Under(TextOf(paper), part) = {}
<1> DEFINE text == TextOf(paper)
           heads == {i \in DOMAIN text : IsHeading(text[i])}
<1>1. /\ text \in Seq(TextLines)
      /\ \A line \in Range(text) : /\ line.field \/ line.marker # "none"
                                   /\ line.marker = "dangers" => paper.risks # <<>>
      /\ WordsOf(Range(text)) = AllWritten4
  BY TextIs
<1> HIDE DEF text
<1>2. ASSUME NEW i \in DOMAIN text
      PROVE  text[i] \in Range(text) /\ text[i].long \in BOOLEAN
             /\ text[i].words \subseteq AllWritten4
  <2>1. text[i] \in Range(text)
    BY DEF Range
  <2>2. text[i] \in TextLines
    BY <1>1
  <2>3. text[i].long \in BOOLEAN
    BY <2>2 DEF TextLines
  <2> QED  BY <1>1, <2>1, <2>3 DEF WordsOf
<1>3. ASSUME NEW i \in Under(text, part)
      PROVE  /\ text[i].long = TRUE /\ text[i].words \subseteq AllWritten4
             /\ \E h \in heads : text[h].marker = part
  <2>1. /\ i \in DOMAIN text \ heads /\ ~text[i].field
        /\ \E h \in heads : text[h].marker = part
    BY DEF Under
  <2>2. text[i].marker # "none"
    BY <1>1, <1>2, <2>1
  <2>3. text[i].long = TRUE
    BY <1>2, <2>1, <2>2 DEF IsHeading
  <2> QED  BY <1>2, <2>1, <2>3
<1>4. ASSUME part = "dangers", paper.risks = <<>>, NEW i \in Under(text, part)
      PROVE  FALSE
  <2>1. PICK h \in heads : text[h].marker = "dangers"
    BY <1>3, <1>4
  <2> QED  BY <1>1, <1>2, <1>4, <2>1
<1> QED  BY <1>3, <1>4 DEF text

-----------------------------------------------------------------------------
(* The findings and the score.                                             *)

Tallies == [critical : Nat, major : Nat, minor : Nat]

\* The rules count; two names that are missing are two findings, and a word that is forbidden,
\* or a risk that nothing is said about, is one.
LEMMA RulesCount ==
    ASSUME NEW p
    PROVE  /\ RuleFindings(p) \in Tallies
           /\ "blocked" \in p.words => RuleFindings(p).major >= 1
           /\ p.words \cap {"hang", "earth", "risky"} # {} /\ p.parts.dangers = {}
                 => RuleFindings(p).major >= 1
           /\ p.names \cap {"dispatch", "operator"} = {} => RuleFindings(p).major >= 2
<1> DEFINE hasty == {w \in {"hang", "earth"} : OutOfOrder(p, w, "test")}
           gone == {"dispatch", "operator"} \ p.names
           unsaid == IF p.words \cap {"hang", "earth", "risky"} # {} /\ p.parts.dangers = {}
                     THEN 1 ELSE 0
           blocked == IF "blocked" \in p.words THEN 1 ELSE 0
           untitled == IF "task" \in p.names THEN 0 ELSE 1
           odd == IF p.odd THEN 1 ELSE 0
<1>1. IsFiniteSet({"hang", "earth"}) /\ IsFiniteSet({"dispatch", "operator"})
  <2>1. IsFiniteSet({"hang"}) /\ IsFiniteSet({"dispatch"})
    BY FS_Singleton
  <2>2. IsFiniteSet({"hang"} \cup {"earth"}) /\ IsFiniteSet({"dispatch"} \cup {"operator"})
    BY <2>1, FS_AddElement
  <2>3. /\ {"hang"} \cup {"earth"} = {"hang", "earth"}
        /\ {"dispatch"} \cup {"operator"} = {"dispatch", "operator"}
    OBVIOUS
  <2> QED  BY <2>2, <2>3
<1>2. IsFiniteSet(hasty) /\ IsFiniteSet(gone)
  <2>1. hasty \subseteq {"hang", "earth"} /\ gone \subseteq {"dispatch", "operator"}
    OBVIOUS
  <2> QED  BY <1>1, <2>1, FS_Subset
<1>3. Cardinality(hasty) \in Nat /\ Cardinality(gone) \in Nat
  BY <1>2, FS_CardinalityType
<1>4. /\ unsaid \in Nat /\ blocked \in Nat /\ untitled \in Nat /\ odd \in Nat
      /\ "blocked" \in p.words => blocked = 1
      /\ p.words \cap {"hang", "earth", "risky"} # {} /\ p.parts.dangers = {} => unsaid = 1
  OBVIOUS
<1>5. p.names \cap {"dispatch", "operator"} = {} => Cardinality(gone) = 2
  <2> SUFFICES ASSUME p.names \cap {"dispatch", "operator"} = {}
               PROVE  Cardinality(gone) = 2
    OBVIOUS
  <2>1. gone = {"dispatch"} \cup {"operator"}
    OBVIOUS
  <2>2. Cardinality({"dispatch"}) = 1 /\ IsFiniteSet({"dispatch"})
    BY FS_Singleton
  <2>3. "operator" \notin {"dispatch"}
    OBVIOUS
  <2>4. Cardinality({"dispatch"} \cup {"operator"}) = Cardinality({"dispatch"}) + 1
    BY <2>2, <2>3, FS_AddElement
  <2> QED  BY <2>1, <2>2, <2>4
<1>6. RuleFindings(p) = [critical |-> Cardinality(hasty) + untitled,
                         major |-> Cardinality(gone) + unsaid + blocked, minor |-> odd]
  BY DEF RuleFindings
<1> HIDE DEF hasty, gone, unsaid, blocked, untitled, odd
<1>7. /\ RuleFindings(p).major = Cardinality(gone) + unsaid + blocked
      /\ RuleFindings(p) \in Tallies
  BY <1>3, <1>4, <1>6 DEF Tallies
<1> QED  BY <1>3, <1>4, <1>5, <1>7

\* A score is high only without anything critical and with next to nothing major.
LEMMA ScoresFall ==
    ASSUME NEW f \in Tallies
    PROVE  /\ ScoreOf(f) \in 0..100
           /\ f.major >= 1 => ScoreOf(f) <= 85
           /\ ScoreOf(f) >= 85 => /\ f.critical = 0 /\ f.major <= 1
                                  /\ f.major = 1 => f.minor = 0
<1>1. f.critical \in Nat /\ f.major \in Nat /\ f.minor \in Nat
  BY DEF Tallies
<1>2. Deducted(f) \in Nat /\ Deducted(f) = 35 * f.critical + 15 * f.major + 5 * f.minor
  BY <1>1 DEF Deducted
<1> DEFINE d == Deducted(f)
           c == f.critical
           m == f.major
           n == f.minor
<1>3. ScoreOf(f) = IF d > 100 THEN 0 ELSE 100 - d
  BY DEF ScoreOf
<1>4. c \in Nat /\ m \in Nat /\ n \in Nat /\ d \in Nat /\ d = 35 * c + 15 * m + 5 * n
  BY <1>1, <1>2
<1> HIDE DEF c, m, n, d
<1>5. ScoreOf(f) \in 0..100
  BY <1>3, <1>4
<1>6. m >= 1 => ScoreOf(f) <= 85
  BY <1>3, <1>4
<1>7. ScoreOf(f) >= 85 => c = 0 /\ m <= 1 /\ (m = 1 => n = 0)
  <2> SUFFICES ASSUME ScoreOf(f) >= 85
               PROVE  c = 0 /\ m <= 1 /\ (m = 1 => n = 0)
    OBVIOUS
  <2>1. 35 * c + 15 * m + 5 * n <= 15
    BY <1>3, <1>4
  <2> QED  BY <1>4, <2>1
<1> QED  BY <1>5, <1>6, <1>7 DEF c, m, n

-----------------------------------------------------------------------------
(* An audit of a ticket, whatever its model finds.                         *)

AnyFindings == ModelFindings \cup {NoFindings}

LEMMA ReadIs ==
    ASSUME NEW text, NEW found
    PROVE  LET p == Parsed(text) IN
           /\ AuditOf(text, found).read = p
           /\ p.lines = text /\ p.words = WordsOf(Range(text))
           /\ \A part \in {"steps", "safety", "dangers"} : p.parts[part] = Under(text, part)
<1>1. /\ Parsed(text).lines = text /\ Parsed(text).words = WordsOf(Range(text))
      /\ \A part \in {"steps", "safety", "dangers"} :
            Parsed(text).parts[part] = Under(text, part)
  BY DEF Parsed, WordsOf
<1>2. AuditOf(text, found).read = Parsed(text)
  BY DEF AuditOf
<1> QED  BY <1>1, <1>2

LEMMA AuditHolds ==
    ASSUME paper \in Papers, NEW found \in AnyFindings,
           NEW report, report = AuditOf(TextOf(paper), found)
    PROVE  /\ report.score \in 0..100
           /\ report.score >= 85 =>
                 /\ report.findings.critical = 0 /\ report.findings.major <= 1
                 /\ report.findings.major = 1 => report.findings.minor = 0
                 /\ report.read.names \cap {"dispatch", "operator"} # {}
           /\ "blocked" \in AllWritten4 => report.score <= 85
           /\ AllWritten4 \cap {"risky", "hang", "earth"} # {} /\ paper.risks = <<>>
                 => report.score <= 85
           /\ \A part \in {"steps", "safety", "dangers"} : \A i \in report.read.parts[part] :
                 /\ report.read.lines[i].words \subseteq AllWritten4
                 /\ report.read.lines[i].long
<1> DEFINE p == Parsed(TextOf(paper))
           rules == RuleFindings(p)
           f == BothFound(rules, found)
<1>1. /\ report.read = p /\ p.lines = TextOf(paper) /\ p.words = AllWritten4
      /\ \A part \in {"steps", "safety", "dangers"} :
            p.parts[part] = Under(TextOf(paper), part)
  BY ReadIs, TextIs
<1>2. ASSUME NEW part \in {"steps", "safety", "dangers"}, NEW i \in report.read.parts[part]
      PROVE  /\ report.read.lines[i].words \subseteq AllWritten4
             /\ report.read.lines[i].long
  <2>1. i \in Under(TextOf(paper), part)
    BY <1>1, <1>2
  <2> QED  BY <1>1, <2>1, UnderIs
<1>3. paper.risks = <<>> => p.parts.dangers = {}
  <2>1. p.parts["dangers"] = Under(TextOf(paper), "dangers")
    BY <1>1
  <2>2. paper.risks = <<>> => Under(TextOf(paper), "dangers") = {}
    BY UnderIs
  <2> QED  BY <2>1, <2>2
<1>4. \/ report.score = 0
      \/ report.score = ScoreOf(f) /\ report.findings = f
  BY DEF AuditOf
<1> HIDE DEF p
<1>5. /\ rules \in Tallies
      /\ "blocked" \in p.words => rules.major >= 1
      /\ p.words \cap {"hang", "earth", "risky"} # {} /\ p.parts.dangers = {}
            => rules.major >= 1
      /\ p.names \cap {"dispatch", "operator"} = {} => rules.major >= 2
  BY RulesCount
<1> HIDE DEF rules
<1>6. /\ f \in Tallies /\ f.major >= rules.major
  <2>1. found \in Tallies
    BY AuditAssumption DEF AnyFindings, NoFindings, Tallies
  <2> QED  BY <1>5, <2>1 DEF BothFound, Tallies
<1> HIDE DEF f
<1>7. /\ ScoreOf(f) \in 0..100
      /\ f.major >= 1 => ScoreOf(f) <= 85
      /\ ScoreOf(f) >= 85 => /\ f.critical = 0 /\ f.major <= 1
                             /\ f.major = 1 => f.minor = 0
  BY <1>6, ScoresFall
<1>8. f.major \in Nat /\ rules.major \in Nat
  BY <1>5, <1>6 DEF Tallies
<1>9. "blocked" \in AllWritten4 => report.score <= 85
  BY <1>1, <1>4, <1>5, <1>6, <1>7, <1>8
<1>10. AllWritten4 \cap {"risky", "hang", "earth"} # {} /\ paper.risks = <<>>
          => report.score <= 85
  BY <1>1, <1>3, <1>4, <1>5, <1>6, <1>7, <1>8
<1>11. ASSUME report.score >= 85
       PROVE  /\ report.findings.critical = 0 /\ report.findings.major <= 1
              /\ report.findings.major = 1 => report.findings.minor = 0
              /\ report.read.names \cap {"dispatch", "operator"} # {}
  <2>1. report.score = ScoreOf(f) /\ report.findings = f
    BY <1>4, <1>11
  <2>2. /\ f.critical = 0 /\ f.major <= 1
        /\ f.major = 1 => f.minor = 0
    BY <1>7, <1>11, <2>1
  <2>3. p.names \cap {"dispatch", "operator"} # {}
    BY <1>5, <1>6, <1>8, <2>2
  <2> QED  BY <1>1, <2>1, <2>2, <2>3
<1>12. report.score \in 0..100
  BY <1>4, <1>7
<1> QED  BY <1>2, <1>9, <1>10, <1>11, <1>12

-----------------------------------------------------------------------------
(* The invariant.                                                          *)

\* A report is one on the ticket as it is now: what is handed in is not written in any more.
ReportIsOf ==
    \E found \in AnyFindings : auditReport = AuditOf(TextOf(paper), found)

PaperInv ==
    /\ paper \in Papers /\ paperStatus \in {"draft", "pending_review", "reviewed"}
    /\ auditReport = NotAudited \/ ReportIsOf
    /\ paperStatus = "draft" => auditReport = NotAudited
    /\ paperStatus = "reviewed" => ReportIsOf /\ auditReport.score >= 85

LEMMA InitPaper == AuditInit => PaperInv
<1>1. AuditInit => paper \in Papers
  BY DEF AuditInit, Papers
<1> QED  BY <1>1 DEF AuditInit, PaperInv

LEMMA PieceKeeps ==
    ASSUME PaperInv, NEW piece \in Pieces4Tickets, WritePiece(piece)
    PROVE  PaperInv'
<1>1. paper' \in Papers
  <2>1. paper \in Papers
    BY DEF PaperInv
  <2>2. /\ paper.task \in Pieces4Tickets \cup {Unwritten}
        /\ paper.steps \in Seq(Pieces4Tickets) /\ paper.safety \in Seq(Pieces4Tickets)
        /\ paper.risks \in Seq(Pieces4Tickets)
    BY <2>1 DEF Papers
  <2>3. CASE paper' = [paper EXCEPT !.task = piece]
    BY <2>1, <2>3 DEF Papers
  <2>4. CASE paper' = [paper EXCEPT !.steps = Append(@, piece)]
    <3>1. Append(paper.steps, piece) \in Seq(Pieces4Tickets)
      BY <2>2
    <3> QED  BY <2>1, <2>4, <3>1 DEF Papers
  <2>5. CASE paper' = [paper EXCEPT !.safety = Append(@, piece)]
    <3>1. Append(paper.safety, piece) \in Seq(Pieces4Tickets)
      BY <2>2
    <3> QED  BY <2>1, <2>5, <3>1 DEF Papers
  <2>6. CASE paper' = [paper EXCEPT !.risks = Append(@, piece)]
    <3>1. Append(paper.risks, piece) \in Seq(Pieces4Tickets)
      BY <2>2
    <3> QED  BY <2>1, <2>6, <3>1 DEF Papers
  <2> QED  BY <2>3, <2>4, <2>5, <2>6 DEF WritePiece
<1>2. paperStatus = "draft" /\ paperStatus' = "draft" /\ auditReport' = auditReport
  BY DEF WritePiece
<1>3. auditReport' = NotAudited
  BY <1>2 DEF PaperInv
<1> QED  BY <1>1, <1>2, <1>3 DEF PaperInv, NotAudited

LEMMA HandInKeeps ==
    ASSUME PaperInv, HandIn
    PROVE  PaperInv'
<1>1. paper' = paper /\ paper \in Papers
  BY DEF PaperInv, HandIn
<1>2. CASE paperStatus' = "pending_review" /\ UNCHANGED auditReport
  <2>1. auditReport' = NotAudited
    BY <1>2 DEF PaperInv, HandIn
  <2> QED  BY <1>1, <1>2, <2>1 DEF PaperInv, NotAudited
<1>3. ASSUME NEW found \in ModelFindings \cup {NoFindings},
             auditReport' = AuditOf(TextOf(paper), found),
             paperStatus' = IF auditReport'.score >= 85 THEN "reviewed" ELSE "pending_review"
      PROVE  PaperInv'
  <2>1. ReportIsOf'
    BY <1>1, <1>3 DEF ReportIsOf, AnyFindings
  <2>2. /\ paperStatus' \in {"pending_review", "reviewed"}
        /\ paperStatus' = "reviewed" => auditReport'.score >= 85
    BY <1>3
  <2> QED  BY <1>1, <2>1, <2>2 DEF PaperInv
<1> QED  BY <1>2, <1>3 DEF HandIn

LEMMA PaperImplies ==
    ASSUME PaperInv
    PROVE  AuditTypeOK /\ AuditKept
<1>1. paper \in Papers
  BY DEF PaperInv
<1>2. CASE auditReport = NotAudited /\ paperStatus # "reviewed"
  <2>1. ASSUME NEW part \in {"steps", "safety", "dangers"}
        PROVE  auditReport.read.parts[part] = {}
    <3>1. Under(<<>>, part) = {}
      BY DEF Under
    <3> QED  BY <1>2, <3>1 DEF NotAudited, Parsed
  <2>2. auditReport.score = 0
    BY <1>2 DEF NotAudited
  <2> QED  BY <1>1, <1>2, <2>1, <2>2 DEF PaperInv, Papers, AuditTypeOK, AuditKept,
              SparedIsClean, SparedNamesSomeone, BlockedIsSeen, ReadIsWritten
<1>3. CASE ReportIsOf
  <2>1. PICK found \in AnyFindings : auditReport = AuditOf(TextOf(paper), found)
    BY <1>3 DEF ReportIsOf
  <2>2. /\ auditReport.score \in 0..100
        /\ auditReport.score >= 85 =>
              /\ auditReport.findings.critical = 0 /\ auditReport.findings.major <= 1
              /\ auditReport.findings.major = 1 => auditReport.findings.minor = 0
              /\ auditReport.read.names \cap {"dispatch", "operator"} # {}
        /\ "blocked" \in AllWritten4 => auditReport.score <= 85
        /\ AllWritten4 \cap {"risky", "hang", "earth"} # {} /\ paper.risks = <<>>
              => auditReport.score <= 85
        /\ ReadIsWritten
    BY <1>1, <2>1, AuditHolds DEF ReadIsWritten
  <2>3. paperStatus = "reviewed" => auditReport.score >= 85
    BY DEF PaperInv
  <2>4. AuditTypeOK
    BY <1>1, <2>2 DEF PaperInv, Papers, AuditTypeOK
  <2>5. SparedIsClean /\ SparedNamesSomeone
    BY <2>2, <2>3 DEF SparedIsClean, SparedNamesSomeone
  <2>6. BlockedIsSeen
    BY <2>2 DEF BlockedIsSeen
  <2> QED  BY <2>2, <2>4, <2>5, <2>6 DEF AuditKept
<1> QED  BY <1>2, <1>3 DEF PaperInv

\* However a ticket is written and whatever a model finds in it, one that is spared the review
\* has nothing critical and next to nothing major and names somebody in charge; a forbidden
\* word, or risky work without a risk, costs it points wherever it stands; and nothing is read
\* that was not written or that is short enough to be a heading.
THEOREM AuditsStayKept == AuditSpec => []AuditKept
<1>1. AuditInit => PaperInv
  BY InitPaper
<1>2. PaperInv /\ [AuditNext]_auditVars => PaperInv'
  <2> SUFFICES ASSUME PaperInv, [AuditNext]_auditVars
               PROVE  PaperInv'
    OBVIOUS
  <2>1. CASE AuditNext
    BY <2>1, PieceKeeps, HandInKeeps DEF AuditNext
  <2>2. CASE UNCHANGED auditVars
    BY <2>2 DEF auditVars, PaperInv, NotAudited, ReportIsOf
  <2> QED  BY <2>1, <2>2
<1>3. PaperInv => AuditKept
  BY PaperImplies
<1> QED  BY <1>1, <1>2, <1>3, PTL DEF AuditSpec
=============================================================================
