----------------------------- MODULE MCServices -----------------------------
(***************************************************************************)
(* What people do to shared rows: signatures, annotations, tickets, the    *)
(* caches their questions meet and the answers they get, drafts of         *)
(* knowledge and its governance, the documents of the library and their    *)
(* search, workflows, agents and what they remember, backups and archives, *)
(* the screens people have open, what they think of answers, reports, the  *)
(* accounts of people, the door for events, and the life of the processes  *)
(* behind them.                                                            *)
(* The parts share no state: a behaviour is one of them at work, chosen    *)
(* at the start.                                                           *)
(***************************************************************************)
EXTENDS DocSignoff, DocAnnotation, TicketFlow, AnswerCache, AnswerFlow, KnowledgeEvolution,
        Governance, Documents, Workflows, AgentRuntime, Retrieval,
        Backups, Screens, Feedback, Lifespan, Reports, Accounts, Ingress,
        Citations, SemanticIndex, ExpertDebate, TicketAudit

CONSTANTS c1, c2

\* A date of expiry, and a withdrawal with a start that may lie behind the expiry and no end.
MetadataEdits ==
    {[status |-> "active", until |-> 1],
     [status |-> "withdrawn", from |-> 2, perm |-> TRUE, every |-> 1]}

\* One model and the emergency model behind it.
OneModelAndLocal == <<"cloud", Local>>

Question(way, wire, multi, regen, model) ==
    [way |-> way, wire |-> wire, multi |-> multi, regen |-> regen, model |-> model]

AFewQuestions ==
    {Question("answer", "http", FALSE, FALSE, AutoModel),
     Question("answer", "http", TRUE, TRUE, Local),
     Question("stream", "sse", FALSE, FALSE, AutoModel),
     Question("stream", "ws", TRUE, FALSE, AutoModel),
     Question("agent", "sse", FALSE, FALSE, AutoModel)}

\* The settings as delivered, with what is optional, with a model that grades, and strict.
Usual == {"rerank", "local", "citations", "auto_collect", "refused_to_gap"}
AFewSettings ==
    {Usual, {"v3", "gate", "perdoc", "debate", "local"}, {"injection"}}

\* The third object is a scan nothing can be read from; all tell of one fact.
FewPieces == [o \in 1..MaxLibOps |-> IF o = 3 THEN 0 ELSE 1]
OneFact == [o \in 1..MaxLibOps |-> {"f"}]

Edge(from, to, branch) == [from |-> from, to |-> to, branch |-> branch]
Plain == [types |-> <<"input", "llm", "output">>, edges |-> <<Edge(1, 2, ""), Edge(2, 3, "")>>]
\* Two sources of one output, of which one may fail.
Fork == [types |-> <<"input", "kg", "agent", "output">>,
         edges |-> <<Edge(1, 2, ""), Edge(1, 3, ""), Edge(2, 4, ""), Edge(3, 4, "")>>]
\* What was not found is left to a model, and the output joins both branches.
Join == [types |-> <<"input", "retrieval", "is_empty", "llm", "output">>,
         edges |-> <<Edge(1, 2, ""), Edge(2, 3, ""), Edge(3, 4, "true"), Edge(4, 5, ""),
                     Edge(3, 5, "false")>>]
\* Every node can be reached, and two of them from each other.
Cycle == [types |-> <<"input", "llm", "contains", "output">>,
          edges |-> <<Edge(1, 2, ""), Edge(2, 3, ""), Edge(3, 2, "true"), Edge(3, 4, "false")>>]
FewSketches == {Plain, Fork, Join, Cycle}

\* Two tenants have a user of the same name.
SameName == {[tenant |-> t, user |-> "u"] : t \in 1..2}
OneOfTwoIsAboutSomething == [f |-> "e", g |-> ""]
CallOf(tenant, role, persona, reads, writes) ==
    [ctx |-> TRUE, owner |-> [tenant |-> tenant, user |-> "u"], role |-> role,
     persona |-> persona, reads |-> reads, writes |-> writes]
FewCalls == {CallOf(1, "editor", "qa", FALSE, TRUE), CallOf(2, "", "qa", TRUE, FALSE),
             CallOf(1, "admin", "alert", TRUE, FALSE),
             [CallOf(1, "", "qa", FALSE, FALSE) EXCEPT !.ctx = FALSE]}
TwoPersonas == [qa |-> [tools |-> {"search"}, turns |-> 1],
                alert |-> [tools |-> {"search"}, turns |-> 2]]
TwoTools == [search |-> [roles |-> {}, writes |-> FALSE],
             draft |-> [roles |-> {"admin"}, writes |-> TRUE]]

\* The same passage twice, a document of another tenant, a chunk and a document that are gone.
Hit(doc, idx, score) == [doc |-> doc, idx |-> idx, score |-> score]
FewHits ==
    [dense_cloud |-> {<<>>, <<Hit("a", 1, 9), Hit("b", 1, 5)>>, <<Hit("c", 1, 8), Hit("a", 2, 6)>>},
     dense_bge |-> {<<>>, <<Hit("a", 1, 7), Hit("gone", 1, 6)>>},
     bm25 |-> {<<Hit("a", 2, 3), Hit("b", 1, 2)>>,
               <<Hit("c", 1, 4), Hit("a", 3, 4), Hit("b", 1, 1)>>}]
Public(tenant, passage) ==
    [tenant |-> tenant, dept |-> "", roles |-> {}, type |-> "manual", passage |-> passage,
     summarised |-> TRUE, blocked |-> FALSE]
Draft(withdrawn) ==
    [tenant |-> "t", dept |-> "ops", roles |-> {"editor"}, type |-> "ai_evolution",
     passage |-> <<1>>, summarised |-> FALSE, blocked |-> withdrawn]
WithdrawnOrNot ==
    {[a |-> Public("t", <<1, 1>>), b |-> Draft(w), c |-> Public("u", <<1>>)] : w \in BOOLEAN}

Wording == [standard |-> FALSE, length |-> 20, density |-> 20, numeric |-> FALSE, fault |-> FALSE,
            alias |-> FALSE]
Search(by, tenant, dept, role, topk) ==
    [by |-> by, route |-> "dense", features |-> Wording, odd |-> FALSE, debug |-> FALSE,
     tenant |-> tenant, type |-> "", dept |-> dept, role |-> role, topk |-> topk]
\* By words, by vectors and by both, for colleagues and others, the debugging of one included.
FewSearches ==
    {Search("router", "t", "ops", "viewer", 2), Search("route", "", "", "", 2),
     [Search("router", "t", "net", "editor", 1) EXCEPT !.features.standard = TRUE],
     [Search("router", "t", "", "admin", 2) EXCEPT !.features.numeric = TRUE],
     [Search("router", "t", "ops", "editor", 1) EXCEPT !.features.fault = TRUE, !.odd = TRUE],
     [Search("plain", "t", "ops", "admin", 1) EXCEPT !.debug = TRUE],
     [Search("plain", "t", "", "", 1) EXCEPT !.type = "manual"]}
AsDelivered == {"adaptive", "rewrite_eval", "rerank", "mmr", "small_to_big"}
FewSwitches ==
    {AsDelivered, {"fail_open", "mmr", "raptor"},
     (AsDelivered \ {"rerank"}) \cup {"multi", "route_aware", "raptor", "ai_exclude", "local_only"}}

\* One user, whose id is not the name.
OneUser == {"ann"}
IdOfOneUser == [ann |-> "id1"]

\* A loop of the early ones and the last but one.
TwoLoops == {{"backup", "sweep"}}

\* Better, and better at a price; a hundredth is a hundred.
Score(recall, empty, latency) == [recall |-> recall, empty |-> empty, latency |-> latency]
FewScores == {Score(8000, 100, 10), Score(8120, 100, 30), Score(8060, 160, 10)}

\* One tenant with a token and users, one that signs; what is known and what is made out of
\* the payload, a level nobody knows, and a type that has a mark inside a word.
Delivery(token, site, severity) ==
    [token |-> token, signed |-> [secret |-> "", site |-> "", age |-> 0], bearer |-> "",
     site |-> site, id |-> "e", source |-> "scada", severity |-> severity,
     type |-> [name |-> "alarm", marks |-> {}], device |-> "dev", payload |-> <<>>,
     nested |-> <<>>, name |-> "", station |-> "s"]
FewDeliveries ==
    {Delivery("tok", "t", "error"),
     [Delivery("", "u", "who knows") EXCEPT !.bearer = "ann", !.device = "", !.station = "",
          !.payload = [deviceCode |-> "dev"]],
     [Delivery("", "u", "4") EXCEPT !.signed = [secret |-> "sec", site |-> "u", age |-> 300],
          !.type = [name |-> "nuclear_trip", marks |-> {"clear"}]],
     [Delivery("", "t", "0") EXCEPT !.bearer = "tok", !.device = "",
          !.nested = [pointId |-> "other"]]}
InForceOrNot == {[canonical |-> "T1", name |-> "", active |-> a] : a \in BOOLEAN}
FewDiagnoses ==
    {[v2 |-> v, says |-> FALSE, steps |-> TRUE, safety |-> TRUE, risks |-> ~v,
      located |-> FALSE, reasoned |-> TRUE, toolsUsed |-> TRUE, degraded |-> FALSE,
      riskLevel |-> "major"] : v \in BOOLEAN}
TokenOfT == [t |-> "tok"]
SecretOfU == [u |-> "sec"]
UserOfT == [ann |-> "t"]

\* Two passages with an id and one without; an invented number alone and in a group, a sentence
\* without a number, one that is refuted, and the form that tells its citations itself.
ThreePassages == <<"a", "b", "">>
Sentence(id, groups) == [id |-> id, groups |-> groups]
FourDrafts ==
    {[structured |-> FALSE, told |-> {},
      text |-> <<Sentence("s", {<<1>>, <<9>>}), Sentence("t", {})>>],
     [structured |-> FALSE, told |-> {},
      text |-> <<Sentence("s", {<<1>>}), Sentence("u", {<<1, 9>>})>>],
     [structured |-> TRUE, told |-> {[sentence |-> "s", ref |-> 2, stands |-> 1]},
      text |-> <<Sentence("s", {<<2>>})>>],
     [structured |-> FALSE, told |-> {}, text |-> <<Sentence("u", {<<3>>})>>]}
NearPassages == {<<"s", 1>>, <<"t", 2>>, <<"u", 2>>}
NearestPassages == {<<"t", 2>>}
ContraryPassages == {<<"s", 1>>}

\* "b" is nearly "a", and "z" just near it.
ThreeLikeness ==
    [pair \in {"a", "b", "z"} \X {"a", "b", "z"} |->
        IF pair[1] = pair[2] THEN 100
        ELSE IF "z" \notin Range(pair) THEN 95
        ELSE IF "b" \notin Range(pair) THEN 85 ELSE 50]

\* Two causes, and a text that names none.
FewSayings ==
    {[causes |-> {c}, sums |-> TRUE, failed |-> FALSE] : c \in {"x", "y"}}
        \cup {[causes |-> {}, sums |-> FALSE, failed |-> FALSE]}

\* A short line and long ones: what is tested, what is earthed without it, who gave the order,
\* and a number of odd form with words that are forbidden.
Piece(long, names, odd, words) == [long |-> long, names |-> names, odd |-> odd, words |-> words]
FewTicketPieces ==
    {Piece(FALSE, {}, FALSE, {"test"}), Piece(TRUE, {}, FALSE, {"earth"}),
     Piece(TRUE, {"dispatch", "operator"}, FALSE, {}),
     Piece(FALSE, {"dispatch"}, TRUE, {"hang", "blocked"})}
FewFindings ==
    {[critical |-> 0, major |-> 0, minor |-> 1], [critical |-> 1, major |-> 0, minor |-> 0]}

VARIABLE work

At(w, variables) == work # w => UNCHANGED variables

servicesVars == <<work, signoffVars, noteVars, ticketVars, cacheVars,
                  answerVars, evoVars, govVars, libVars, workflowVars, agentVars, searchVars,
                  storeVars, logVars, screenVars, feedbackVars, lifeVars, allReportVars,
                  accountVars, ingressVars, citeVars, semVars, debateVars, auditVars>>

ServicesInit ==
    /\ work \in {"signoff", "note", "ticket", "cache", "question", "evolution", "governance",
                "library", "workflow", "agent", "search", "backup", "archive", "layout", "screen",
                "feedback", "process", "report", "matrix", "account", "event",
                "citation", "semantic", "debate", "audit"}
    /\ SignoffInit /\ AnnotationInit /\ TicketInit /\ CacheInit
    /\ AnswerInit /\ (work # "question" => on = Usual) /\ (liked => work = "question" /\ on = Usual)
    /\ EvolutionInit /\ (work # "evolution" => evoAlone)
    /\ GovernanceInit /\ (dryRun => govAlone) /\ (work # "governance" => dryRun)
    /\ LibraryInit /\ (work # "library" => libAlone)
    /\ FlowsInit /\ (work # "workflow" => flowAlone)
    /\ AgentInit /\ (work # "agent" \/ agentTools => memoryOn = {})
    /\ (agentTools => agentAlone) /\ (work # "agent" => agentTools)
    /\ RetrievalInit
    /\ (work # "search" => switches = AsDelivered /\ ~librarySeen["b"].blocked)
    /\ BackupInit /\ (work # "backup" => backupAlone)
    /\ ScreensInit /\ FeedbackInit /\ LifespanInit /\ ReportsInit /\ AccountsInit /\ IngressInit
    /\ CitationsInit /\ (work # "citation" => checksLate)
    /\ SemanticInit /\ homeOf[c1] = CHOOSE h \in Homes : TRUE
    /\ (work # "semantic" => homeOf[c2] = homeOf[c1])
    /\ DebateInit /\ AuditInit
    /\ memRows[1].fact = "g" /\ memRows[1].owner.tenant = 1
    /\ memoryOn \in {{}, {"enable", "auto_save"}}
    \* Always true: TLC works out every function before the view leaves it out.
    /\ servicesVars = servicesVars

ServicesNext ==
    /\ UNCHANGED work
    /\ At("signoff", signoffVars) /\ At("note", noteVars) /\ At("ticket", ticketVars)
    /\ At("cache", cacheVars) /\ At("question", answerVars)
    /\ At("evolution", evoVars) /\ At("governance", govVars) /\ At("library", libVars)
    /\ At("workflow", workflowVars) /\ At("agent", agentVars)
    /\ At("search", searchVars) /\ At("feedback", feedbackVars)
    /\ At("process", lifeVars) /\ At("account", accountVars) /\ At("event", ingressVars)
    /\ At("citation", citeVars) /\ At("semantic", semVars)
    /\ At("debate", debateVars) /\ At("audit", auditVars)
    /\ (work \notin {"report", "matrix"} => UNCHANGED allReportVars)
    /\ (work \notin {"backup", "archive"} => UNCHANGED fileVars)
    /\ (work \notin {"layout", "screen"} => UNCHANGED screenVars)
    /\ \/ work = "signoff" /\ SignoffNext
       \/ work = "note" /\ AnnotationNext
       \/ work = "ticket" /\ TicketNext
       \/ work = "cache" /\ CacheNext
       \/ work = "question" /\ AnswerNext
       \/ work = "evolution" /\ EvolutionNext
       \/ work = "governance" /\ GovernanceNext
       \/ work = "library" /\ LibraryNext
       \/ work = "workflow" /\ FlowsNext
       \/ work = "agent" /\ AgentNext
       \/ work = "search" /\ RetrievalNext
       \/ work = "backup" /\ StoresNext
       \/ work = "archive" /\ LogNext
       \/ work = "layout" /\ LayoutsNext
       \/ work = "screen" /\ SocketsNext
       \/ work = "feedback" /\ FeedbackNext
       \/ work = "process" /\ LifespanNext
       \/ work = "report" /\ ReportsNext
       \/ work = "matrix" /\ MatrixNext
       \/ work = "account" /\ AccountsNext
       \/ work = "event" /\ IngressNext
       \/ work = "citation" /\ CitationsNext
       \/ work = "semantic" /\ SemanticNext
       \/ work = "debate" /\ DebateNext
       \/ work = "audit" /\ AuditNext

\* The part at work keeps its rows and its actors within their types; the others rest.
ServicesTypeOK ==
    CASE work = "signoff" -> SignoffTypeOK
      [] work = "note" -> AnnotationTypeOK
      [] work = "ticket" -> TicketTypeOK
      [] work = "cache" -> CacheTypeOK
      [] work = "question" -> AnswerTypeOK
      [] work = "evolution" -> EvolutionTypeOK
      [] work = "governance" -> GovernanceTypeOK
      [] work = "library" -> LibraryTypeOK
      [] work = "workflow" -> FlowsTypeOK
      [] work = "agent" -> AgentTypeOK
      [] work = "search" -> RetrievalTypeOK
      [] work \in {"backup", "archive"} -> BackupTypeOK
      [] work \in {"layout", "screen"} -> ScreensTypeOK
      [] work = "feedback" -> FeedbackTypeOK
      [] work = "process" -> LifespanTypeOK
      [] work \in {"report", "matrix"} -> ReportTypeOK
      [] work = "account" -> AccountTypeOK
      [] work = "event" -> IngressTypeOK
      [] work = "citation" -> CitationsTypeOK
      [] work = "semantic" -> SemanticTypeOK
      [] work = "debate" -> DebateTypeOK
      [] work = "audit" -> AuditTypeOK

\* Two states are the same if the part at work is where it was: the others rest.
AtWork ==
    CASE work = "signoff" -> <<work, signoffVars>>
      [] work = "note" -> <<work, noteVars>>
      [] work = "ticket" -> <<work, ticketVars>>
      [] work = "cache" -> <<work, cacheVars>>
      [] work = "question" -> <<work, answerVars>>
      [] work = "evolution" -> <<work, evoVars>>
      [] work = "governance" -> <<work, govVars>>
      [] work = "library" -> <<work, libVars>>
      [] work = "workflow" -> <<work, workflowVars>>
      [] work = "agent" -> <<work, agentVars>>
      [] work = "search" -> <<work, searchVars>>
      [] work \in {"backup", "archive"} -> <<work, storeVars, logVars>>
      [] work \in {"layout", "screen"} -> <<work, screenVars>>
      [] work = "feedback" -> <<work, feedbackVars>>
      [] work = "process" -> <<work, lifeVars>>
      [] work \in {"report", "matrix"} -> <<work, allReportVars>>
      [] work = "account" -> <<work, accountVars>>
      [] work = "event" -> <<work, ingressVars>>
      [] work = "citation" -> <<work, citeVars>>
      [] work = "semantic" -> <<work, semVars>>
      [] work = "debate" -> <<work, debateVars>>
      [] work = "audit" -> <<work, auditVars>>


ServicesSpec == ServicesInit /\ [][ServicesNext]_servicesVars
=============================================================================
