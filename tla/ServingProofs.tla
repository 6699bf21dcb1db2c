--------------------------- MODULE ServingProofs ----------------------------
(***************************************************************************)
(* What holds of what the processes of the backend serve, and of them, for *)
(* any number of each: whatever overlaps, expires, is cleaned away or      *)
(* restarts, no level of the answer caches gives what governance, people   *)
(* or an emergency exclude; what is kept, noted and told of a question     *)
(* agrees with how its answer came about; a number that stands alone in an *)
(* answer has a passage; the screens hear what is meant for them, in       *)
(* order; and a process serves on a database that is there.                *)
(***************************************************************************)
EXTENDS AnswerCache, AnswerFlow, Citations, Screens, Lifespan, SequenceTheorems, TLAPS

-----------------------------------------------------------------------------
(* Answer caches.                                                          *)

Stored == Answers \cup {NoAnswer}
TableEntry == [answer : Stored, deleted : BOOLEAN]
Request == [q : Questions, conv : Conversations, regen : BOOLEAN, skip : BOOLEAN,
            barred : BOOLEAN]

TypeInv ==
    /\ redis \in [Keys -> Stored] /\ table \in [Keys -> TableEntry]
    /\ hotqa \in [Questions -> Stored]
    /\ blacklist \subseteq Questions /\ snapshot \subseteq Questions
    /\ redisUp \in BOOLEAN /\ version \in Versions /\ blocked \subseteq Documents
    /\ purging \in {"no", "rows", "version"}
    /\ dislikes \in [Questions -> Nat]
    /\ feedbackTasks \subseteq {"invalidate", "blacklist"} \X Questions
    /\ backfills \subseteq Keys \X Answers
    /\ askPc \in [Askers -> {"idle", "lookup", "retrieve", "table", "redis"}]
    /\ asked \in [Askers -> Request] /\ drafted \in [Askers -> Stored]
    /\ served.answer \in Stored
    /\ asks \in 0..MaxAsks /\ upsets \in [people : 0..MaxUpsets, outages : 0..MaxOutages]
    /\ \A a \in Askers : askPc[a] \in {"table", "redis"} => drafted[a] \in Answers

\* An answer in the exact levels is of high confidence, and so is one on its way to them.
HighInv ==
    /\ EmergencyNotCached
    /\ \A b \in backfills : b[2].high
    /\ \A a \in Askers : askPc[a] = "redis" => drafted[a].high

\* A request that came barred passes by the levels 1 and 2 until its end.
BarredInv == \A a \in Askers : asked[a].barred => asked[a].skip

CacheInv == TypeInv /\ HighInv /\ BarredInv /\ CacheRespectsGovernance /\ BlacklistIsHonoured

-----------------------------------------------------------------------------
(* Lemmas.                                                                 *)

\* A key is a question and a version, and what a request asks for has one.
LEMMA KeyOfRequest ==
  ASSUME TypeInv, NEW a \in Askers
  PROVE  /\ asked[a] \in Request /\ asked[a].q \in Questions /\ version \in Versions
         /\ <<asked[a].q, version>> \in Keys
BY DEF TypeInv, Request, Keys

\* NoAnswer is no answer, and what stands for nothing has the type of what it stands for.
LEMMA Nothing ==
  /\ NoAnswer \notin Answers /\ NoAnswer \in Stored /\ ~NoAnswer.high
  /\ NoRow \in TableEntry /\ NoRow.answer = NoAnswer /\ NoAsk \in Request /\ ~NoAsk.barred
  /\ NoServing.answer = NoAnswer /\ NoServing.layer = "none"
BY DEF NoAnswer, Answers, Stored, NoRow, TableEntry, NoAsk, Request, NoServing, Questions,
       Documents, Conversations, NoConversation

\* What a request is told of the blacklist when it comes.
LEMMA NewRequest ==
  ASSUME NEW q \in Questions, NEW conv \in Conversations, NEW regen \in BOOLEAN
  PROVE  [q |-> q, conv |-> conv, regen |-> regen, skip |-> Barred(q),
          barred |-> q \in blacklist /\ (redisUp \/ snapshot = {})] \in Request
<1>1. Barred(q) \in BOOLEAN
  <2>1. CASE redisUp
    BY <2>1 DEF Barred
  <2>2. CASE ~redisUp
    BY <2>2 DEF Barred
  <2> QED
    BY <2>1, <2>2
<1>2. (q \in blacklist /\ (redisUp \/ snapshot = {})) \in BOOLEAN
  BY SMT
<1> QED
  BY <1>1, <1>2 DEF Request

-----------------------------------------------------------------------------
(* Steps.                                                                  *)

\* Whatever happens, everything keeps its type.
LEMMA TypeStep ==
  ASSUME TypeInv, [CacheNext]_cacheVars
  PROVE  TypeInv'
<1>13. CASE UNCHANGED cacheVars
  BY <1>13 DEF cacheVars, TypeInv
<1> USE CacheAssumption, Nothing DEF TypeInv, Over
<1>1. ASSUME NEW a \in Askers, NEW q \in Questions, NEW conv \in Conversations,
             NEW regen \in BOOLEAN, Arrive(a, q, conv, regen)
      PROVE  TypeInv'
  <2>1. [q |-> q, conv |-> conv, regen |-> regen, skip |-> Barred(q),
         barred |-> q \in blacklist /\ (redisUp \/ snapshot = {})] \in Request
    BY NewRequest
  <2>2. snapshot' \in {blacklist, snapshot}
    BY <1>1 DEF Arrive, Checked
  <2>4. asks' \in 0..MaxAsks
    BY <1>1 DEF Arrive
  <2>3. served'.answer \in Stored
    BY <1>1 DEF Arrive
  <2> QED
    BY <1>1, <2>1, <2>2, <2>3, <2>4 DEF Arrive
<1>2. ASSUME NEW a \in Askers, LookUp(a) PROVE TypeInv'
  <2>1. <<asked[a].q, version>> \in Keys
    BY KeyOfRequest
  <2>2. backfills' \subseteq Keys \X Answers
    BY <1>2, <2>1, SMTT(60) DEF LookUp, InTable, TableEntry, Stored
  <2>3. served'.answer \in Stored
    BY <1>2, <2>1 DEF LookUp, Serving, TableEntry
  <2>4. /\ askPc' \in [Askers -> {"idle", "lookup", "retrieve", "table", "redis"}]
        /\ asked' \in [Askers -> Request] /\ drafted' \in [Askers -> Stored]
        /\ \A b \in Askers : askPc'[b] \in {"table", "redis"} => drafted'[b] \in Answers
    BY <1>2 DEF LookUp
  <2> QED
    BY <1>2, <2>2, <2>3, <2>4 DEF LookUp
<1>3. ASSUME NEW k, NEW answer, Backfill(k, answer) PROVE TypeInv'
  <2>1. k \in Keys /\ answer \in Stored
    BY <1>3 DEF Backfill, Stored
  <2> QED
    BY <1>3, <2>1 DEF Backfill
<1>4. ASSUME NEW a \in Askers, Retrieve(a) PROVE TypeInv'
  <2>1. PICK d \in Documents \ blocked, high \in BOOLEAN :
            drafted' = [drafted EXCEPT ![a] =
              [means |-> Standalone(asked[a].q, asked[a].conv), cites |-> d, high |-> high]]
    BY <1>4 DEF Retrieve
  <2>2. [means |-> Standalone(asked[a].q, asked[a].conv), cites |-> d, high |-> high] \in Answers
    BY KeyOfRequest DEF Request, Answers, Standalone, Conversations
  <2> QED
    BY <1>4, <2>1, <2>2 DEF Retrieve, Stored
<1>5. ASSUME NEW a \in Askers, WriteTable(a) PROVE TypeInv'
  <2>1. <<asked[a].q, version>> \in Keys /\ drafted[a] \in Answers
    BY <1>5, KeyOfRequest DEF WriteTable
  <2>2. [table[<<asked[a].q, version>>] EXCEPT !.answer = drafted[a]] \in TableEntry
    BY <2>1 DEF TableEntry, Stored
  <2>3. /\ table' \in [Keys -> TableEntry] /\ snapshot' \subseteq Questions
        /\ served'.answer \in Stored
    BY <1>5, <2>1, <2>2 DEF WriteTable, Checked, Serving, Stored
  <2> QED
    BY <1>5, <2>3 DEF WriteTable
<1>6. ASSUME NEW a \in Askers, WriteRedis(a) PROVE TypeInv'
  <2>1. <<asked[a].q, version>> \in Keys /\ drafted[a] \in Answers
    BY <1>6, KeyOfRequest DEF WriteRedis
  <2> QED
    BY <1>6, <2>1 DEF WriteRedis, Serving, Stored
<1>7. ASSUME NEW q \in Questions,
             \/ Like(q) \/ Dislike(q) \/ BlacklistOnDislike(q) \/ ChangeBlacklist(q)
      PROVE  TypeInv'
  BY <1>7 DEF Like, Dislike, BlacklistOnDislike, ChangeBlacklist, Upset
<1>8. ASSUME NEW q \in Questions, InvalidateOnDislike(q) PROVE TypeInv'
  <2>1. table' \in [Keys -> TableEntry] /\ redis' \in [Keys -> Stored]
    BY <1>8 DEF InvalidateOnDislike, TableEntry
  <2> QED
    BY <1>8, <2>1 DEF InvalidateOnDislike
<1>9. ASSUME NEW d \in Documents, Withdraw(d) \/ InvalidateForDoc(d) PROVE TypeInv'
  <2>1. table' \in [Keys -> TableEntry]
    <3>1. CASE Withdraw(d)
      BY <3>1 DEF Withdraw
    <3>2. CASE InvalidateForDoc(d)
      BY <3>2 DEF InvalidateForDoc, TableEntry
    <3> QED
      BY <1>9, <3>1, <3>2
  <2>2. upsets' \in [people : 0..MaxUpsets, outages : 0..MaxOutages]
    BY <1>9 DEF Withdraw, InvalidateForDoc, Upset
  <2> QED
    BY <1>9, <2>1, <2>2 DEF Withdraw, InvalidateForDoc
<1>10. CASE PurgeRows \/ BumpVersion
  <2>1. table' \in [Keys -> TableEntry] /\ redis' \in [Keys -> Stored] /\ version' \in Versions
    BY <1>10 DEF PurgeRows, BumpVersion, Versions
  <2> QED
    BY <1>10, <2>1 DEF PurgeRows, BumpVersion
<1>11. ASSUME NEW k \in Keys, Expire(k) PROVE TypeInv'
  BY <1>11 DEF Expire, Outage
<1>12. CASE RedisGoes \/ Restart
  <2>1. upsets' \in [people : 0..MaxUpsets, outages : 0..MaxOutages]
    BY <1>12 DEF RedisGoes, Restart, Outage
  <2>2. CASE RedisGoes
    BY <2>1, <2>2 DEF RedisGoes
  <2>3. CASE Restart
    BY <2>1, <2>3 DEF Restart, Versions
  <2> QED
    BY <1>12, <2>2, <2>3
<1> HIDE DEF TypeInv
<1>14. ASSUME NEW f \in backfills, Backfill(f[1], f[2]) PROVE TypeInv'
  BY <1>3, <1>14
<1>15. ASSUME NEW a \in Askers,
              \/ \E q \in Questions, conv \in Conversations, regen \in BOOLEAN :
                    Arrive(a, q, conv, regen)
              \/ LookUp(a) \/ Retrieve(a) \/ WriteTable(a) \/ WriteRedis(a)
       PROVE  TypeInv'
  BY <1>15, <1>1, <1>2, <1>4, <1>5, <1>6
<1> QED
  BY <1>15, <1>14, <1>7, <1>8, <1>9, <1>10, <1>11, <1>12, <1>13 DEF CacheNext

\* The exact levels get answers of high confidence only, and so does what is on its way there.
LEMMA HighStep ==
  ASSUME TypeInv, HighInv, [CacheNext]_cacheVars
  PROVE  HighInv'
<1>0. /\ \A k \in Keys : /\ redis[k] # NoAnswer => redis[k].high
                         /\ table[k] \in TableEntry
                         /\ table[k].answer # NoAnswer => table[k].answer.high
      /\ \A b \in backfills : b[2].high
      /\ \A a \in Askers : askPc[a] = "redis" => drafted[a].high
      /\ redis \in [Keys -> Stored] /\ table \in [Keys -> TableEntry]
      /\ askPc \in [Askers -> {"idle", "lookup", "retrieve", "table", "redis"}]
      /\ drafted \in [Askers -> Stored]
  BY DEF TypeInv, HighInv, EmergencyNotCached
\* A step that gives no level an answer.
<1>1. ASSUME \A k \in Keys : /\ redis'[k] \in {redis[k], NoAnswer}
                             /\ table'[k].answer \in {table[k].answer, NoAnswer}
      PROVE  EmergencyNotCached'
  BY <1>0, <1>1 DEF EmergencyNotCached
<1>2. CASE UNCHANGED cacheVars
  BY <1>2 DEF cacheVars, HighInv, EmergencyNotCached
<1>3. ASSUME NEW a \in Askers, NEW q \in Questions, NEW conv \in Conversations,
             NEW regen \in BOOLEAN, Arrive(a, q, conv, regen)
      PROVE  HighInv'
  BY <1>0, <1>1, <1>3 DEF Arrive, HighInv
<1>4. ASSUME NEW a \in Askers, LookUp(a) PROVE HighInv'
  <2>1. <<asked[a].q, version>> \in Keys
    BY KeyOfRequest
  <2>2. \A b \in backfills' : b[2].high
    BY <1>0, <1>4, <2>1 DEF LookUp, InTable
  <2>3. \A b \in Askers : askPc'[b] = "redis" => drafted'[b].high
    BY <1>0, <1>4 DEF LookUp, Over
  <2> QED
    BY <1>0, <1>1, <1>4, <2>2, <2>3 DEF LookUp, HighInv
<1>5. ASSUME NEW f \in backfills, Backfill(f[1], f[2]) PROVE HighInv'
  <2>1. f[1] \in Keys /\ f[2] \in Answers /\ f[2].high
    BY <1>0 DEF TypeInv
  <2> QED
    BY <1>0, <1>5, <2>1 DEF Backfill, HighInv, EmergencyNotCached
<1>6. ASSUME NEW a \in Askers, Retrieve(a) PROVE HighInv'
  BY <1>0, <1>1, <1>6 DEF Retrieve, HighInv
<1>7. ASSUME NEW a \in Askers, WriteTable(a) PROVE HighInv'
  <2>1. <<asked[a].q, version>> \in Keys
    BY KeyOfRequest
  <2>2. EmergencyNotCached'
    <3>1. CASE Keeps(a)
      <4>1. /\ UNCHANGED redis /\ drafted[a].high
            /\ table' = [table EXCEPT ![<<asked[a].q, version>>].answer = drafted[a]]
        BY <1>7, <3>1 DEF WriteTable, Keeps
      <4>2. ASSUME NEW k \in Keys
            PROVE  table'[k].answer \in {table[k].answer, drafted[a]}
        BY <1>0, <4>1 DEF TableEntry
      <4> QED
        BY <1>0, <4>1, <4>2 DEF EmergencyNotCached
    <3>2. CASE ~Keeps(a)
      BY <1>0, <1>1, <1>7, <3>2 DEF WriteTable
    <3> QED
      BY <3>1, <3>2
  <2>3. \A b \in Askers : askPc'[b] = "redis" => drafted'[b].high
    BY <1>0, <1>7 DEF WriteTable, Keeps, Over
  <2> QED
    BY <1>0, <1>7, <2>2, <2>3 DEF WriteTable, HighInv
<1>8. ASSUME NEW a \in Askers, WriteRedis(a) PROVE HighInv'
  <2>1. <<asked[a].q, version>> \in Keys
    BY KeyOfRequest
  <2>2. EmergencyNotCached'
    BY <1>0, <1>8, <2>1 DEF WriteRedis, EmergencyNotCached
  <2> QED
    BY <1>0, <1>8, <2>2 DEF WriteRedis, Over, HighInv
<1>9. ASSUME UNCHANGED <<askPc, drafted>>, backfills' \subseteq backfills, EmergencyNotCached'
      PROVE  HighInv'
  BY <1>0, <1>9 DEF HighInv
<1>10. ASSUME NEW q \in Questions,
              \/ Like(q) \/ Dislike(q) \/ BlacklistOnDislike(q) \/ ChangeBlacklist(q)
       PROVE  HighInv'
  BY <1>0, <1>1, <1>9, <1>10 DEF Like, Dislike, BlacklistOnDislike, ChangeBlacklist
<1>11. ASSUME NEW q \in Questions, InvalidateOnDislike(q) PROVE HighInv'
  <2>1. \A k \in Keys : /\ redis'[k] \in {redis[k], NoAnswer}
                        /\ table'[k].answer \in {table[k].answer, NoAnswer}
    BY <1>0, <1>11 DEF InvalidateOnDislike, TableEntry
  <2> QED
    BY <1>1, <1>9, <1>11, <2>1 DEF InvalidateOnDislike
<1>12. ASSUME NEW d \in Documents, Withdraw(d) \/ InvalidateForDoc(d) PROVE HighInv'
  <2>1. CASE Withdraw(d)
    BY <1>0, <1>1, <1>9, <2>1 DEF Withdraw
  <2>2. CASE InvalidateForDoc(d)
    <3>1. \A k \in Keys : /\ redis'[k] \in {redis[k], NoAnswer}
                          /\ table'[k].answer \in {table[k].answer, NoAnswer}
      BY <1>0, <2>2 DEF InvalidateForDoc, TableEntry
    <3> QED
      BY <1>1, <1>9, <2>2, <3>1 DEF InvalidateForDoc
  <2> QED
    BY <1>12, <2>1, <2>2
<1>13. CASE PurgeRows
  <2>1. \A k \in Keys : /\ redis'[k] \in {redis[k], NoAnswer}
                        /\ table'[k].answer \in {table[k].answer, NoAnswer}
    BY <1>0, <1>13, Nothing DEF PurgeRows
  <2> QED
    BY <1>1, <1>9, <1>13, <2>1 DEF PurgeRows
<1>14. CASE BumpVersion
  BY <1>0, <1>1, <1>9, <1>14 DEF BumpVersion
<1>15. ASSUME NEW l \in Keys, Expire(l) PROVE HighInv'
  <2>1. \A k \in Keys : /\ redis'[k] \in {redis[k], NoAnswer}
                        /\ table'[k].answer \in {table[k].answer, NoAnswer}
    BY <1>0, <1>15, Nothing DEF Expire
  <2> QED
    BY <1>1, <1>9, <1>15, <2>1 DEF Expire
<1>16. CASE RedisGoes
  BY <1>0, <1>1, <1>9, <1>16 DEF RedisGoes
<1>17. CASE Restart
  BY <1>0, <1>1, <1>17 DEF Restart, HighInv
<1>18. ASSUME NEW a \in Askers,
              \/ \E q \in Questions, conv \in Conversations, regen \in BOOLEAN :
                    Arrive(a, q, conv, regen)
              \/ LookUp(a) \/ Retrieve(a) \/ WriteTable(a) \/ WriteRedis(a)
       PROVE  HighInv'
  BY <1>18, <1>3, <1>4, <1>6, <1>7, <1>8
<1> QED
  BY <1>18, <1>2, <1>5, <1>10, <1>11, <1>12, <1>13, <1>14, <1>15, <1>16, <1>17 DEF CacheNext

\* A step that gives an answer gives one that was allowed: from the liked ones to a question
\* that is not barred, from levels 1 and 2 with documents nobody withdrew.
LEMMA ServedStep ==
  ASSUME TypeInv, BarredInv, CacheRespectsGovernance, BlacklistIsHonoured, [CacheNext]_cacheVars
  PROVE  BarredInv' /\ CacheRespectsGovernance' /\ BlacklistIsHonoured'
<1> USE Nothing
<1>0. /\ asked \in [Askers -> Request] /\ \A a \in Askers : asked[a].barred => asked[a].skip
  BY DEF TypeInv, BarredInv
\* A step that answers nothing, after which a request is as it was or gone.
<1>1. ASSUME served' = NoServing, \A a \in Askers : asked'[a] \in {asked[a], NoAsk}
      PROVE  BarredInv' /\ CacheRespectsGovernance' /\ BlacklistIsHonoured'
  BY <1>0, <1>1 DEF BarredInv, CacheRespectsGovernance, BlacklistIsHonoured
<1>2. CASE UNCHANGED cacheVars
  BY <1>2 DEF cacheVars, BarredInv, CacheRespectsGovernance, BlacklistIsHonoured
<1>3. ASSUME NEW a \in Askers, NEW q \in Questions, NEW conv \in Conversations,
             NEW regen \in BOOLEAN, Arrive(a, q, conv, regen)
      PROVE  BarredInv' /\ CacheRespectsGovernance' /\ BlacklistIsHonoured'
  <2>1. q \in blacklist /\ (redisUp \/ snapshot = {}) => Barred(q)
    BY DEF Barred
  <2>2. BarredInv'
    BY <1>0, <1>3, <2>1 DEF Arrive, BarredInv
  <2>3. CASE served' = NoServing
    BY <2>2, <2>3 DEF CacheRespectsGovernance, BlacklistIsHonoured
  <2>4. CASE served' # NoServing
    <3>1. /\ redisUp /\ ~Barred(q) /\ served'.layer = "hotqa"
          /\ served'.barred = (q \in blacklist)
      BY <1>3, <2>4 DEF Arrive
    <3> QED
      BY <2>2, <3>1 DEF Barred, CacheRespectsGovernance, BlacklistIsHonoured
  <2> QED
    BY <2>3, <2>4
<1>4. ASSUME NEW a \in Askers, LookUp(a)
      PROVE  BarredInv' /\ CacheRespectsGovernance' /\ BlacklistIsHonoured'
  <2>1. BarredInv'
    BY <1>0, <1>4 DEF LookUp, Over, BarredInv
  <2>2. CASE served' = NoServing
    BY <2>1, <2>2 DEF CacheRespectsGovernance, BlacklistIsHonoured
  <2>3. ASSUME NEW layer, NEW answer, served' = Serving(layer, a, answer), Usable(answer),
               ~asked[a].skip
        PROVE  CacheRespectsGovernance' /\ BlacklistIsHonoured'
    BY <1>0, <2>3 DEF Serving, Usable, CacheRespectsGovernance, BlacklistIsHonoured
  <2> QED
    BY <1>4, <2>1, <2>2, <2>3 DEF LookUp, InRedis, InTable, ReadsRedis, ReadsTable
<1>5. ASSUME NEW a \in Askers, WriteTable(a) \/ WriteRedis(a)
      PROVE  BarredInv' /\ CacheRespectsGovernance' /\ BlacklistIsHonoured'
  <2>1. BarredInv'
    BY <1>0, <1>5 DEF WriteTable, WriteRedis, Over, BarredInv
  <2>2. served'.layer \in {"none", "llm"}
    BY <1>5 DEF WriteTable, WriteRedis, Serving
  <2> QED
    BY <2>1, <2>2 DEF CacheRespectsGovernance, BlacklistIsHonoured
<1>6. ASSUME \/ \E a \in Askers : Retrieve(a)
             \/ \E f \in backfills : Backfill(f[1], f[2])
             \/ \E q \in Questions :
                   \/ Like(q) \/ Dislike(q) \/ InvalidateOnDislike(q)
                   \/ BlacklistOnDislike(q) \/ ChangeBlacklist(q)
             \/ \E d \in Documents : Withdraw(d) \/ InvalidateForDoc(d)
             \/ PurgeRows \/ BumpVersion
             \/ \E k \in Keys : Expire(k)
             \/ RedisGoes \/ Restart
      PROVE  BarredInv' /\ CacheRespectsGovernance' /\ BlacklistIsHonoured'
  <2>1. served' = NoServing /\ (UNCHANGED asked \/ asked' = [a \in Askers |-> NoAsk])
    BY <1>6 DEF Retrieve, Backfill, Like, Dislike, InvalidateOnDislike, BlacklistOnDislike,
       ChangeBlacklist, Withdraw, InvalidateForDoc, PurgeRows, BumpVersion, Expire, RedisGoes,
       Restart
  <2> QED
    BY <1>1, <2>1
<1> QED
  BY <1>2, <1>3, <1>4, <1>5, <1>6 DEF CacheNext

-----------------------------------------------------------------------------
(* Theorems.                                                               *)

\* The invariant holds at the start ...
LEMMA Initially == CacheInit => CacheInv
<1> SUFFICES ASSUME CacheInit PROVE CacheInv
  OBVIOUS
<1> USE Nothing, CacheAssumption DEF CacheInit
<1>1. TypeInv
  BY DEF TypeInv, Versions
<1>2. HighInv
  BY DEF HighInv, EmergencyNotCached
<1>3. BarredInv /\ CacheRespectsGovernance /\ BlacklistIsHonoured
  BY DEF BarredInv, CacheRespectsGovernance, BlacklistIsHonoured
<1> QED
  BY <1>1, <1>2, <1>3 DEF CacheInv

\* ... and every step keeps it.
LEMMA Inductive == CacheInv /\ [CacheNext]_cacheVars => CacheInv'
BY TypeStep, HighStep, ServedStep DEF CacheInv

\* The caches, the requests and the background work have their types, whatever overlaps.
THEOREM CacheTypes == CacheSpec => []CacheTypeOK
<1>1. CacheInv => CacheTypeOK
  BY DEF CacheInv, TypeInv, CacheTypeOK, Stored, TableEntry
<1> QED
  BY <1>1, Initially, Inductive, PTL DEF CacheSpec

\* For any number of requests, and whatever expires, is cleaned away, goes down or restarts
\* between their steps: levels 1 and 2 give no answer that cites a document already withdrawn,
\* no cached answer goes to a question that came barred, and levels 1 and 2 hold answers of high
\* confidence only.
THEOREM CachesKept == CacheSpec => []CacheKept
<1>1. CacheInv => CacheKept
  BY DEF CacheInv, HighInv, CacheKept
<1> QED
  BY <1>1, Initially, Inductive, PTL DEF CacheSpec

-----------------------------------------------------------------------------
(* Screens.                                                                *)

ScreenLabels == {AllStations} \cup StationIds \cup Users \cup {IdOf[u] : u \in Users}
Entries == {NotThere} \cup [ch : Channels, label : ScreenLabels]
Broadcast == [no : Nat \ {0}, msg : [ch : Channels, label : ScreenLabels], due : SUBSET Sockets,
              left : SUBSET Sockets, dead : SUBSET Sockets]

\* What the proof needs to know of the types.
LayoutTypes ==
    file \in [StationIds -> Nat] /\ layout \in [StationIds -> Nat] /\ noted \in [StationIds -> Nat]

SocketTypes ==
    /\ socket \in [Sockets -> {"new", "open", "lost", "shut"}]
    /\ register \in [Sockets -> Entries]
    /\ sending \in [Senders -> {Silent} \cup Broadcast]
    /\ heard \in [Sockets -> SUBSET (Nat \ {0})]
    /\ broadcasts \in Nat

\* No file that can be read is older than what is kept of it.
FilesAhead == \A s \in StationIds : file[s] > 0 => layout[s] <= file[s]

\* Only a socket that has come is registered, and a broadcast is due to such sockets alone;
\* those it is through with have heard it, unless they are gone.
BroadcastInv ==
    /\ \A w \in Sockets : socket[w] = "new" => register[w] = NotThere
    /\ \A p \in Senders : sending[p] # Silent =>
          \A w \in sending[p].due :
              /\ socket[w] # "new"
              /\ w \notin sending[p].left /\ socket[w] = "open" => sending[p].no \in heard[w]

ScreenInv == LayoutTypes /\ FilesAhead /\ SocketTypes /\ BroadcastInv

\* At the start the invariant holds.
LEMMA ScreenStart == ScreensInit => ScreenInv
<1> SUFFICES ASSUME ScreensInit PROVE ScreenInv
  OBVIOUS
<1>1. LayoutTypes /\ FilesAhead
  BY DEF ScreensInit, LayoutTypes, FilesAhead
<1>2. SocketTypes
  BY DEF ScreensInit, SocketTypes, Entries
<1>3. BroadcastInv
  BY DEF ScreensInit, BroadcastInv
<1> QED
  BY <1>1, <1>2, <1>3 DEF ScreenInv

\* Reading a layout brings the memory forward.
LEMMA LoadAdvances ==
  ASSUME LayoutTypes, FilesAhead, file' = file,
         \/ \E s \in StationIds : LoadLayout(s)
         \/ noted' = Discovered /\ layout' = layout
         \/ UNCHANGED <<noted, layout>>
  PROVE  LayoutTypes' /\ FilesAhead' /\ LayoutsAdvance
<1>1. Discovered \in [StationIds -> Nat]
  BY DEF Discovered, LayoutTypes
<1>2. CASE \E s \in StationIds : LoadLayout(s)
  <2>1. PICK s \in StationIds : LoadLayout(s)
    BY <1>2
  <2>2. /\ noted' \in [StationIds -> Nat]
        /\ layout' = layout \/ (file[s] > 0 /\ layout' = [layout EXCEPT ![s] = file[s]])
    BY <1>1, <2>1 DEF LoadLayout, Readable, LayoutTypes
  <2> QED
    BY <2>1, <2>2 DEF LayoutTypes, FilesAhead, LayoutsAdvance
<1>3. CASE (noted' = Discovered /\ layout' = layout) \/ UNCHANGED <<noted, layout>>
  BY <1>1, <1>3 DEF LayoutTypes, FilesAhead, LayoutsAdvance
<1> QED
  BY <1>2, <1>3

\* So every step keeps what there is to say of the layouts.
LEMMA LayoutStep ==
  ASSUME LayoutTypes, FilesAhead, [LayoutsNext \/ SocketsNext]_screenVars
  PROVE  LayoutTypes' /\ FilesAhead' /\ LayoutsAdvance
<1>1. ASSUME NEW s \in StationIds, EditLayout(s) PROVE LayoutTypes' /\ FilesAhead' /\ LayoutsAdvance
  <2>1. PICK v \in {0} \cup 1..MaxEdits :
           /\ v > 0 => v > file[s] /\ v > layout[s]
           /\ file' = [file EXCEPT ![s] = v]
    BY <1>1 DEF EditLayout
  <2>2. layout' = layout /\ noted' = noted /\ v \in Nat
    BY <1>1, <2>1, ScreenAssumption DEF EditLayout
  <2> QED
    BY <2>1, <2>2 DEF LayoutTypes, FilesAhead, LayoutsAdvance
<1>2. CASE file' = file /\ (\/ \E s \in StationIds : LoadLayout(s)
                            \/ noted' = Discovered /\ layout' = layout
                            \/ UNCHANGED <<noted, layout>>)
  BY <1>2, LoadAdvances
<1>3. CASE ListStations \/ \E s \in StationIds : Look(s)
  BY <1>2, <1>3 DEF ListStations, Look
<1>4. CASE SocketsNext
  BY <1>2, <1>4 DEF SocketsNext, OpenTwin, PushAlert, OpenAlerts, Lose, Notice, OpenNotifications,
                    BroadcastAlert, EndBroadcast, Notify, SendTo, layoutVars
<1>5. CASE UNCHANGED screenVars
  BY <1>2, <1>5 DEF screenVars
<1> QED
  BY <1>1, <1>3, <1>4, <1>5 DEF LayoutsNext

\* A socket comes.
LEMMA RegisterKeeps ==
  ASSUME SocketTypes, BroadcastInv, NEW w \in Sockets, NEW ch \in Channels,
         NEW label \in ScreenLabels, Register(w, ch, label)
  PROVE  SocketTypes' /\ BroadcastInv' /\ sending' = sending
<1>1. [ch |-> ch, label |-> label] \in Entries
  BY DEF Entries
<1> QED
  BY <1>1 DEF Register, SocketTypes, BroadcastInv

\* A broadcast begins with those that are registered for it.
LEMMA BeginKeeps ==
  ASSUME SocketTypes, BroadcastInv, NEW p \in Senders, NEW ch \in Channels,
         NEW label \in ScreenLabels, BeginBroadcast(p, ch, label)
  PROVE  SocketTypes' /\ BroadcastInv' /\ sending[p] = Silent
         /\ \A q \in Senders : sending'[q] = Silent => sending[q] = Silent
<1> DEFINE msg == [ch |-> ch, label |-> label]
           due == {w \in Sockets : Concerns(msg, register[w])}
           new == [no |-> broadcasts + 1, msg |-> msg, due |-> due, left |-> due, dead |-> {}]
<1>1. /\ sending[p] = Silent /\ sending' = [sending EXCEPT ![p] = new]
      /\ broadcasts' = broadcasts + 1 /\ UNCHANGED <<socket, register, heard>>
  BY DEF BeginBroadcast
<1>2. \A w \in due : socket[w] # "new"
  BY DEF Concerns, NotThere, Channels, BroadcastInv
<1>3. new \in Broadcast /\ new.due = due /\ new.left = due
  BY DEF SocketTypes, Broadcast
<1> HIDE DEF new
<1>4. SocketTypes'
  BY <1>1, <1>3 DEF SocketTypes
<1>5. BroadcastInv'
  BY <1>1, <1>2, <1>3 DEF SocketTypes, BroadcastInv
<1> QED
  BY <1>1, <1>4, <1>5 DEF SocketTypes

\* Every step keeps what there is to say of the sockets, and a broadcast that ends has reached
\* those it was due to.
LEMMA SocketStep ==
  ASSUME SocketTypes, BroadcastInv, [LayoutsNext \/ SocketsNext]_screenVars
  PROVE  SocketTypes' /\ BroadcastInv' /\ NobodyLeftOut /\ DeadAreDropped
<1>1. ASSUME SocketTypes', BroadcastInv',
             \A q \in Senders : sending'[q] = Silent => sending[q] = Silent
      PROVE  SocketTypes' /\ BroadcastInv' /\ NobodyLeftOut /\ DeadAreDropped
  BY <1>1 DEF NobodyLeftOut, DeadAreDropped, Ended, Silent
<1>2. AllStations \in ScreenLabels /\ "alert" \in Channels /\ "twin" \in Channels
      /\ "notify" \in Channels /\ StationIds \subseteq ScreenLabels /\ Users \subseteq ScreenLabels
      /\ \A u \in Users : Subject(u) \in ScreenLabels
  BY DEF ScreenLabels, Channels, Subject
<1>3. ASSUME NEW w \in Sockets, OpenAlerts(w) \/ (\E s \in StationIds : OpenTwin(w, s))
                                \/ (\E u \in Users : OpenNotifications(w, u))
      PROVE  SocketTypes' /\ BroadcastInv' /\ NobodyLeftOut /\ DeadAreDropped
  <2>1. PICK ch \in Channels, label \in ScreenLabels : Register(w, ch, label)
    BY <1>2, <1>3 DEF OpenAlerts, OpenTwin, OpenNotifications
  <2> QED
    BY <1>1, <2>1, RegisterKeeps
<1>4. ASSUME NEW p \in Senders, BroadcastAlert(p) \/ (\E s \in StationIds : PushAlert(p, s))
                                \/ (\E u \in Users : Notify(p, u))
      PROVE  SocketTypes' /\ BroadcastInv' /\ NobodyLeftOut /\ DeadAreDropped
  <2>1. PICK ch \in Channels, label \in ScreenLabels : BeginBroadcast(p, ch, label)
    BY <1>2, <1>4 DEF BroadcastAlert, PushAlert, Notify
  <2> QED
    BY <1>1, <2>1, BeginKeeps
<1>5. ASSUME NEW w \in Sockets, Lose(w) \/ Notice(w)
      PROVE  SocketTypes' /\ BroadcastInv' /\ NobodyLeftOut /\ DeadAreDropped
  <2>1. /\ sending' = sending /\ heard' = heard /\ broadcasts' = broadcasts
        /\ socket[w] # "new"
        /\ \E state \in {"lost", "shut"} : socket' = [socket EXCEPT ![w] = state]
        /\ register' = register \/ register' = [register EXCEPT ![w] = NotThere]
    BY <1>5 DEF Lose, Notice
  <2>2. SocketTypes' /\ BroadcastInv'
    BY <2>1 DEF SocketTypes, BroadcastInv, Entries
  <2> QED
    BY <1>1, <2>1, <2>2
<1>6. ASSUME NEW p \in Senders, NEW w \in Sockets, SendTo(p, w)
      PROVE  SocketTypes' /\ BroadcastInv' /\ NobodyLeftOut /\ DeadAreDropped
  <2> DEFINE new == [sending[p] EXCEPT !.left = sending[p].left \ {w},
                                       !.dead = IF socket[w] = "open" THEN @ ELSE @ \cup {w}]
  <2>1. /\ sending[p].no > 0 /\ sending' = [sending EXCEPT ![p] = new]
        /\ heard' = IF socket[w] = "open" THEN [heard EXCEPT ![w] = @ \cup {sending[p].no}]
                    ELSE heard
        /\ UNCHANGED <<socket, register, broadcasts>>
    BY <1>6 DEF SendTo, LeftAfter
  <2>2. sending[p] \in Broadcast
    BY <2>1 DEF SocketTypes, Silent
  <2>3. /\ new \in Broadcast /\ new.no = sending[p].no /\ new.due = sending[p].due
        /\ new.left = sending[p].left \ {w}
    BY <2>2 DEF Broadcast
  <2> HIDE DEF new
  <2>4. new # Silent /\ sending[p] # Silent
    BY <2>2, <2>3 DEF Broadcast, Silent
  <2>5. /\ \A v \in Sockets : heard[v] \subseteq heard'[v]
        /\ socket[w] = "open" => new.no \in heard'[w]
        /\ heard' \in [Sockets -> SUBSET (Nat \ {0})]
    BY <2>1, <2>2, <2>3 DEF SocketTypes, Broadcast
  <2>6. SocketTypes'
    BY <2>1, <2>3, <2>5 DEF SocketTypes
  <2>7. BroadcastInv'
    <3> SUFFICES ASSUME NEW q \in Senders, sending'[q] # Silent, NEW v \in sending'[q].due
                 PROVE  /\ socket[v] # "new"
                        /\ v \notin sending'[q].left /\ socket[v] = "open"
                              => sending'[q].no \in heard'[v]
      BY <2>1 DEF BroadcastInv
    <3>1. sending[q] # Silent /\ sending'[q] \in Broadcast /\ sending'[q].due = sending[q].due
          /\ sending'[q].no = sending[q].no
          /\ sending'[q].left = IF q = p THEN sending[p].left \ {w} ELSE sending[q].left
      BY <2>1, <2>3, <2>4, <2>6 DEF SocketTypes
    <3>2. v \in Sockets
      BY <3>1 DEF Broadcast
    <3>3. CASE q = p /\ v = w
      BY <2>1, <2>3, <2>5, <3>1, <3>3 DEF BroadcastInv
    <3>4. CASE ~(q = p /\ v = w)
      <4>1. v \notin sending'[q].left => v \notin sending[q].left
        BY <3>1, <3>4
      <4> QED
        BY <2>5, <3>1, <3>2, <4>1 DEF BroadcastInv
    <3> QED
      BY <3>3, <3>4
  <2> QED
    BY <1>1, <2>1, <2>4, <2>6, <2>7 DEF SocketTypes
<1>7. ASSUME NEW p \in Senders, EndBroadcast(p)
      PROVE  SocketTypes' /\ BroadcastInv' /\ NobodyLeftOut /\ DeadAreDropped
  <2>1. /\ sending[p].no > 0 /\ sending[p].left = {}
        /\ register' = [w \in Sockets |-> IF w \in sending[p].dead THEN NotThere ELSE register[w]]
        /\ sending' = [sending EXCEPT ![p] = Silent]
        /\ UNCHANGED <<socket, heard, broadcasts>>
    BY <1>7 DEF EndBroadcast
  <2>2. sending[p] \in Broadcast /\ sending[p] # Silent
    BY <2>1 DEF SocketTypes, Silent
  <2>3. SocketTypes'
    BY <2>1 DEF SocketTypes, Entries
  <2>4. BroadcastInv'
    BY <2>1 DEF SocketTypes, BroadcastInv
  <2>5. \A q \in Senders : Ended(q) => q = p
    BY <2>1 DEF Ended, Silent, SocketTypes
  <2>6. NobodyLeftOut
    BY <2>1, <2>2, <2>5 DEF NobodyLeftOut, BroadcastInv
  <2>7. DeadAreDropped
    BY <2>1, <2>2, <2>5 DEF DeadAreDropped, Broadcast
  <2> QED
    BY <2>3, <2>4, <2>6, <2>7
<1>8. CASE LayoutsNext \/ UNCHANGED screenVars
  <2>1. UNCHANGED <<socket, register, sending, heard, broadcasts>>
    BY <1>8 DEF LayoutsNext, ListStations, EditLayout, Look, screenVars, socketVars
  <2>2. SocketTypes' /\ BroadcastInv'
    BY <2>1 DEF SocketTypes, BroadcastInv
  <2> QED
    BY <1>1, <2>1, <2>2
<1> QED
  BY <1>3, <1>4, <1>5, <1>6, <1>7, <1>8 DEF SocketsNext

\* For any number of sockets, senders and stations: whoever is open from the beginning of a
\* broadcast that concerns it to its end has heard it, those found dead are tried no more, and
\* the memory of a layout never goes back.
THEOREM ScreensStayKept == ScreensSpec => ScreensKept
<1>1. ScreenInv /\ [LayoutsNext \/ SocketsNext]_screenVars
        => ScreenInv' /\ NobodyLeftOut /\ DeadAreDropped /\ LayoutsAdvance
  BY LayoutStep, SocketStep DEF ScreenInv
<1> QED
  BY <1>1, ScreenStart, PTL DEF ScreensSpec, ScreensKept

-----------------------------------------------------------------------------
(* Processes.                                                              *)

\* StartOrder, written out.
Order == <<"mysql", "nacos", "tables", "columns", "look", "admin",
           "minio", "milvus", "memory", "bge", "neo4j", "otel", "mcp", "series", "config",
           "health", "llm", "warmup", "cleanup", "metrics",
           "prewarm", "archive", "backup", "workers",
           "evolution", "gap", "fix_rate", "decay", "reconcile", "report", "sweep", "eval">>

Steps == {"mysql", "nacos", "tables", "columns", "look", "admin",
          "minio", "milvus", "memory", "bge", "neo4j", "otel", "mcp", "series", "config",
          "health", "llm", "warmup", "cleanup", "metrics",
          "prewarm", "archive", "backup", "workers",
          "evolution", "gap", "fix_rate", "decay", "reconcile", "report", "sweep", "eval"}

Beyond == {"up", "draining", "closing", "down", "aborted"}

\* The steps of a start are all different, and different from where it leads.
LEMMA OrderTyped ==
  /\ Order \in Seq(Steps) /\ Len(Order) = 32 /\ Order = [i \in 1..32 |-> Order[i]]
  /\ \A i, j \in 1..32 : Order[i] = Order[j] => i = j
  /\ \A i \in 1..32 : Order[i] \notin Beyond
<1>1. Len(Order) = 32 /\ Order \in Seq(Steps) /\ Order = [i \in 1..32 |-> Order[i]]
  BY DEF Order, Steps
<1>2. \A i, j \in 1..32 : Order[i] = Order[j] => i = j
  BY DEF Order
<1>3. \A i \in 1..32 : Order[i] \notin Beyond
  BY DEF Order, Beyond
<1> QED
  BY <1>1, <1>2, <1>3

\* The i-th step.
Nth(i) == Order[i]

LEMMA NthApart ==
  /\ \A i \in 1..32 : Nth(i) \in Steps /\ Nth(i) \notin Beyond
  /\ \A i, j \in 1..32 : Nth(i) = Nth(j) => i = j
<1>1. \A i \in 1..32 : Nth(i) \in Steps
  BY DEF Nth, Order, Steps
<1>2. \A i \in 1..32 : Nth(i) \notin Beyond
  BY DEF Nth, Order, Beyond
<1>3. \A i, j \in 1..32 : Nth(i) = Nth(j) => i = j
  BY DEF Nth, Order
<1> QED
  BY <1>1, <1>2, <1>3

\* The first n steps.
First(n) == [i \in 1..n |-> Order[i]]

LEMMA FirstTyped ==
  ASSUME NEW n \in 0..32
  PROVE  First(n) \in Seq(Steps) /\ Len(First(n)) = n /\ \A i \in 1..n : First(n)[i] = Order[i]
<1>1. \A i \in 1..n : Order[i] \in Steps
  BY OrderTyped, SMTT(30)
<1>2. First(n) \in [1..n -> Steps]
  BY <1>1 DEF First
<1> QED
  BY <1>2, SeqDef DEF First

\* The first n steps and those that come next are the first steps.
LEMMA Joined ==
  ASSUME NEW n \in Nat, NEW l \in Nat, n + l \in 0..32, NEW t \in Seq(Steps), Len(t) = l,
         \A k \in 1..l : t[k] = Order[n + k]
  PROVE  First(n) \o t = First(n + l)
<1>1. n \in 0..32
  OBVIOUS
<1> DEFINE s == First(n)
           u == First(n + l)
<1>2. /\ s \in Seq(Steps) /\ Len(s) = n /\ \A i \in 1..n : s[i] = Order[i]
      /\ u \in Seq(Steps) /\ Len(u) = n + l /\ \A i \in 1..(n + l) : u[i] = Order[i]
  BY <1>1, FirstTyped
<1> HIDE DEF s, u
<1>3. s \o t \in Seq(Steps) /\ Len(s \o t) = Len(u)
  BY <1>2, ConcatProperties
<1>4. ASSUME NEW i \in 1..Len(u) PROVE (s \o t)[i] = u[i]
  <2>1. CASE i <= n
    BY <1>1, <1>2, <2>1, ConcatProperties
  <2>2. CASE i > n
    <3>1. i - n \in 1..l /\ n + (i - n) = i
      BY <1>1, <1>2, <2>2
    <3>2. i \in 1..(Len(s) + Len(t)) /\ ~(i <= Len(s))
      BY <1>2, <2>2
    <3>3. (s \o t)[i] = t[i - Len(s)]
      BY <1>2, <3>2, ConcatProperties
    <3> QED
      BY <1>2, <3>1, <3>3
  <2> QED
    BY <1>1, <1>2, <2>1, <2>2
<1>5. s \o t = u
  BY <1>2, <1>3, <1>4, SeqEqual
<1> QED
  BY <1>5 DEF s, u

\* The order of the start is the one written out.
LEMMA OrderIs == StartOrder = Order
<1> DEFINE o == <<"mysql", "nacos", "tables", "columns", "look", "admin">>
           m == <<"prewarm", "archive", "backup", "workers">>
<1>1. o = First(6)
  BY DEF First, Order
<1>2. First(6) \o Components = First(15)
  <2>1. /\ Components \in Seq(Steps) /\ Len(Components) = 9
        /\ \A k \in 1..9 : Components[k] = Order[6 + k]
    BY DEF Components, Order, Steps
  <2>2. 6 \in Nat /\ 9 \in Nat /\ 6 + 9 \in 0..32 /\ 6 + 9 = 15
    OBVIOUS
  <2>3. First(6) \o Components = First(6 + 9)
    BY <2>1, <2>2, Joined
  <2> QED
    BY <2>2, <2>3
<1>3. First(15) \o EarlyLoops = First(20)
  <2>1. /\ EarlyLoops \in Seq(Steps) /\ Len(EarlyLoops) = 5
        /\ \A k \in 1..5 : EarlyLoops[k] = Order[15 + k]
    BY DEF EarlyLoops, Order, Steps
  <2>2. 15 \in Nat /\ 5 \in Nat /\ 15 + 5 \in 0..32 /\ 15 + 5 = 20
    OBVIOUS
  <2>3. First(15) \o EarlyLoops = First(15 + 5)
    BY <2>1, <2>2, Joined
  <2> QED
    BY <2>2, <2>3
<1>4. First(20) \o m = First(24)
  <2>1. m \in Seq(Steps) /\ Len(m) = 4 /\ \A k \in 1..4 : m[k] = Order[20 + k]
    BY DEF Order, Steps
  <2>2. 20 \in Nat /\ 4 \in Nat /\ 20 + 4 \in 0..32 /\ 20 + 4 = 24
    OBVIOUS
  <2>3. First(20) \o m = First(20 + 4)
    BY <2>1, <2>2, Joined
  <2> QED
    BY <2>2, <2>3
<1>5. First(24) \o LateLoops = First(32)
  <2>1. /\ LateLoops \in Seq(Steps) /\ Len(LateLoops) = 8
        /\ \A k \in 1..8 : LateLoops[k] = Order[24 + k]
    BY DEF LateLoops, Order, Steps
  <2>2. 24 \in Nat /\ 8 \in Nat /\ 24 + 8 \in 0..32 /\ 24 + 8 = 32
    OBVIOUS
  <2>3. First(24) \o LateLoops = First(24 + 8)
    BY <2>1, <2>2, Joined
  <2> QED
    BY <2>2, <2>3
<1>6. First(32) = Order
  BY OrderTyped DEF First
<1>7. StartOrder = o \o Components \o EarlyLoops \o m \o LateLoops
  BY DEF StartOrder
<1> HIDE DEF o, m
<1> QED
  BY <1>1, <1>2, <1>3, <1>4, <1>5, <1>6, <1>7

\* After a step of the start comes the next one, and after the last the process is up.
LEMMA AfterStep ==
  ASSUME NEW i \in 1..32
  PROVE  After(Nth(i)) = IF i = 32 THEN "up" ELSE Nth(i + 1)
<1>1. DOMAIN Order = 1..32
  BY OrderTyped
<1>2. (CHOOSE j \in DOMAIN StartOrder : StartOrder[j] = Order[i]) = i
  BY <1>1, OrderIs, OrderTyped
<1> QED
  BY <1>2, OrderIs, OrderTyped DEF After, Nth

\* Where the components and the loops are in the order.
LEMMA OrderPlaces ==
  /\ \A c \in Range(Components) : \E i \in 7..15 : c = Order[i]
  /\ \A c \in Before("minio") : \E i \in 1..6 : c = Order[i]
  /\ \A l \in Loops : \E i \in 16..32 : l = Order[i]
<1>1. ASSUME NEW c \in Range(Components) PROVE \E i \in 7..15 : c = Order[i]
  <2>1. PICK k \in 1..9 : c = Components[k]
    <3>1. DOMAIN Components = 1..9
      BY DEF Components
    <3> QED
      BY <1>1, <3>1 DEF Range
  <2>2. Components[k] = Order[6 + k] /\ 6 + k \in 7..15
    BY DEF Components, Order
  <2> QED
    BY <2>1, <2>2
<1>2. ASSUME NEW c \in Before("minio") PROVE \E i \in 1..6 : c = Order[i]
  <2>1. DOMAIN Order = 1..32 /\ Len(Order) = 32 /\ Order[7] = "minio"
    BY DEF Order
  <2>2. PICK i \in 1..32 : c = Order[i] /\ \E k \in (i + 1)..32 : Order[k] = "minio"
    BY <1>2, <2>1, OrderIs DEF Before
  <2>3. i + 1 <= 7
    BY <2>1, <2>2, OrderTyped, SMTT(30)
  <2> QED
    BY <2>2, <2>3
<1>3. ASSUME NEW l \in Loops PROVE \E i \in 16..32 : l = Order[i]
  <2>1. CASE l \in Range(EarlyLoops)
    <3>1. PICK k \in 1..5 : l = EarlyLoops[k]
      <4>1. DOMAIN EarlyLoops = 1..5
        BY DEF EarlyLoops
      <4> QED
        BY <2>1, <4>1 DEF Range
    <3>2. EarlyLoops[k] = Order[15 + k] /\ 15 + k \in 16..32
      BY DEF EarlyLoops, Order
    <3> QED
      BY <3>1, <3>2
  <2>2. CASE l \in Range(LateLoops)
    <3>1. PICK k \in 1..8 : l = LateLoops[k]
      <4>1. DOMAIN LateLoops = 1..8
        BY DEF LateLoops
      <4> QED
        BY <2>2, <4>1 DEF Range
    <3>2. LateLoops[k] = Order[24 + k] /\ 24 + k \in 16..32
      BY DEF LateLoops, Order
    <3> QED
      BY <3>1, <3>2
  <2>3. CASE l \in {"archive", "backup"}
    <3>1. Order[22] = "archive" /\ Order[23] = "backup"
      BY DEF Order
    <3> QED
      BY <2>3, <3>1
  <2> QED
    BY <1>3, <2>1, <2>2, <2>3 DEF Loops
<1> QED
  BY <1>1, <1>2, <1>3

LEMMA StepPlaces ==
  /\ \A c \in Range(Components) : \E i \in 7..15 : c = Nth(i)
  /\ \A c \in Before("minio") : \E i \in 1..6 : c = Nth(i)
  /\ \A l \in Loops : \E i \in 16..32 : l = Nth(i)
BY OrderPlaces DEF Nth

Saved == [ef : Values \cup {Unset}]

\* What the proof needs to know of the types.
LifeTypes ==
    /\ place \in [Procs -> Steps \cup Beyond]
    /\ tasks \in [Procs -> SUBSET (Loops \cup Workers)]
    /\ admins \in 0..1
    /\ savedDoc \in Saved /\ hot \in [Procs -> Values]
    /\ saving \in [Admins -> {NoChange} \cup [p : Procs, doc : Saved]]
    /\ astray \subseteq Procs

\* What is there when a process is at a step of its start or beyond it: the tables after
\* their step, the administrator after its step, no task before the components are tried and
\* no worker before the workers' step.
StageOk(stage, running, made, count) ==
    /\ \A i \in 1..32 : stage = Nth(i) =>
          /\ i > 3 => made
          /\ i > 6 => count = 1
          /\ i <= 15 => running = {}
          /\ i <= 24 => running \cap Workers = {}
    /\ stage \in {"up", "draining"} => made /\ count = 1
    /\ stage \in {"closing", "down", "aborted"} => running = {}

StageInv == \A p \in Procs : StageOk(place[p], tasks[p], tables, admins)

\* Where the configuration has been loaded.
Loaded(stage) == stage = "up" \/ \E i \in 16..32 : stage = Nth(i)

\* What p works with is what Redis holds, or one change of p is about to make it so.
HotOk(p) ==
    \/ (\A a \in Admins : saving[a] = NoChange) /\ hot[p] = EfOf(savedDoc)
    \/ \E a \in Admins : /\ saving[a] = [p |-> p, doc |-> savedDoc] /\ savedDoc.ef # Unset
                         /\ \A b \in Admins \ {a} : saving[b] = NoChange

HotInv == \A p \in Procs : Loaded(place[p]) /\ p \notin astray => HotOk(p)

LifeInv == LifeTypes /\ StageInv /\ HotInv

\* What the invariant says of the processes.
LEMMA LifeSafe == LifeInv => LifespanHolds
<1> SUFFICES ASSUME LifeInv PROVE LifespanHolds
  OBVIOUS
<1>1. ASSUME NEW p \in Procs, tasks[p] \cap Workers # {}
      PROVE  tables /\ admins = 1 /\ place[p] \notin Range(Components) \cup Before("minio")
  <2>1. StageOk(place[p], tasks[p], tables, admins) /\ place[p] \in Steps \cup Beyond
    BY DEF LifeInv, LifeTypes, StageInv
  <2>2. CASE place[p] \in Steps
    <3>1. PICK i \in 1..32 : place[p] = Nth(i)
      <4>1. \A s \in Steps : \E j \in 1..32 : s = Nth(j)
        BY DEF Steps, Order, Nth
      <4> QED
        BY <2>2, <4>1
    <3>2. i > 24 /\ tables /\ admins = 1
      BY <1>1, <2>1, <3>1 DEF StageOk
    <3> QED
      BY <3>1, <3>2, StepPlaces, NthApart
  <2>3. CASE place[p] \in Beyond
    <3>1. tables /\ admins = 1
      BY <1>1, <2>1, <2>3 DEF StageOk, Beyond
    <3> QED
      BY <2>3, <3>1, StepPlaces, NthApart
  <2> QED
    BY <2>1, <2>2, <2>3
<1>2. ServesOnADatabase
  BY <1>1 DEF ServesOnADatabase, LifeInv, StageInv, StageOk
<1>3. WorkersComeLast
  BY <1>1 DEF WorkersComeLast
<1>4. ToldBeforeClosed
  BY DEF ToldBeforeClosed, LifeInv, StageInv, StageOk
<1>5. HotIsStored
  <2> SUFFICES ASSUME NEW p \in Procs, place[p] = "up", p \notin astray,
                      \A a \in Admins : saving[a] = NoChange
               PROVE  hot[p] = EfOf(savedDoc)
    BY DEF HotIsStored
  <2>1. HotOk(p)
    BY DEF LifeInv, HotInv, Loaded
  <2> QED
    BY <2>1 DEF HotOk, NoChange
<1> QED
  BY <1>2, <1>3, <1>4, <1>5 DEF LifespanHolds

\* At the start the invariant holds.
LEMMA LifeStart == LifespanInit => LifeInv
<1> SUFFICES ASSUME LifespanInit PROVE LifeInv
  OBVIOUS
<1>1. LifeTypes
  <2>1. place \in [Procs -> Steps \cup Beyond]
    BY DEF LifespanInit, Beyond
  <2>2. savedDoc \in Saved /\ hot \in [Procs -> Values]
    <3>1. Unset \in Values \cup {Unset} /\ 0 \in Values
      BY DEF Values
    <3>2. savedDoc = [ef |-> Unset] /\ hot = [p \in Procs |-> 0]
      BY DEF LifespanInit
    <3> QED
      BY ONLY <3>1, <3>2 DEF Saved
  <2>3. tasks \in [Procs -> SUBSET (Loops \cup Workers)] /\ admins \in 0..1
    BY DEF LifespanInit
  <2>4. saving \in [Admins -> {NoChange} \cup [p : Procs, doc : Saved]] /\ astray \subseteq Procs
    BY DEF LifespanInit
  <2> QED
    BY <2>1, <2>2, <2>3, <2>4 DEF LifeTypes
<1>2. "down" \notin {"up", "draining"} /\ \A i \in 1..32 : Nth(i) # "down"
  BY NthApart DEF Beyond
<1>3. StageInv
  BY <1>2 DEF LifespanInit, StageInv, StageOk
<1>4. HotInv
  BY <1>2 DEF LifespanInit, HotInv, Loaded
<1> QED
  BY <1>1, <1>3, <1>4 DEF LifeInv

\* A process that gets somewhere disturbs no other.
LEMMA GetsThere ==
  ASSUME LifeTypes, StageInv, NEW p \in Procs, NEW new \in Steps \cup Beyond,
         place' = [place EXCEPT ![p] = new],
         tasks' \in [Procs -> SUBSET (Loops \cup Workers)],
         \A q \in Procs \ {p} : tasks'[q] = tasks[q],
         tables => tables', admins = 1 => admins' = 1,
         StageOk(new, tasks'[p], tables', admins')
  PROVE  StageInv' /\ place' \in [Procs -> Steps \cup Beyond]
<1>1. /\ place' \in [Procs -> Steps \cup Beyond] /\ place'[p] = new
      /\ \A q \in Procs \ {p} : place'[q] = place[q]
  BY DEF LifeTypes
<1>2. ASSUME NEW q \in Procs PROVE StageOk(place'[q], tasks'[q], tables', admins')
  <2>1. CASE q = p
    BY <1>1, <2>1
  <2>2. CASE q # p
    <3>1. StageOk(place[q], tasks[q], tables, admins) /\ place'[q] = place[q]
          /\ tasks'[q] = tasks[q]
      BY <1>1, <2>2 DEF StageInv
    <3> QED
      BY <3>1 DEF StageOk
  <2> QED
    BY <2>1, <2>2
<1> QED
  BY <1>1, <1>2 DEF StageInv

\* A step of the start leads to the next with what the next needs.
LEMMA NextOk ==
  ASSUME LifeTypes, StageInv, NEW p \in Procs, NEW i \in 1..32, place[p] = Nth(i),
         NEW running, NEW made, NEW count,
         tables => made, admins = 1 => count = 1,
         i = 3 => made, i = 6 => count = 1,
         i <= 14 => running = tasks[p], i <= 23 => running \cap Workers = tasks[p] \cap Workers
  PROVE  StageOk(After(Nth(i)), running, made, count) /\ After(Nth(i)) \in Steps \cup Beyond
<1>1. StageOk(Nth(i), tasks[p], tables, admins)
  BY DEF StageInv
<1>2. CASE i = 32
  <2>1. After(Nth(i)) = "up" /\ tables /\ admins = 1
    BY <1>1, <1>2, AfterStep DEF StageOk
  <2>2. "up" \in Beyond /\ "up" \notin {"closing", "down", "aborted"}
    BY DEF Beyond
  <2> QED
    BY <2>1, <2>2, NthApart DEF StageOk
<1>3. CASE i # 32
  <2>1. After(Nth(i)) = Nth(i + 1) /\ i + 1 \in 1..32
    BY <1>3, AfterStep
  <2>2. Nth(i + 1) \in Steps /\ Nth(i + 1) \notin Beyond
    BY <2>1, NthApart
  <2>3. /\ i + 1 > 3 => made
        /\ i + 1 > 6 => count = 1
        /\ i + 1 <= 15 => running = {}
        /\ i + 1 <= 24 => running \cap Workers = {}
    BY <1>1, <1>3 DEF StageOk
  <2> QED
    BY <2>1, <2>2, <2>3, NthApart DEF StageOk, Beyond
<1> QED
  BY <1>2, <1>3

\* Every step keeps what there is where the processes are.
LEMMA StageStep ==
  ASSUME LifeTypes, StageInv, [LifespanNext]_lifeVars
  PROVE  /\ StageInv' /\ place' \in [Procs -> Steps \cup Beyond]
         /\ tasks' \in [Procs -> SUBSET (Loops \cup Workers)] /\ admins' \in 0..1
<1> DEFINE Still == /\ StageInv' /\ place' \in [Procs -> Steps \cup Beyond]
                   /\ tasks' \in [Procs -> SUBSET (Loops \cup Workers)] /\ admins' \in 0..1
<1>1. /\ tasks \in [Procs -> SUBSET (Loops \cup Workers)] /\ admins \in 0..1
      /\ \A p \in Procs : StageOk(place[p], tasks[p], tables, admins)
  BY DEF LifeTypes, StageInv
<1>2. ASSUME NEW p \in Procs, NEW i \in 1..32, place[p] = Nth(i), StepTo(p, After(Nth(i))),
             tasks' \in [Procs -> SUBSET (Loops \cup Workers)],
             \A q \in Procs \ {p} : tasks'[q] = tasks[q],
             tables => tables', admins' \in 0..1, admins = 1 => admins' = 1,
             i = 3 => tables', i = 6 => admins' = 1, i <= 14 => tasks'[p] = tasks[p],
             i <= 23 => tasks'[p] \cap Workers = tasks[p] \cap Workers
      PROVE  Still
  <2>1. /\ StageOk(After(Nth(i)), tasks'[p], tables', admins')
        /\ After(Nth(i)) \in Steps \cup Beyond
    BY <1>2, NextOk
  <2> QED
    BY <1>2, <2>1, GetsThere DEF StepTo
<1>3. ASSUME NEW p \in Procs, StepTo(p, "aborted"), UNCHANGED <<tasks, tables, admins>>,
             tasks[p] = {}
      PROVE  Still
  <2>1. "aborted" \in Beyond /\ StageOk("aborted", tasks'[p], tables', admins')
    BY <1>3, NthApart DEF StageOk, Beyond
  <2> QED
    BY <1>1, <1>3, <2>1, GetsThere DEF StepTo
<1>4. /\ Nth(1) = "mysql" /\ Nth(2) = "nacos" /\ Nth(3) = "tables" /\ Nth(4) = "columns"
      /\ Nth(5) = "look" /\ Nth(6) = "admin" /\ Nth(21) = "prewarm" /\ Nth(24) = "workers"
  BY DEF Order, Nth
<1>5. \A p \in Procs : \A i \in 1..32 : place[p] = Nth(i) /\ i <= 15 => tasks[p] = {}
  BY <1>1 DEF StageOk
<1>6. ASSUME NEW p \in Procs, Start(p) PROVE Still
  <2>1. tasks[p] = {} /\ StepTo(p, "mysql") /\ UNCHANGED <<tasks, tables, admins>>
    BY <1>1, <1>6 DEF Start, StageOk, dbVars
  <2>2. Nth(1) \in Steps /\ StageOk(Nth(1), tasks'[p], tables', admins')
    BY <2>1, NthApart DEF StageOk, Beyond
  <2> QED
    BY <1>1, <1>4, <2>1, <2>2, GetsThere DEF StepTo
<1>7. ASSUME NEW p \in Procs, WaitForMySQL(p) PROVE Still
  <2>1. place[p] = Nth(1) /\ tasks[p] = {} /\ UNCHANGED <<tasks, tables, admins>>
    BY <1>4, <1>5, <1>7 DEF WaitForMySQL, dbVars
  <2>2. CASE StepTo(p, After("mysql"))
    BY <1>1, <1>2, <1>4, <2>1, <2>2
  <2>3. CASE StepTo(p, "aborted")
    BY <1>3, <2>1, <2>3
  <2>4. CASE place' = place
    BY <1>1, <2>1, <2>4 DEF StageInv, LifeTypes
  <2> QED
    BY <1>7, <2>2, <2>3, <2>4 DEF WaitForMySQL, Aborts
<1>8. ASSUME NEW p \in Procs, Override(p) \/ AddColumns(p) \/ Prewarm(p) PROVE Still
  <2>1. PICK i \in {2, 4, 21} : place[p] = Nth(i) /\ StepTo(p, After(Nth(i)))
    BY <1>4, <1>8 DEF Override, AddColumns, Prewarm, Proceeds
  <2>2. UNCHANGED <<tasks, tables, admins>>
    BY <1>8 DEF Override, AddColumns, Prewarm, dbVars
  <2> QED
    BY <1>1, <1>2, <2>1, <2>2
<1>9. ASSUME NEW p \in Procs, MakeTables(p) PROVE Still
  <2>1. place[p] = Nth(3) /\ tasks[p] = {} /\ UNCHANGED <<tasks, admins>>
    BY <1>4, <1>5, <1>9 DEF MakeTables
  <2>2. CASE StepTo(p, "columns") /\ tables' = TRUE
    <3>1. After(Nth(3)) = "columns"
      BY <1>4, AfterStep
    <3> QED
      BY <1>1, <1>2, <2>1, <2>2, <3>1
  <2>3. CASE StepTo(p, "aborted") /\ tables' = tables
    BY <1>3, <2>1, <2>3
  <2> QED
    BY <1>9, <2>2, <2>3 DEF MakeTables, Aborts
<1>10. ASSUME NEW p \in Procs, LookForAdmin(p) PROVE Still
  <2>1. /\ place[p] = Nth(5) /\ UNCHANGED <<tasks, tables, admins>>
        /\ StepTo(p, IF admins = 0 THEN "admin" ELSE After("admin"))
    BY <1>4, <1>10 DEF LookForAdmin, dbVars
  <2>2. CASE admins = 0
    <3>1. After(Nth(5)) = "admin"
      BY <1>4, AfterStep
    <3> QED
      BY <1>1, <1>2, <2>1, <2>2, <3>1
  <2>3. CASE admins # 0
    <3>1. After("admin") = Nth(7) /\ Nth(7) \in Steps
      BY <1>4, AfterStep, NthApart
    <3>2. tables /\ tasks[p] = {} /\ admins = 1
      BY <1>1, <1>5, <2>1, <2>3 DEF StageOk
    <3>3. StageOk(Nth(7), tasks'[p], tables', admins')
      BY <2>1, <3>2, NthApart DEF StageOk, Beyond
    <3> QED
      BY <1>1, <2>1, <2>3, <3>1, <3>3, GetsThere DEF StepTo
  <2> QED
    BY <2>2, <2>3
<1>11. ASSUME NEW p \in Procs, MakeAdmin(p) PROVE Still
  <2>1. place[p] = Nth(6) /\ tasks[p] = {} /\ UNCHANGED <<tasks, tables>>
    BY <1>4, <1>5, <1>11 DEF MakeAdmin
  <2>2. CASE StepTo(p, After("admin")) /\ admins' = 1
    BY <1>1, <1>2, <1>4, <2>1, <2>2
  <2>3. CASE StepTo(p, "aborted") /\ admins' = admins
    BY <1>3, <2>1, <2>3
  <2> QED
    BY <1>11, <2>2, <2>3 DEF MakeAdmin
<1>12. ASSUME NEW p \in Procs, Initialise(p) PROVE Still
  <2>1. PICK i \in 7..15 : place[p] = Nth(i)
    BY <1>12, StepPlaces DEF Initialise
  <2>2. StepTo(p, After(Nth(i))) /\ UNCHANGED <<tasks, tables, admins>>
    BY <1>12, <2>1 DEF Initialise, dbVars
  <2> QED
    BY <1>1, <1>2, <2>1, <2>2
<1>13. ASSUME NEW p \in Procs, StartLoop(p) PROVE Still
  <2>1. PICK i \in 16..32 : place[p] = Nth(i)
    BY <1>13, StepPlaces DEF StartLoop
  <2>2. /\ place[p] \in Loops /\ StepTo(p, After(Nth(i))) /\ UNCHANGED <<tables, admins>>
        /\ tasks' = [tasks EXCEPT ![p] = @ \cup ({place[p]} \cap (loopsOn \cup {"health"}))]
    BY <1>13, <2>1 DEF StartLoop, dbVars
  <2>3. place[p] \notin Workers
    <3>1. \A k \in 1..32 : Nth(k) # "dispatcher"
      BY DEF Order, Nth
    <3> QED
      BY <2>1, <2>2, <3>1, NamesApart DEF Workers
  <2>4. /\ tasks' \in [Procs -> SUBSET (Loops \cup Workers)]
        /\ \A q \in Procs \ {p} : tasks'[q] = tasks[q]
        /\ tasks'[p] \cap Workers = tasks[p] \cap Workers
    BY <1>1, <2>2, <2>3
  <2> QED
    BY <1>1, <1>2, <2>1, <2>2, <2>4, SMTT(30)
<1>14. ASSUME NEW p \in Procs, StartWorkers(p) PROVE Still
  <2>1. /\ place[p] = Nth(24) /\ StepTo(p, After(Nth(24))) /\ UNCHANGED <<tables, admins>>
        /\ tasks' = tasks \/ tasks' = [tasks EXCEPT ![p] = @ \cup Workers]
    BY <1>4, <1>14 DEF StartWorkers, Proceeds, dbVars
  <2>2. /\ tasks' \in [Procs -> SUBSET (Loops \cup Workers)]
        /\ \A q \in Procs \ {p} : tasks'[q] = tasks[q]
    BY <1>1, <2>1
  <2> QED
    BY <1>1, <1>2, <2>1, <2>2
<1>15. ASSUME NEW p \in Procs, NEW new \in {"draining", "closing", "down"},
              place' = [place EXCEPT ![p] = new], UNCHANGED <<tables, admins>>,
              tasks' \in [Procs -> SUBSET (Loops \cup Workers)],
              \A q \in Procs \ {p} : tasks'[q] = tasks[q],
              new = "draining" => tables /\ admins = 1, new # "draining" => tasks'[p] = {}
       PROVE  Still
  <2>1. new \in Beyond /\ StageOk(new, tasks'[p], tables', admins')
    BY <1>15, NthApart DEF StageOk, Beyond
  <2> QED
    BY <1>1, <1>15, <2>1, GetsThere
<1>16. ASSUME NEW p \in Procs, Stop(p) PROVE Still
  <2>1. /\ place' = [place EXCEPT ![p] = "draining"] /\ UNCHANGED <<tasks, tables, admins>>
        /\ tables /\ admins = 1
    BY <1>1, <1>16 DEF Stop, StepTo, StageOk, dbVars
  <2> QED
    BY <1>1, <1>15, <2>1
<1>17. ASSUME NEW p \in Procs, CancelWorkers(p) \/ \E w \in Workers : WorkerEnds(p, w) PROVE Still
  <2>1. /\ place[p] = "draining" /\ UNCHANGED <<tables, admins>>
        /\ \E gone \in SUBSET Workers : tasks' = [tasks EXCEPT ![p] = @ \ gone]
        /\ place' = place
    BY <1>17 DEF CancelWorkers, WorkerEnds, dbVars
  <2>2. /\ tasks' \in [Procs -> SUBSET (Loops \cup Workers)]
        /\ \A q \in Procs \ {p} : tasks'[q] = tasks[q]
        /\ place' = [place EXCEPT ![p] = "draining"] /\ tables /\ admins = 1
    BY <1>1, <2>1 DEF LifeTypes, StageOk
  <2> QED
    BY <1>15, <2>1, <2>2
<1>18. ASSUME NEW p \in Procs, CancelLoops(p) PROVE Still
  <2>1. /\ place' = [place EXCEPT ![p] = "closing"] /\ UNCHANGED <<tables, admins>>
        /\ tasks[p] \cap Workers = {} /\ tasks' = [tasks EXCEPT ![p] = @ \ Loops]
    BY <1>18 DEF CancelLoops, StepTo, Cancelled, dbVars
  <2>2. /\ tasks' \in [Procs -> SUBSET (Loops \cup Workers)] /\ tasks'[p] = {}
        /\ \A q \in Procs \ {p} : tasks'[q] = tasks[q]
    BY <1>1, <2>1
  <2> QED
    BY <1>15, <2>1, <2>2
<1>19. ASSUME NEW p \in Procs, CloseClients(p) \/ Kill(p) PROVE Still
  <2>1. /\ place' = [place EXCEPT ![p] = "down"] /\ UNCHANGED <<tables, admins>>
        /\ tasks' = [tasks EXCEPT ![p] = {}]
    BY <1>19 DEF CloseClients, Kill, ProcessEnds, StepTo, dbVars
  <2>2. /\ tasks' \in [Procs -> SUBSET (Loops \cup Workers)] /\ tasks'[p] = {}
        /\ \A q \in Procs \ {p} : tasks'[q] = tasks[q]
    BY <1>1, <2>1
  <2> QED
    BY <1>15, <2>1, <2>2
<1>20. ASSUME UNCHANGED <<place, tasks, tables, admins>> PROVE Still
  BY <1>1, <1>20 DEF StageInv, LifeTypes
<1>21. ASSUME Fade \/ (\E a \in Admins : SetHot(a) \/ \E p \in Procs, v \in Values \cup {Unset} :
                                                       Save(p, a, [ef |-> v]))
              \/ (\E p \in Procs : ReadConfig(p)) \/ UNCHANGED lifeVars
       PROVE  Still
  <2>1. UNCHANGED <<place, tasks, tables, admins>>
    BY <1>21 DEF Fade, SetHot, Save, ReadConfig, lifeVars, dbVars
  <2> QED
    BY <1>20, <2>1
<1> QED
  BY <1>6, <1>7, <1>8, <1>9, <1>10, <1>11, <1>12, <1>13, <1>14, <1>16, <1>17, <1>18, <1>19, <1>21
     DEF LifespanNext

\* Only the step that loads the configuration leads to where it has been loaded.
LEMMA LoadedAfter ==
  ASSUME NEW i \in 1..32, i # 15, Loaded(After(Nth(i)))
  PROVE  Loaded(Nth(i))
<1>1. CASE i >= 16
  BY <1>1 DEF Loaded
<1>2. CASE i < 15
  <2>1. After(Nth(i)) = Nth(i + 1) /\ i + 1 \in 1..15
    BY <1>2, AfterStep
  <2>2. Nth(i + 1) # "up" /\ \A k \in 16..32 : Nth(i + 1) # Nth(k)
    BY <2>1, NthApart DEF Beyond
  <2> QED
    BY <2>1, <2>2 DEF Loaded
<1> QED
  BY <1>1, <1>2

\* Every step keeps what there is of the configuration.
LEMMA HotStep ==
  ASSUME LifeTypes, HotInv, [LifespanNext]_lifeVars
  PROVE  /\ HotInv' /\ savedDoc' \in Saved /\ hot' \in [Procs -> Values]
         /\ saving' \in [Admins -> {NoChange} \cup [p : Procs, doc : Saved]]
         /\ astray' \subseteq Procs
<1> DEFINE Still == /\ HotInv' /\ savedDoc' \in Saved /\ hot' \in [Procs -> Values]
                   /\ saving' \in [Admins -> {NoChange} \cup [p : Procs, doc : Saved]]
                   /\ astray' \subseteq Procs
<1>1. /\ place \in [Procs -> Steps \cup Beyond] /\ savedDoc \in Saved
      /\ hot \in [Procs -> Values] /\ astray \subseteq Procs
      /\ saving \in [Admins -> {NoChange} \cup [p : Procs, doc : Saved]]
  BY DEF LifeTypes
<1>2. ASSUME UNCHANGED <<savedDoc, hot, saving, astray>>,
             \A p \in Procs : Loaded(place'[p]) => Loaded(place[p])
      PROVE  Still
  BY <1>1, <1>2 DEF HotInv, HotOk
<1>3. ASSUME NEW p \in Procs, NEW i \in (1..32) \ {15}, place[p] = Nth(i),
             \/ StepTo(p, After(Nth(i))) \/ place' = place \/ StepTo(p, "aborted")
             \/ i = 5 /\ StepTo(p, "admin"),
             UNCHANGED <<savedDoc, hot, saving, astray>>
      PROVE  Still
  <2>1. ~Loaded("aborted") /\ ~Loaded("admin")
    <3>1. Nth(6) = "admin"
      BY DEF Order, Nth
    <3> QED
      BY <3>1, NthApart DEF Loaded, Beyond
  <2>2. Loaded(place'[p]) => Loaded(place[p])
    BY <1>1, <1>3, <2>1, LoadedAfter DEF StepTo
  <2>3. \A q \in Procs \ {p} : place'[q] = place[q]
    BY <1>1, <1>3 DEF StepTo
  <2> QED
    BY <1>2, <1>3, <2>2, <2>3
<1>4. /\ Nth(1) = "mysql" /\ Nth(2) = "nacos" /\ Nth(3) = "tables" /\ Nth(4) = "columns"
      /\ Nth(5) = "look" /\ Nth(6) = "admin" /\ Nth(15) = "config"
      /\ Nth(21) = "prewarm" /\ Nth(24) = "workers"
  BY DEF Order, Nth
<1>5. ASSUME NEW p \in Procs,
             \/ WaitForMySQL(p) \/ Override(p) \/ MakeTables(p) \/ AddColumns(p)
             \/ LookForAdmin(p) \/ MakeAdmin(p) \/ Prewarm(p) \/ StartWorkers(p)
      PROVE  Still
  <2>1. UNCHANGED <<savedDoc, hot, saving, astray>>
    BY <1>5 DEF WaitForMySQL, Override, MakeTables, AddColumns, LookForAdmin, MakeAdmin, Prewarm,
                StartWorkers, configVars
  <2>2. CASE WaitForMySQL(p)
    BY <1>3, <1>4, <2>1, <2>2 DEF WaitForMySQL, Aborts
  <2>3. CASE Override(p) \/ AddColumns(p) \/ Prewarm(p) \/ StartWorkers(p)
    BY <1>3, <1>4, <2>1, <2>3 DEF Override, AddColumns, Prewarm, StartWorkers, Proceeds
  <2>4. CASE MakeTables(p)
    <3>1. After(Nth(3)) = "columns"
      BY <1>4, AfterStep
    <3> QED
      BY <1>3, <1>4, <2>1, <2>4, <3>1 DEF MakeTables, Aborts
  <2>5. CASE LookForAdmin(p)
    <3>1. CASE admins = 0
      BY <1>3, <1>4, <2>1, <2>5, <3>1 DEF LookForAdmin
    <3>2. CASE admins # 0
      <4>1. After("admin") = Nth(7) /\ ~Loaded(Nth(7))
        BY <1>4, AfterStep, NthApart DEF Loaded, Beyond
      <4>2. place' = [place EXCEPT ![p] = Nth(7)]
        BY <2>5, <3>2, <4>1 DEF LookForAdmin, StepTo
      <4> QED
        BY <1>1, <1>2, <2>1, <4>1, <4>2
    <3> QED
      BY <3>1, <3>2
  <2>6. CASE MakeAdmin(p)
    BY <1>3, <1>4, <2>1, <2>6 DEF MakeAdmin
  <2> QED
    BY <1>5, <2>2, <2>3, <2>4, <2>5, <2>6
<1>6. ASSUME NEW p \in Procs, NEW new, ~Loaded(new), place' = [place EXCEPT ![p] = new],
             UNCHANGED <<savedDoc, saving, astray>>, hot' \in [Procs -> Values],
             \A q \in Procs \ {p} : hot'[q] = hot[q]
      PROVE  Still
  BY <1>1, <1>6 DEF HotInv, HotOk
<1>7. ASSUME NEW p \in Procs, Start(p) PROVE Still
  <2>1. ~Loaded("mysql")
    BY <1>4, NthApart DEF Loaded, Beyond
  <2>2. 0 \in Values
    BY DEF Values
  <2> QED
    BY <1>1, <1>6, <1>7, <2>1, <2>2 DEF Start, StepTo
<1>8. ASSUME NEW p \in Procs, StartLoop(p) PROVE Still
  <2>1. PICK i \in 16..32 : place[p] = Nth(i)
    BY <1>8, StepPlaces DEF StartLoop
  <2> QED
    BY <1>3, <1>8, <2>1 DEF StartLoop, configVars
<1>9. ASSUME NEW p \in Procs, Initialise(p) PROVE Still
  <2>1. PICK i \in 7..15 : place[p] = Nth(i)
    BY <1>9, StepPlaces DEF Initialise
  <2>2. CASE i # 15
    <3>1. place[p] # "config"
      BY <1>4, <2>1, <2>2, NthApart
    <3> QED
      BY <1>3, <1>9, <2>1, <2>2, <3>1 DEF Initialise, configVars
  <2>3. CASE i = 15
    <3>1. PICK ok \in BOOLEAN : LoadRuntime(p, ok)
      BY <1>4, <1>9, <2>1, <2>3 DEF Initialise
    <3>2. EfOf(savedDoc) \in Values /\ 0 \in Values
      BY <1>1 DEF EfOf, Saved, Values, Unset
    <3>3. /\ hot' = [hot EXCEPT ![p] = IF ok THEN EfOf(savedDoc) ELSE 0]
          /\ astray' = IF ok /\ \A a \in Admins : saving[a] = NoChange THEN astray \ {p}
                       ELSE astray \cup {p}
          /\ UNCHANGED <<savedDoc, saving>>
      BY <3>1 DEF LoadRuntime
    <3>4. hot' \in [Procs -> Values] /\ astray' \subseteq Procs
      BY <1>1, <3>2, <3>3
    <3>5. \A q \in Procs \ {p} : place'[q] = place[q] /\ hot'[q] = hot[q]
                                 /\ (q \notin astray' => q \notin astray)
      BY <1>1, <1>9, <3>3 DEF Initialise, StepTo
    <3>6. ASSUME NEW q \in Procs, Loaded(place'[q]), q \notin astray' PROVE HotOk(q)'
      <4>1. CASE q = p
        <5>1. ok /\ \A a \in Admins : saving[a] = NoChange
          BY <3>3, <3>6, <4>1
        <5>2. hot'[q] = EfOf(savedDoc') /\ \A a \in Admins : saving'[a] = NoChange
          BY <1>1, <3>3, <4>1, <5>1 DEF EfOf
        <5> QED
          BY <5>2 DEF HotOk, EfOf
      <4>2. CASE q # p
        <5>1. HotOk(q)
          BY <3>5, <3>6, <4>2 DEF HotInv
        <5> QED
          BY <3>3, <3>5, <4>2, <5>1 DEF HotOk, EfOf
      <4> QED
        BY <4>1, <4>2
    <3> QED
      BY <1>1, <3>3, <3>4, <3>6 DEF HotInv
  <2> QED
    BY <2>2, <2>3
<1>10. /\ ~Loaded("draining") /\ ~Loaded("closing") /\ ~Loaded("down")
  BY NthApart DEF Loaded, Beyond
<1>11. ASSUME NEW p \in Procs,
              \/ Stop(p) \/ CancelWorkers(p) \/ CancelLoops(p) \/ ReadConfig(p)
              \/ \E w \in Workers : WorkerEnds(p, w)
       PROVE  Still
  <2>1. /\ UNCHANGED <<savedDoc, hot, saving, astray>>
        /\ place' = place \/ StepTo(p, "draining") \/ StepTo(p, "closing")
    BY <1>11 DEF Stop, CancelWorkers, CancelLoops, ReadConfig, WorkerEnds, configVars
  <2> QED
    BY <1>1, <1>2, <1>6, <1>10, <2>1 DEF StepTo
<1>12. ASSUME NEW p \in Procs, CloseClients(p) \/ Kill(p) PROVE Still
  <2>1. /\ place' = [place EXCEPT ![p] = "down"] /\ UNCHANGED <<savedDoc, hot, astray>>
        /\ saving' = [a \in Admins |-> IF saving[a] # NoChange /\ saving[a].p = p THEN NoChange
                                       ELSE saving[a]]
    BY <1>12 DEF CloseClients, Kill, ProcessEnds, StepTo
  <2>2. saving' \in [Admins -> {NoChange} \cup [p : Procs, doc : Saved]]
    BY <1>1, <2>1
  <2>3. ASSUME NEW q \in Procs, Loaded(place'[q]), q \notin astray' PROVE HotOk(q)'
    <3>1. q # p /\ place'[q] = place[q]
      BY <1>1, <1>10, <2>1, <2>3
    <3>2. HotOk(q)
      BY <2>1, <2>3, <3>1 DEF HotInv
    <3>3. CASE (\A a \in Admins : saving[a] = NoChange) /\ hot[q] = EfOf(savedDoc)
      BY <2>1, <3>3 DEF HotOk, EfOf
    <3>4. ASSUME NEW a \in Admins, saving[a] = [p |-> q, doc |-> savedDoc], savedDoc.ef # Unset,
                 \A b \in Admins \ {a} : saving[b] = NoChange
          PROVE  HotOk(q)'
      <4>1. saving'[a] = saving[a] /\ \A b \in Admins \ {a} : saving'[b] = NoChange
        BY <2>1, <3>1, <3>4
      <4> QED
        BY <2>1, <3>4, <4>1 DEF HotOk
    <3> QED
      BY <3>2, <3>3, <3>4 DEF HotOk
  <2> QED
    BY <1>1, <2>1, <2>2, <2>3 DEF HotInv
<1>13. ASSUME NEW p \in Procs, NEW a \in Admins, NEW v \in Values \cup {Unset},
              Save(p, a, [ef |-> v])
       PROVE  Still
  <2> DEFINE doc == [ef |-> v]
  <2>1. doc \in Saved /\ doc.ef = v
    BY DEF Saved
  <2> HIDE DEF doc
  <2>2. /\ savedDoc' = doc /\ saving' = [saving EXCEPT ![a] = [p |-> p, doc |-> doc]]
        /\ astray' = astray \cup (Procs \ {p})
                     \cup IF doc.ef = Unset \/ \E b \in Admins : saving[b] # NoChange
                          THEN {p} ELSE {}
        /\ hot' = hot
    BY <1>13 DEF Save, doc
  <2>3. saving' \in [Admins -> {NoChange} \cup [p : Procs, doc : Saved]]
    <3>1. [p |-> p, doc |-> doc] \in [p : Procs, doc : Saved]
      BY <2>1
    <3> QED
      BY <1>1, <2>2, <3>1
  <2>4. ASSUME NEW q \in Procs, q \notin astray' PROVE HotOk(q)'
    <3>1. q = p /\ doc.ef # Unset /\ \A b \in Admins : saving[b] = NoChange
      BY <2>2, <2>4
    <3>2. saving'[a] = [p |-> q, doc |-> savedDoc'] /\ savedDoc'.ef # Unset
          /\ \A b \in Admins \ {a} : saving'[b] = NoChange
      BY <1>1, <2>2, <3>1
    <3> QED
      BY <3>2 DEF HotOk
  <2> QED
    BY <1>1, <2>1, <2>2, <2>3, <2>4 DEF HotInv
<1>14. ASSUME NEW a \in Admins, SetHot(a) PROVE Still
  <2>1. /\ saving[a] # NoChange /\ saving' = [saving EXCEPT ![a] = NoChange]
        /\ hot' = IF saving[a].doc.ef = Unset THEN hot
                  ELSE [hot EXCEPT ![saving[a].p] = saving[a].doc.ef]
        /\ UNCHANGED <<place, savedDoc, astray>>
    BY <1>14 DEF SetHot
  <2>2. saving[a] \in [p : Procs, doc : Saved]
    BY <1>1, <2>1
  <2>3. hot' \in [Procs -> Values]
    <3>1. saving[a].doc.ef \in Values \cup {Unset}
      BY <2>2 DEF Saved
    <3> QED
      BY <1>1, <2>1, <3>1
  <2>4. saving' \in [Admins -> {NoChange} \cup [p : Procs, doc : Saved]]
    BY <1>1, <2>1
  <2>5. ASSUME NEW q \in Procs, Loaded(place[q]), q \notin astray PROVE HotOk(q)'
    <3>1. HotOk(q)
      BY <2>5 DEF HotInv
    <3>2. PICK b \in Admins : /\ saving[b] = [p |-> q, doc |-> savedDoc] /\ savedDoc.ef # Unset
                              /\ \A c \in Admins \ {b} : saving[c] = NoChange
      BY <2>1, <3>1 DEF HotOk
    <3>3. b = a
      BY <2>1, <3>2
    <3>4. saving[a].p = q /\ saving[a].doc = savedDoc
      BY <3>2, <3>3
    <3>5. hot'[q] = savedDoc.ef
      BY <1>1, <2>1, <3>2, <3>4
    <3>6. \A c \in Admins : saving'[c] = NoChange
      BY <1>1, <2>1, <3>2, <3>3
    <3> QED
      BY <2>1, <3>2, <3>5, <3>6 DEF HotOk, EfOf
  <2> QED
    BY <1>1, <2>1, <2>3, <2>4, <2>5 DEF HotInv
<1>15. CASE Fade
  <2>1. savedDoc' \in Saved /\ astray' = Procs /\ UNCHANGED <<hot, saving>>
    BY <1>15 DEF Fade, Saved
  <2> QED
    BY <1>1, <2>1 DEF HotInv
<1>16. CASE UNCHANGED lifeVars
  BY <1>2, <1>16 DEF lifeVars
<1> QED
  BY <1>5, <1>7, <1>8, <1>9, <1>11, <1>12, <1>13, <1>14, <1>15, <1>16 DEF LifespanNext

\* Whatever processes start, are stopped or killed, they serve and work on a database that is
\* there, their workers come last, no task outlives the connections, and what they work with is
\* what Redis holds.
THEOREM LifespansHold == LifespanSpec => []LifespanHolds
<1>1. LifeInv /\ [LifespanNext]_lifeVars => LifeInv'
  <2> SUFFICES ASSUME LifeInv, [LifespanNext]_lifeVars PROVE LifeInv'
    OBVIOUS
  <2>1. LifeTypes /\ StageInv /\ HotInv
    BY DEF LifeInv
  <2>2. /\ StageInv' /\ place' \in [Procs -> Steps \cup Beyond]
        /\ tasks' \in [Procs -> SUBSET (Loops \cup Workers)] /\ admins' \in 0..1
    BY <2>1, StageStep
  <2>3. /\ HotInv' /\ savedDoc' \in Saved /\ hot' \in [Procs -> Values]
        /\ saving' \in [Admins -> {NoChange} \cup [p : Procs, doc : Saved]]
        /\ astray' \subseteq Procs
    BY <2>1, HotStep
  <2> QED
    BY <2>2, <2>3 DEF LifeInv, LifeTypes
<1> QED
  BY <1>1, LifeStart, LifeSafe, PTL DEF LifespanSpec

-----------------------------------------------------------------------------
(* Questions.                                                              *)

\* What the proof needs to know of the types; the model that wrote may be any.
DraftTypes ==
    /\ draft \in [es : 0..100, grade : Grades \cup {"none"}, action : {draft.action},
                  conf : Confidences \cup {"none"}, short : BOOLEAN, exchanged : 0..1,
                  by : {draft.by}, again : {draft.again}, text : {"none", "whole", "cut", "empty"}]
    /\ ended \in [Ends -> Nat] /\ answerFaults \in Nat

\* Before the evidence is graded nothing is found, before it is judged nobody found it wanting,
\* and before a model has answered nothing is written.
NothingYet ==
    /\ at \in {"idle", "guard", "grade"} => draft = BlankDraft
    /\ at \in {"rewrite", "judge"} => ~draft.short
    /\ at \in {"rewrite", "judge", "write", "writing"} => draft.text = "none"

\* From the grading on, who is sure has earned it; from the settling on, with a model of the
\* chain's own.
SureInv ==
    draft.conf = "high" =>
        /\ at \in {"rewrite", "judge", "write", "writing", "rewriting", "verify", "settle", "save",
                   "keep", "close"} =>
              /\ draft.grade = "correct" \/ (On("v3") /\ draft.es >= 70)
              /\ On("v3") \/ draft.action = "normal"
              /\ ~draft.short
        /\ at \in {"save", "keep", "close"} => draft.by # Local

\* Evidence that has been exchanged is not exchanged again for its citations.
ExchangeInv ==
    /\ at \in {"rewrite", "rewriting"} => draft.exchanged = 0
    /\ at \in {"judge", "write", "writing", "verify"} =>
          draft.exchanged = 0 \/ draft.action \in NotAgain

\* What is about to be kept is in the conversation, unless the database failed; and no end has
\* been told before the end.
ToldInv ==
    /\ at \in {"keep", "close"} => rows = "both" \/ answerFaults > 0
    /\ at \notin {"over", "failed"} => ended = NoEnds

PipelineInv == DraftTypes /\ NothingYet /\ SureInv /\ ExchangeInv /\ ToldInv /\ AnswersHold

\* At the start the invariant holds.
LEMMA PipelineStart == AnswerInit => PipelineInv
BY DEF AnswerInit, PipelineInv, DraftTypes, NothingYet, SureInv, ExchangeInv, ToldInv, AnswersHold,
       HighIsEarned, ExchangedOnce, RefusedIsNoted, EndIsTold, AnswerIsInConversation, BlankDraft,
       NoEnds, NoQuestion, Ends, Grades, Confidences, Streamed

\* A stream that has told no end tells one; the plain request tells none.
LEMMA TellOnce ==
  ASSUME ended = NoEnds, NEW e \in Ends
  PROVE  /\ Tell(e) \in [Ends -> Nat]
         /\ ~Streamed => Tell(e) = NoEnds
         /\ Streamed => Tell(e)["completed"] + Tell(e)["error"] + Tell(e)["aborted"] = 1
BY DEF Tell, NoEnds, Ends

\* A question that goes on keeps the invariant when what is found of it does.
LEMMA GoesOn ==
  ASSUME PipelineInv, at \notin {"over", "failed"}, at' \notin {"over", "failed"},
         UNCHANGED <<on, ended, shelf>>, answerFaults' \in Nat, DraftTypes',
         NothingYet', SureInv', ExchangeInv',
         at' \in {"keep", "close"} => rows' = "both" \/ answerFaults' > 0
  PROVE  PipelineInv'
<1>1. ended' = NoEnds /\ ToldInv'
  BY DEF PipelineInv, ToldInv, NoEnds
<1>2. HighIsEarned'
  BY DEF PipelineInv, AnswersHold, HighIsEarned, NoEntry
<1>3. ExchangedOnce'
  BY DEF DraftTypes, ExchangedOnce
<1>4. RefusedIsNoted' /\ AnswerIsInConversation'
  BY DEF RefusedIsNoted, AnswerIsInConversation
<1>5. EndIsTold'
  BY <1>1 DEF EndIsTold, NoEnds, Ends
<1> QED
  BY <1>1, <1>2, <1>3, <1>4, <1>5 DEF PipelineInv, AnswersHold

\* A question that ends keeps it when its end is told and it was noted and put down.
LEMMA ComesToItsEnd ==
  ASSUME PipelineInv, at \notin {"over", "failed"}, at' \in {"over", "failed"}, NEW e \in Ends,
         ended' = Tell(e), UNCHANGED <<on, ask>>, shelf' = shelf \/ shelf'.sound = TRUE,
         DraftTypes', RefusedIsNoted', AnswerIsInConversation'
  PROVE  PipelineInv'
<1>1. ended = NoEnds
  BY DEF PipelineInv, ToldInv
<1>2. NothingYet' /\ SureInv' /\ ExchangeInv' /\ ToldInv'
  BY DEF NothingYet, SureInv, ExchangeInv, ToldInv
<1>3. HighIsEarned'
  BY DEF PipelineInv, AnswersHold, HighIsEarned, NoEntry
<1>4. ExchangedOnce'
  BY DEF DraftTypes, ExchangedOnce
<1>5. EndIsTold'
  <2>1. /\ ended' \in [Ends -> Nat]
        /\ ~Streamed => ended' = NoEnds
        /\ Streamed => ended'["completed"] + ended'["error"] + ended'["aborted"] = 1
    BY <1>1, TellOnce
  <2>2. Streamed' = Streamed
    BY DEF Streamed
  <2> QED
    BY <2>1, <2>2 DEF EndIsTold, NoEnds, Ends
<1> QED
  BY <1>2, <1>3, <1>4, <1>5 DEF PipelineInv, AnswersHold

\* Every step keeps the invariant.
LEMMA PipelineStep == PipelineInv /\ [AnswerNext]_answerVars => PipelineInv'
<1> SUFFICES ASSUME PipelineInv, [AnswerNext]_answerVars PROVE PipelineInv'
  OBVIOUS
<1> USE DEF Go, On
<1>1. /\ DraftTypes /\ NothingYet /\ SureInv /\ ExchangeInv /\ ToldInv /\ AnswersHold
  BY DEF PipelineInv
<1>2. BlankDraft \in [es : 0..100, grade : Grades \cup {"none"}, action : {"normal"},
                      conf : Confidences \cup {"none"}, short : BOOLEAN, exchanged : 0..1,
                      by : {NoModel}, again : {NoModel}, text : {"none", "whole", "cut", "empty"}]
  BY DEF BlankDraft
<1>3. \A conf \in {"refused", "none"} : conf \in Confidences \cup {"none"}
  BY DEF Confidences
<1>4. "completed" \in Ends /\ "error" \in Ends /\ "aborted" \in Ends
  BY DEF Ends
<1>5. ASSUME NEW q \in QuestionsAsked, Ask(q) PROVE PipelineInv'
  <2>1. at = "idle" /\ at' = "guard" /\ UNCHANGED <<on, draft, ended, shelf, answerFaults>>
    BY <1>5 DEF Ask
  <2> QED
    BY <1>1, <2>1, GoesOn DEF DraftTypes, NothingYet, SureInv, ExchangeInv
<1>6. CASE Refuse
  <2>1. /\ at = "guard" /\ at' = "over" /\ UNCHANGED <<on, ask, shelf, answerFaults>>
        /\ draft' = [draft EXCEPT !.conf = "refused", !.action = "skipped"]
        /\ ended' = Tell("completed")
    BY <1>6 DEF Refuse
  <2>2. draft = BlankDraft
    BY <1>1, <2>1 DEF NothingYet
  <2>3. DraftTypes' /\ draft'.action = "skipped" /\ draft'.text = "none"
    <3>1. ended' \in [Ends -> Nat] /\ answerFaults' \in Nat
      BY <1>1, <1>4, <2>1, TellOnce DEF DraftTypes, ToldInv
    <3>2. draft' = [es |-> 0, grade |-> "none", action |-> "skipped", conf |-> "refused",
                    short |-> FALSE, exchanged |-> 0, by |-> NoModel, again |-> NoModel,
                    text |-> "none"]
      BY <2>1, <2>2 DEF BlankDraft
    <3> QED
      BY <1>3, <3>1, <3>2 DEF DraftTypes
  <2> QED
    BY <1>4, <2>1, <2>3, ComesToItsEnd DEF RefusedIsNoted, AnswerIsInConversation
<1>7. CASE HitLiked \/ HitShelf
  <2>1. PICK act \in {"liked", "kept"} :
           /\ at = "guard" /\ at' = "over" /\ UNCHANGED <<on, ask, shelf>>
           /\ draft' = [draft EXCEPT !.action = act]
           /\ ended' = Tell("completed") /\ answerFaults' \in {answerFaults, answerFaults + 1}
    BY <1>7 DEF HitLiked, HitShelf, Saves, AnswerFault
  <2>2. draft = BlankDraft
    BY <1>1, <2>1 DEF NothingYet
  <2>3. DraftTypes' /\ draft'.conf = "none" /\ draft'.text = "none"
    <3>1. ended' \in [Ends -> Nat] /\ answerFaults' \in Nat
      BY <1>1, <1>4, <2>1, TellOnce DEF DraftTypes, ToldInv
    <3>2. draft' = [es |-> 0, grade |-> "none", action |-> act, conf |-> "none",
                    short |-> FALSE, exchanged |-> 0, by |-> NoModel, again |-> NoModel,
                    text |-> "none"]
      BY <2>1, <2>2 DEF BlankDraft
    <3> QED
      BY <1>3, <3>1, <3>2 DEF DraftTypes
  <2> QED
    BY <1>4, <2>1, <2>3, ComesToItsEnd DEF RefusedIsNoted, AnswerIsInConversation
<1>8. CASE SearchKnowledge
  <2>1. at = "guard" /\ UNCHANGED <<on, ask, shelf, answerFaults, rows>>
    BY <1>8 DEF SearchKnowledge
  <2>2. draft = BlankDraft
    BY <1>1, <2>1 DEF NothingYet
  <2>3. CASE at' = "grade" /\ UNCHANGED <<draft, ended, gaps>>
    BY <1>1, <2>1, <2>2, <2>3, GoesOn DEF DraftTypes, NothingYet, SureInv, ExchangeInv, BlankDraft
  <2>4. CASE /\ at' = "over" /\ draft' = [draft EXCEPT !.conf = "refused", !.action = "nothing"]
             /\ gaps' = (ask.way = "answer" \/ On("refused_to_gap")) /\ ended' = Tell("completed")
    <3>1. DraftTypes' /\ draft'.text = "none"
      BY <1>1, <1>3, <1>4, <2>1, <2>2, <2>4, TellOnce, ZenonT(60)
         DEF DraftTypes, ToldInv, BlankDraft
    <3> QED
      BY <1>4, <2>1, <2>4, <3>1, ComesToItsEnd DEF RefusedIsNoted, AnswerIsInConversation
  <2> QED
    BY <1>8, <2>3, <2>4 DEF SearchKnowledge
<1>9. CASE Grade
  <2>1. PICK es \in Strengths : \E grade \in GradesOf(es) :
           /\ draft' = [draft EXCEPT !.es = es, !.grade = grade,
                                     !.conf = ConfidenceOf(es, grade, "normal")]
           /\ at' = IF grade = "incorrect" THEN "rewrite" ELSE "judge"
    BY <1>9 DEF Grade
  <2>2. PICK grade \in GradesOf(es) :
           /\ draft' = [draft EXCEPT !.es = es, !.grade = grade,
                                     !.conf = ConfidenceOf(es, grade, "normal")]
           /\ at' = IF grade = "incorrect" THEN "rewrite" ELSE "judge"
    BY <2>1
  <2>3. at = "grade" /\ UNCHANGED <<on, ended, shelf, answerFaults>>
    BY <1>9 DEF Grade
  <2>4. draft = BlankDraft
    BY <1>1, <2>3 DEF NothingYet
  <2>5. grade \in Grades /\ es \in 0..100 /\ es \in Nat
    BY AnswerAssumption DEF GradesOf, GradeOf, Grades
  <2>6. /\ ConfidenceOf(es, grade, "normal") \in Confidences
        /\ ConfidenceOf(es, grade, "normal") = "high" =>
              grade = "correct" \/ (On("v3") /\ es >= 70)
    BY <2>5 DEF ConfidenceOf, Confidences
  <2>7. /\ draft'.es = es /\ draft'.grade = grade /\ draft'.action = "normal"
        /\ draft'.conf = ConfidenceOf(es, grade, "normal") /\ ~draft'.short
        /\ draft'.exchanged = 0 /\ draft'.text = "none"
    BY <2>2, <2>4 DEF BlankDraft
  <2>8. DraftTypes'
    BY <1>1, <2>2, <2>3, <2>5, <2>6 DEF DraftTypes
  <2> QED
    BY <1>1, <2>2, <2>3, <2>6, <2>7, <2>8, GoesOn DEF NothingYet, SureInv, ExchangeInv, DraftTypes
<1>10. CASE Rewrite
  <2>1. at = "rewrite" /\ at' = "judge" /\ UNCHANGED <<on, ended, shelf, answerFaults>>
    BY <1>10 DEF Rewrite
  <2>2. CASE draft' = draft
    BY <1>1, <2>1, <2>2, GoesOn DEF DraftTypes, NothingYet, SureInv, ExchangeInv
  <2>3. ASSUME NEW es \in Strengths,
               draft' = [draft EXCEPT !.es = es, !.grade = GradeOf(es),
                            !.action = Reported(GradeOf(es), RewriteAction(GradeOf(es))),
                            !.exchanged = @ + 1,
                            !.conf = ConfidenceOf(es, GradeOf(es), RewriteAction(GradeOf(es)))]
        PROVE  PipelineInv'
    <3> DEFINE grade == GradeOf(es)
               act == RewriteAction(grade)
    <3>1. grade \in Grades /\ es \in 0..100 /\ es \in Nat
      BY AnswerAssumption DEF GradeOf, Grades
    <3> HIDE DEF grade
    <3>2. Reported(grade, act) \in NotAgain
      BY <3>1 DEF Reported, RewriteAction, Grades, NotAgain
    <3>3. /\ ConfidenceOf(es, grade, act) \in Confidences
          /\ ConfidenceOf(es, grade, act) = "high" => On("v3") /\ es >= 70
      <4>1. CASE "v3" \in on
        <5>1. CASE act = "rewritten_failed"
          BY <4>1, <5>1 DEF ConfidenceOf, Confidences
        <5>2. CASE act # "rewritten_failed"
          BY <3>1, <4>1, <5>2 DEF ConfidenceOf, Confidences
        <5> QED
          BY <5>1, <5>2
      <4>2. CASE "v3" \notin on
        <5>1. act = "rewritten"
          BY <4>2 DEF RewriteAction
        <5> QED
          BY <4>2, <5>1 DEF ConfidenceOf, Confidences
      <4> QED
        BY <4>1, <4>2
    <3>4. draft.exchanged = 0 /\ draft.text = "none"
      BY <1>1, <2>1 DEF ExchangeInv, NothingYet
    <3> HIDE DEF act
    <3>5. draft' = [draft EXCEPT !.es = es, !.grade = grade, !.action = Reported(grade, act),
                                 !.exchanged = @ + 1, !.conf = ConfidenceOf(es, grade, act)]
      BY <2>3 DEF grade, act
    <3>6. /\ draft'.es = es /\ draft'.action = Reported(grade, act)
          /\ draft'.conf = ConfidenceOf(es, grade, act) /\ draft'.short = draft.short
          /\ draft'.text = "none"
      BY <1>1, <3>4, <3>5 DEF DraftTypes
    <3>7. DraftTypes'
      <4>1. draft.exchanged + 1 \in 0..1
        BY <3>4
      <4> QED
        BY <1>1, <2>1, <3>1, <3>3, <3>5, <4>1, ZenonT(60) DEF DraftTypes
    <3>8. ~draft.short
      BY <1>1, <2>1 DEF NothingYet
    <3> QED
      BY <1>1, <2>1, <3>2, <3>3, <3>6, <3>7, <3>8, GoesOn
         DEF NothingYet, SureInv, ExchangeInv, DraftTypes
  <2> QED
    BY <1>10, <2>2, <2>3 DEF Rewrite
<1>11. CASE Judge
  <2>1. at = "judge" /\ at' = "write" /\ UNCHANGED <<on, ended, shelf, answerFaults>>
    BY <1>11 DEF Judge
  <2>2. CASE draft' = draft
    BY <1>1, <2>1, <2>2, GoesOn DEF DraftTypes, NothingYet, SureInv, ExchangeInv
  <2>3. CASE draft' = [draft EXCEPT !.short = TRUE,
                                    !.conf = IF @ = "high" THEN "medium_high" ELSE @]
    <3>1. DraftTypes'
      BY <1>1, <2>1, <2>3, ZenonT(60) DEF DraftTypes, Confidences
    <3>2. /\ draft'.conf # "high" /\ draft'.text = draft.text
          /\ draft'.exchanged = draft.exchanged /\ draft'.action = draft.action
      BY <1>1, <2>3 DEF DraftTypes
    <3> QED
      BY <1>1, <2>1, <3>1, <3>2, GoesOn DEF NothingYet, SureInv, ExchangeInv, DraftTypes
  <2> QED
    BY <1>11, <2>2, <2>3 DEF Judge
<1>12. CASE BeginWriting
  <2>1. /\ at = "write" /\ at' = "writing" /\ UNCHANGED <<on, draft, ended, shelf, answerFaults>>
    BY <1>12 DEF BeginWriting
  <2> QED
    BY <1>1, <2>1, GoesOn DEF DraftTypes, NothingYet, SureInv, ExchangeInv
\* An answer, or what models that were silent leave of one.
<1>13. ASSUME at \in {"writing", "rewriting"}, NEW p, NEW text \in {"whole", "cut", "empty"},
              draft' = Composed(p, text), at' = IF at = "writing" THEN "verify" ELSE "settle",
              UNCHANGED <<on, ended, shelf, answerFaults>>
       PROVE  PipelineInv'
  <2>1. /\ DraftTypes' /\ draft'.conf = draft.conf /\ draft'.grade = draft.grade
        /\ draft'.es = draft.es /\ draft'.action = draft.action /\ draft'.short = draft.short
        /\ at = "writing" => draft'.exchanged = draft.exchanged
    <3>1. CASE at = "writing"
      <4>1. draft' = [draft EXCEPT !.by = p, !.text = text]
        BY <1>13, <3>1 DEF Composed
      <4> QED
        BY <1>1, <1>13, <3>1, <4>1 DEF DraftTypes
    <3>2. CASE at = "rewriting"
      <4>1. draft' = [draft EXCEPT !.again = p, !.text = text, !.exchanged = @ + 1]
        BY <1>13, <3>2 DEF Composed
      <4>2. draft.exchanged = 0
        BY <1>1, <3>2 DEF ExchangeInv
      <4> QED
        <5>1. draft.exchanged + 1 \in 0..1
          BY <4>2
        <5>2. /\ draft'.conf = draft.conf /\ draft'.grade = draft.grade /\ draft'.es = draft.es
              /\ draft'.action = draft.action /\ draft'.short = draft.short
          BY <1>1, <4>1 DEF DraftTypes
        <5>3. DraftTypes'
          BY <1>1, <1>13, <4>1, <5>1 DEF DraftTypes
        <5> QED
          BY <3>2, <5>2, <5>3
    <3> QED
      BY <1>13, <3>1, <3>2
  <2> QED
    BY <1>1, <1>13, <2>1, GoesOn DEF NothingYet, SureInv, ExchangeInv, DraftTypes
<1>14. ASSUME NEW p, ModelAnswers(p) PROVE PipelineInv'
  BY <1>13, <1>14 DEF ModelAnswers
<1>15. ASSUME UNCHANGED flowVars PROVE PipelineInv'
  BY <1>15 DEF flowVars, PipelineInv, DraftTypes, NothingYet, SureInv, ExchangeInv, ToldInv,
               AnswersHold, HighIsEarned, ExchangedOnce, RefusedIsNoted, EndIsTold,
               AnswerIsInConversation, Streamed
<1>16. CASE NobodyAnswers
  <2>1. at \in {"writing", "rewriting"} /\ UNCHANGED <<on, ask, shelf, answerFaults>>
    BY <1>16 DEF NobodyAnswers
  <2>2. CASE /\ at = "writing" /\ draft' = [draft EXCEPT !.conf = "refused", !.action = "llm_down"]
             /\ gaps' = (ask.way = "answer") /\ ended' = Tell("error") /\ at' = "over"
    <3>1. ended' \in [Ends -> Nat]
      BY <1>1, <1>4, <2>1, <2>2, TellOnce DEF ToldInv
    <3>2. DraftTypes' /\ draft'.action = "llm_down" /\ draft'.text = "none"
      BY <1>1, <1>3, <2>1, <2>2, <3>1 DEF DraftTypes, NothingYet
    <3>3. RefusedIsNoted' /\ AnswerIsInConversation'
      BY <2>1, <2>2, <3>2 DEF RefusedIsNoted, AnswerIsInConversation, Streamed
    <3> QED
      BY <1>4, <2>1, <2>2, <3>2, <3>3, ComesToItsEnd
  <2>3. CASE at = "rewriting" /\ UNCHANGED <<draft, gaps, ended>> /\ at' = "settle"
    BY <1>1, <2>1, <2>3, GoesOn DEF DraftTypes, NothingYet, SureInv, ExchangeInv
  <2>4. CASE /\ draft' = Composed(first, "empty") /\ UNCHANGED <<gaps, ended>>
             /\ at' = IF at = "writing" THEN "verify" ELSE "settle"
    BY <1>13, <2>1, <2>4
  <2> QED
    BY <1>16, <2>2, <2>3, <2>4 DEF NobodyAnswers
<1>17. CASE VerifyCitations
  <2>1. at = "verify" /\ UNCHANGED <<on, draft, ended, shelf, answerFaults>>
    BY <1>17 DEF VerifyCitations
  <2>2. at' = "settle" \/ (at' = "rewriting" /\ draft.action \notin NotAgain)
    BY <1>17 DEF VerifyCitations
  <2> QED
    BY <1>1, <2>1, <2>2, GoesOn DEF DraftTypes, NothingYet, SureInv, ExchangeInv
<1>18. CASE Settle
  <2>1. at = "settle" /\ at' = "save" /\ UNCHANGED <<on, ended, shelf, answerFaults>>
    BY <1>18 DEF Settle
  <2>2. PICK conf \in {Capped(draft.conf), "medium_high"} : draft' = [draft EXCEPT !.conf = conf]
    <3>1. CASE draft' = [draft EXCEPT !.conf = Capped(@)]
      BY <3>1
    <3> QED
      BY <1>18, <3>1 DEF Settle
  <2>3. /\ conf \in Confidences \cup {"none"}
        /\ conf = "high" => draft.conf = "high" /\ draft.by # Local
    BY <1>1, <2>2 DEF Capped, Confidences, DraftTypes
  <2>4. /\ DraftTypes' /\ draft'.conf = conf /\ draft'.grade = draft.grade /\ draft'.es = draft.es
        /\ draft'.action = draft.action /\ draft'.short = draft.short /\ draft'.by = draft.by
    BY <1>1, <2>1, <2>2, <2>3 DEF DraftTypes
  <2> QED
    BY <1>1, <2>1, <2>3, <2>4, GoesOn DEF NothingYet, SureInv, ExchangeInv, DraftTypes
<1>19. CASE SaveRow \/ SaveRowFails
  <2>1. /\ at = "save" /\ at' \in {"save", "keep", "failed"}
        /\ UNCHANGED <<on, ask, draft, ended, shelf>>
        /\ at' = "keep" => rows' = "both" \/ answerFaults' > 0
        /\ answerFaults' \in Nat /\ (at' = "failed" => ask.way = "answer")
    BY <1>1, <1>19 DEF SaveRow, SaveRowFails, AnswerFault, DraftTypes
  <2>2. CASE at' # "failed"
    BY <1>1, <2>1, <2>2, GoesOn DEF DraftTypes, NothingYet, SureInv, ExchangeInv
  <2>3. CASE at' = "failed"
    <3>1. ended' = Tell("error")
      BY <2>1, <2>3 DEF Tell, Streamed
    <3>2. RefusedIsNoted' /\ AnswerIsInConversation'
      BY <2>3 DEF RefusedIsNoted, AnswerIsInConversation
    <3> QED
      BY <1>1, <1>4, <2>1, <2>3, <3>1, <3>2, ComesToItsEnd DEF DraftTypes
  <2> QED
    BY <2>2, <2>3
<1>20. CASE Keep
  <2>1. /\ at = "keep" /\ at' = "close" /\ UNCHANGED <<on, ask, draft, rows, ended, answerFaults>>
        /\ shelf' = shelf \/ (draft.conf = "high" /\ shelf' = Entry)
    BY <1>20 DEF Keep
  <2>2. DraftTypes' /\ NothingYet' /\ SureInv' /\ ExchangeInv' /\ ToldInv'
    BY <1>1, <2>1 DEF DraftTypes, NothingYet, SureInv, ExchangeInv, ToldInv
  <2>3. HighIsEarned'
    <3>1. CASE shelf' = shelf
      BY <1>1, <3>1 DEF AnswersHold, HighIsEarned, NoEntry
    <3>2. CASE draft.conf = "high" /\ shelf' = Entry
      <4>1. IsEarned
        BY <1>1, <2>1, <3>2 DEF SureInv, IsEarned
      <4> QED
        BY <3>2, <4>1 DEF HighIsEarned, Entry
    <3> QED
      BY <2>1, <3>1, <3>2
  <2>4. ExchangedOnce' /\ RefusedIsNoted' /\ AnswerIsInConversation'
    BY <1>1, <2>1 DEF AnswersHold, ExchangedOnce, RefusedIsNoted, AnswerIsInConversation
  <2>5. EndIsTold'
    BY <1>1, <2>1 DEF ToldInv, EndIsTold, NoEnds, Ends
  <2> QED
    BY <2>2, <2>3, <2>4, <2>5 DEF PipelineInv, AnswersHold
<1>21. CASE Close
  <2>1. /\ at = "close" /\ at' = "over" /\ UNCHANGED <<on, ask, draft, rows, shelf, answerFaults>>
        /\ gaps' = (On("auto_collect") /\ draft.conf \in {"medium", "refused"})
        /\ ended' = Tell("completed")
    BY <1>21 DEF Close
  <2>2. DraftTypes'
    BY <1>1, <1>4, <2>1, TellOnce DEF DraftTypes, ToldInv
  <2>3. RefusedIsNoted' /\ AnswerIsInConversation'
    <3>1. RefusedIsNoted'
      BY <2>1 DEF RefusedIsNoted
    <3>2. AnswerIsInConversation'
      BY <1>1, <2>1 DEF AnswerIsInConversation, ToldInv, DraftTypes
    <3> QED
      BY <3>1, <3>2
  <2> QED
    BY <1>4, <2>1, <2>2, <2>3, ComesToItsEnd
<1>22. ASSUME at = "guard", at' = "over", NEW p, NEW act \in {"agent", "failed"},
              NEW text \in {"none", "whole"},
              draft' = [es |-> 0, grade |-> "none", action |-> act, conf |-> "none",
                        short |-> FALSE, exchanged |-> 0, by |-> p, again |-> NoModel,
                        text |-> text],
              rows' = "both" \/ answerFaults' > 0, answerFaults' \in Nat,
              ended' = Tell("completed"), UNCHANGED <<on, ask>>,
              shelf' = shelf \/ shelf'.sound = TRUE
       PROVE  PipelineInv'
  <2>1. ended' \in [Ends -> Nat]
    BY <1>1, <1>4, <1>22, TellOnce DEF ToldInv
  <2>2. DraftTypes' /\ draft'.conf = "none"
    <3>1. /\ act = draft'.action /\ p = draft'.by /\ NoModel = draft'.again
          /\ draft'.conf = "none"
      BY <1>22
    <3>2. text \in {"none", "whole", "cut", "empty"} /\ "none" \in Confidences \cup {"none"}
      BY <1>22
    <3>3. draft' \in [es : 0..100, grade : Grades \cup {"none"}, action : {draft'.action},
                      conf : Confidences \cup {"none"}, short : BOOLEAN, exchanged : 0..1,
                      by : {draft'.by}, again : {draft'.again},
                      text : {"none", "whole", "cut", "empty"}]
      BY <1>22, <3>1, <3>2
    <3> QED
      BY <1>22, <2>1, <3>1, <3>3 DEF DraftTypes
  <2>3. RefusedIsNoted'
    BY <2>2 DEF RefusedIsNoted
  <2>4. AnswerIsInConversation'
    BY <1>22 DEF AnswerIsInConversation
  <2> QED
    BY <1>4, <1>22, <2>2, <2>3, <2>4, ComesToItsEnd
<1>23. ASSUME NEW p, NEW degraded, NEW personal, RunAgent(p, degraded, personal) PROVE PipelineInv'
  <2>1. /\ at = "guard" /\ at' = "over" /\ ended' = Tell("completed") /\ UNCHANGED <<on, ask>>
        /\ shelf' = shelf \/ shelf'.sound = TRUE
    BY <1>23 DEF RunAgent
  <2>2. (rows' = "both" \/ answerFaults' > 0) /\ answerFaults' \in Nat
    BY <1>1, <1>23 DEF RunAgent, Saves, AnswerFault, DraftTypes
  <2>3. draft = BlankDraft
    BY <1>1, <2>1 DEF NothingYet
  <2>4. draft' = [es |-> 0, grade |-> "none", action |-> "agent", conf |-> "none",
                  short |-> FALSE, exchanged |-> 0, by |-> p, again |-> NoModel,
                  text |-> "whole"]
    BY <1>23, <2>3 DEF RunAgent, BlankDraft
  <2> QED
    BY <1>22, <2>1, <2>2, <2>4
<1>24. CASE AgentFails
  <2>1. /\ at = "guard" /\ at' = "over" /\ ended' = Tell("completed")
        /\ UNCHANGED <<on, ask, shelf>>
    BY <1>24 DEF AgentFails
  <2>2. draft = BlankDraft
    BY <1>1, <2>1 DEF NothingYet
  <2>3. draft' = [es |-> 0, grade |-> "none", action |-> "failed", conf |-> "none",
                  short |-> FALSE, exchanged |-> 0, by |-> NoModel, again |-> NoModel,
                  text |-> "none"]
    BY <1>24, <2>2 DEF AgentFails, BlankDraft
  <2>4. answerFaults' > 0 /\ answerFaults' \in Nat
    BY <1>1, <1>24 DEF AgentFails, AnswerFault, DraftTypes
  <2> QED
    BY <1>22, <2>1, <2>4, <2>3
<1>25. ASSUME at \notin {"over", "failed"}, at' \in {"over", "failed"}, NEW e \in Ends,
              ended' = Tell(e), AnswerFault, draft' = [draft EXCEPT !.action = "aborted"],
              UNCHANGED <<on, ask, shelf>>
       PROVE  PipelineInv'
  <2>1. ended' \in [Ends -> Nat] /\ answerFaults' \in Nat /\ answerFaults' > 0
    BY <1>1, <1>25, TellOnce DEF ToldInv, AnswerFault, DraftTypes
  <2>2. DraftTypes' /\ draft'.action = "aborted"
    BY <1>1, <1>25, <2>1 DEF DraftTypes
  <2>3. RefusedIsNoted' /\ AnswerIsInConversation'
    BY <2>1, <2>2 DEF RefusedIsNoted, AnswerIsInConversation
  <2> QED
    BY <1>25, <2>2, <2>3, ComesToItsEnd
<1>26. CASE Disconnect
  BY <1>4, <1>25, <1>26 DEF Disconnect
<1>27. CASE RaiseOut
  <2>1. /\ at' = "failed" /\ AnswerFault /\ draft' = [draft EXCEPT !.action = "aborted"]
        /\ UNCHANGED <<on, ask, shelf>>
        /\ at \notin {"over", "failed"} \/ (at = "over" /\ ask.wire = "ws")
        /\ ended' = IF ask.wire = "ws" THEN [ended EXCEPT !["error"] = @ + 1] ELSE Tell("error")
    BY <1>27 DEF RaiseOut
  <2>2. CASE ask.wire # "ws"
    BY <1>4, <1>25, <2>1, <2>2
  <2>3. CASE ask.wire = "ws"
    <3>1. ended' = [ended EXCEPT !["error"] = @ + 1]
      BY <2>1, <2>3
    <3>2. ended' \in [Ends -> Nat] /\ answerFaults' \in Nat
          /\ ended'["completed"] + ended'["error"] + ended'["aborted"] >= 1
      BY <1>1, <2>1, <3>1 DEF DraftTypes, AnswerFault, Ends
    <3>3. DraftTypes'
      BY <1>1, <2>1, <3>2 DEF DraftTypes
    <3>4. NothingYet' /\ SureInv' /\ ExchangeInv' /\ ToldInv'
      BY <2>1 DEF NothingYet, SureInv, ExchangeInv, ToldInv
    <3>5. HighIsEarned' /\ ExchangedOnce' /\ RefusedIsNoted' /\ AnswerIsInConversation'
      BY <1>1, <2>1, <3>3
         DEF AnswersHold, HighIsEarned, NoEntry, ExchangedOnce, DraftTypes, RefusedIsNoted,
             AnswerIsInConversation
    <3>6. EndIsTold'
      BY <2>1, <2>3, <3>2 DEF EndIsTold
    <3> QED
      BY <3>3, <3>4, <3>5, <3>6 DEF PipelineInv, AnswersHold
  <2> QED
    BY <2>2, <2>3
<1>28. CASE LeaveQuestion
  <2>1. /\ at' = "idle" /\ draft' = BlankDraft /\ ended' = NoEnds
        /\ UNCHANGED <<on, shelf, answerFaults>>
    BY <1>28 DEF LeaveQuestion
  <2>2. DraftTypes'
    BY <1>1, <1>3, <2>1 DEF DraftTypes, BlankDraft, NoEnds, Ends
  <2>3. NothingYet' /\ SureInv' /\ ExchangeInv' /\ ToldInv'
    BY <2>1 DEF NothingYet, SureInv, ExchangeInv, ToldInv, BlankDraft
  <2>4. HighIsEarned' /\ ExchangedOnce' /\ RefusedIsNoted' /\ AnswerIsInConversation'
    BY <1>1, <2>1, <2>2 DEF AnswersHold, HighIsEarned, NoEntry, ExchangedOnce, DraftTypes,
                            RefusedIsNoted, AnswerIsInConversation
  <2>5. EndIsTold'
    BY <2>1 DEF EndIsTold, NoEnds, Ends
  <2> QED
    BY <2>2, <2>3, <2>4, <2>5 DEF PipelineInv, AnswersHold
<1>29. CASE UNCHANGED answerVars
  BY <1>15, <1>29 DEF answerVars
<1>30. ASSUME ModelFails \/ (at = "idle" /\ RouterEnv /\ UNCHANGED flowVars) PROVE PipelineInv'
  BY <1>15, <1>30 DEF ModelFails
<1> QED
  BY <1>5, <1>6, <1>7, <1>8, <1>9, <1>10, <1>11, <1>12, <1>14, <1>16, <1>17, <1>18, <1>19, <1>20,
     <1>21, <1>23, <1>24, <1>26, <1>27, <1>28, <1>29, <1>30 DEF AnswerNext

\* Whatever switches are on, whichever models fail and whoever leaves: what is kept as sure was
\* earned, evidence is exchanged once, a refusal is noted, the end is told once and what was
\* written is in the conversation.
THEOREM AnswersStandUp == AnswerSpec => []AnswersHold
<1>1. PipelineInv => AnswersHold
  BY DEF PipelineInv
<1> QED
  BY <1>1, PipelineStart, PipelineStep, PTL DEF AnswerSpec

-----------------------------------------------------------------------------
(* What the checks of a draft leave.                                       *)

\* An answer in which a lone number has a passage, and whose list held.
LoneNumbersIn(text, plain) ==
    plain => \A s \in DOMAIN text : \A group \in text[s].groups :
                Len(group) = 1 => CitePassage(group[1]) # ""

LEMMA MarkedText ==
    ASSUME NEW d \in WrittenDrafts, NEW marks
    PROVE  /\ DOMAIN WithMarks(d, marks) = DOMAIN d.text
           /\ \A s \in DOMAIN d.text : \A group \in WithMarks(d, marks)[s].groups :
                Len(group) = 1 => group = <<group[1]>> /\ group[1] \in Range(group)
<1>1. \A s \in DOMAIN d.text : \A group \in d.text[s].groups : group \in Seq(Nat)
  BY CitationAssumption
<1>2. ASSUME NEW group \in Seq(Nat), Len(group) = 1
      PROVE  group = <<group[1]>> /\ group[1] \in Range(group)
  <2>1. DOMAIN group = 1..1 /\ group = <<group[1]>>
    BY <1>2
  <2> QED  BY <2>1 DEF Range
<1>3. ASSUME NEW x PROVE x = <<x>>[1] /\ x \in Range(<<x>>)
  BY DEF Range
<1>4. CASE d.structured \/ ~marks
  BY <1>1, <1>2, <1>4 DEF WithMarks
<1>5. CASE ~(d.structured \/ ~marks)
  <2>1. /\ DOMAIN WithMarks(d, marks) = DOMAIN d.text
        /\ \A s \in DOMAIN d.text :
              \/ WithMarks(d, marks)[s] = d.text[s]
              \/ WithMarks(d, marks)[s].groups = {<<NearestTo(d.text[s])>>}
    BY <1>5 DEF WithMarks
  <2>2. ASSUME NEW s \in DOMAIN d.text, NEW group \in WithMarks(d, marks)[s].groups,
               Len(group) = 1
        PROVE  group = <<group[1]>> /\ group[1] \in Range(group)
    <3>1. CASE WithMarks(d, marks)[s] = d.text[s]
      BY <1>1, <1>2, <2>2, <3>1
    <3>2. CASE WithMarks(d, marks)[s].groups = {<<NearestTo(d.text[s])>>}
      BY <1>3, <2>2, <3>2
    <3> QED  BY <2>1, <3>1, <3>2
  <2> QED  BY <2>1, <2>2
<1> QED  BY <1>4, <1>5

LEMMA DroppedFails ==
    ASSUME NEW map, NEW embeds, NEW judges
    PROVE  LET v == Verdict1(map, embeds, judges) IN
           /\ \A item \in map : item.ref \notin v.dropped => item \in v.kept
           /\ \A item \in v.kept : CitePassage(item.ref) # ""
  BY DEF Verdict1, HoldsUp

LEMMA TextIsCut ==
    ASSUME NEW text, NEW dropped
    PROVE  /\ DOMAIN CutText(text, dropped) = DOMAIN text
           /\ \A s \in DOMAIN text : \A group \in CutText(text, dropped)[s].groups :
                 group \in text[s].groups /\ \A ref \in dropped : group # <<ref>>
  BY DEF CutText

\* Whatever fails, the checks leave no lone number without a passage in a text that told its own
\* citations, and list only what they kept.
LEMMA ChecksHold ==
    ASSUME NEW d \in WrittenDrafts, NEW marks, NEW embeds, NEW judges
    PROVE  LET v == CheckOf(d, marks, embeds, judges) IN
           LoneNumbersIn(v.text, v.plain) /\ RefsOf(v.shown) \subseteq RefsOf(v.kept)
<1> DEFINE text == WithMarks(d, marks)
           map == CitationMap(d, text)
           verdict == Verdict1(map, embeds, judges)
           v == CheckOf(d, marks, embeds, judges)
<1>1. /\ v.text = CutText(text, verdict.dropped) /\ v.kept = verdict.kept
      /\ v.shown = {item \in map : item.ref \notin verdict.dropped} /\ v.plain = ~d.structured
  BY DEF CheckOf
<1>2. /\ \A item \in map : item.ref \notin verdict.dropped => item \in verdict.kept
      /\ \A item \in verdict.kept : CitePassage(item.ref) # ""
  BY DroppedFails
<1>3. RefsOf(v.shown) \subseteq RefsOf(v.kept)
  BY <1>1, <1>2 DEF RefsOf
<1>4. ASSUME ~d.structured, NEW s \in DOMAIN v.text, NEW group \in v.text[s].groups,
             Len(group) = 1
      PROVE  CitePassage(group[1]) # ""
  <2>1. /\ s \in DOMAIN text /\ group \in text[s].groups
        /\ \A ref \in verdict.dropped : group # <<ref>>
    BY <1>1, <1>4, TextIsCut
  <2>2. group = <<group[1]>> /\ group[1] \in Range(group)
    BY <1>4, <2>1, MarkedText
  <2>3. group[1] \in NumbersOf(text[s])
    BY <2>1, <2>2 DEF NumbersOf
  <2> DEFINE item == [sentence |-> text[s].id, ref |-> group[1], stands |-> group[1]]
  <2>4. item \in map
    BY <1>4, <2>1, <2>3 DEF CitationMap
  <2>5. item.ref = group[1]
    OBVIOUS
  <2>6. group[1] \notin verdict.dropped
    BY <2>1, <2>2
  <2>7. item \in verdict.kept
    BY <1>2, <2>4, <2>5, <2>6
  <2> HIDE DEF item
  <2> QED  BY <1>2, <2>5, <2>7
<1>5. LoneNumbersIn(v.text, v.plain)
  BY <1>1, <1>4 DEF LoneNumbersIn
<1> QED  BY <1>3, <1>5

-----------------------------------------------------------------------------
(* The inductive invariant.                                                *)

IsAnswer(a) ==
    \E no, stream, again, plain, kept, shown, text, labels :
        a = [no |-> no, stream |-> stream, again |-> again, plain |-> plain,
             kept |-> kept, shown |-> shown, text |-> text, labels |-> labels]
IsLate(l) == \E spot, refs, entry : l = [at |-> spot, refs |-> refs, entry |-> entry]

\* What is true of an answer wherever it is: in a request, kept, or in the hands of a check.
SoundAnswer(a) == LoneNumbersIn(a.text, a.plain) /\ RefsOf(a.shown) \subseteq RefsOf(a.kept)
LabelsOn(a) == \A l \in a.labels : ~a.stream /\ l.of # a.no
AnswersAnywhere == AnswersHeld \cup {lateChecks[n].entry : n \in AnswerNos}

AnswersInv ==
    /\ DOMAIN answering = Checkers /\ DOMAIN lateChecks = AnswerNos
    /\ checked \in Nat /\ disposed \subseteq 1..checked
    /\ \A a \in AnswersAnywhere :
          /\ IsAnswer(a) /\ SoundAnswer(a) /\ LabelsOn(a)
          /\ a.no \in 0..checked /\ (a # BlankAnswer => a.no # 0)

\* The number of an answer that is still being made is on no other, and not yet thrown away.
AnswersOnce ==
    \A c \in Checkers : answering[c] # BlankAnswer =>
        /\ answering[c].no \notin disposed \cup {keptAnswer.no}
        /\ \A n \in AnswerNos : answering[c].no # lateChecks[n].entry.no
        /\ \A b \in Checkers : b # c => answering[b].no # answering[c].no

\* A background check works for an answer that was streamed, on one that was not.
LateInv ==
    \A n \in AnswerNos :
        /\ IsLate(lateChecks[n])
        /\ ~lateChecks[n].entry.stream
        /\ lateChecks[n].at = "read" => lateChecks[n].entry # BlankAnswer
        /\ lateChecks[n].at # "read" => lateChecks[n].entry = BlankAnswer
        /\ lateChecks[n].at # "none" =>
              /\ n <= checked
              /\ \A a \in AnswersAnywhere : a.no = n => a.stream

\* An answer that was thrown away is only kept, or held by a check, after a check had held one.
GoneInv ==
    /\ torn \in BOOLEAN
    /\ keptAnswer.no \in disposed => torn
    /\ \A n \in AnswerNos : lateChecks[n].entry.no \in disposed => torn

CitesInv == AnswersInv /\ AnswersOnce /\ LateInv /\ GoneInv

-----------------------------------------------------------------------------
(* Facts about answers.                                                    *)

LEMMA BlankIs ==
    /\ BlankAnswer.no = 0 /\ BlankAnswer.stream = FALSE /\ BlankAnswer.labels = {}
    /\ IsAnswer(BlankAnswer) /\ SoundAnswer(BlankAnswer) /\ LabelsOn(BlankAnswer)
<1>1. BlankAnswer = [no |-> 0, stream |-> FALSE, again |-> FALSE, plain |-> FALSE,
                     kept |-> {}, shown |-> {}, text |-> <<>>, labels |-> {}]
  BY DEF BlankAnswer, AnswerOf
<1>2. IsAnswer(BlankAnswer)
  BY <1>1 DEF IsAnswer
<1>3. SoundAnswer(BlankAnswer)
  BY <1>1 DEF SoundAnswer, LoneNumbersIn, RefsOf
<1> QED  BY <1>1, <1>2, <1>3 DEF LabelsOn

LEMMA CheckedAnswer ==
    ASSUME NEW d \in WrittenDrafts, NEW o \in UnderCheck(d), NEW n, NEW stream \in BOOLEAN,
           NEW again \in BOOLEAN
    PROVE  LET a == AnswerOf(n, stream, again, o.verdict) IN
           /\ IsAnswer(a) /\ SoundAnswer(a) /\ LabelsOn(a)
<1> DEFINE a == AnswerOf(n, stream, again, o.verdict)
<1>1. PICK marks, embeds, judges : o.verdict = CheckOf(d, marks, embeds, judges)
  BY SMT DEF UnderCheck
<1>2. /\ a = [no |-> n, stream |-> stream, again |-> again, plain |-> o.verdict.plain,
              kept |-> o.verdict.kept, shown |-> o.verdict.shown, text |-> o.verdict.text,
              labels |-> {}]
  BY DEF AnswerOf
<1> HIDE DEF a
<1>3. IsAnswer(a)
  BY <1>2 DEF IsAnswer
<1>4. /\ LoneNumbersIn(o.verdict.text, o.verdict.plain)
      /\ RefsOf(o.verdict.shown) \subseteq RefsOf(o.verdict.kept)
  BY <1>1, ChecksHold
<1>5. SoundAnswer(a)
  BY <1>2, <1>4 DEF SoundAnswer
<1>6. a.no = n /\ a.stream = stream /\ a.labels = {} /\ LabelsOn(a)
  BY <1>2 DEF LabelsOn
<1> QED  BY <1>3, <1>5, <1>6 DEF a

LEMMA BareAnswer ==
    ASSUME NEW a, IsAnswer(a), SoundAnswer(a), LabelsOn(a)
    PROVE  LET b == [a EXCEPT !.kept = {}, !.shown = {}] IN
           /\ IsAnswer(b) /\ SoundAnswer(b) /\ LabelsOn(b)
           /\ b.no = a.no /\ b.stream = a.stream
<1> DEFINE b == [a EXCEPT !.kept = {}, !.shown = {}]
<1>1. PICK no, stream, again, plain, kept, shown, text, labels :
        a = [no |-> no, stream |-> stream, again |-> again, plain |-> plain,
             kept |-> kept, shown |-> shown, text |-> text, labels |-> labels]
  BY DEF IsAnswer
<1> DEFINE k == [a EXCEPT !.kept = {}]
<1>7. k = [no |-> no, stream |-> stream, again |-> again, plain |-> plain,
           kept |-> {}, shown |-> shown, text |-> text, labels |-> labels]
  BY <1>1
<1>8. b = [k EXCEPT !.shown = {}]
  OBVIOUS
<1> HIDE DEF k, b
<1>2. b = [no |-> no, stream |-> stream, again |-> again, plain |-> plain,
           kept |-> {}, shown |-> {}, text |-> text, labels |-> labels]
  BY <1>7, <1>8
<1>3. IsAnswer(b)
  BY <1>2 DEF IsAnswer
<1>4. SoundAnswer(b)
  BY <1>1, <1>2 DEF SoundAnswer, RefsOf
<1>5. b.no = a.no /\ b.stream = a.stream /\ b.labels = a.labels
  BY <1>1, <1>2
<1>6. LabelsOn(b)
  BY <1>5 DEF LabelsOn
<1> QED  BY <1>3, <1>4, <1>5, <1>6 DEF b

LEMMA LabelledAnswer ==
    ASSUME NEW a, IsAnswer(a), SoundAnswer(a), ~a.stream, NEW more, \A l \in more : l.of # a.no
    PROVE  LET b == [a EXCEPT !.labels = more] IN
           /\ IsAnswer(b) /\ SoundAnswer(b) /\ LabelsOn(b)
           /\ b.no = a.no /\ b.stream = a.stream
<1> DEFINE b == [a EXCEPT !.labels = more]
<1>1. PICK no, stream, again, plain, kept, shown, text, labels :
        a = [no |-> no, stream |-> stream, again |-> again, plain |-> plain,
             kept |-> kept, shown |-> shown, text |-> text, labels |-> labels]
  BY DEF IsAnswer
<1>2. b = [no |-> no, stream |-> stream, again |-> again, plain |-> plain,
           kept |-> kept, shown |-> shown, text |-> text, labels |-> more]
  BY <1>1
<1> HIDE DEF b
<1>3. IsAnswer(b)
  BY <1>2 DEF IsAnswer
<1>4. SoundAnswer(b)
  BY <1>1, <1>2 DEF SoundAnswer
<1>5. b.no = a.no /\ b.stream = a.stream /\ b.labels = more
  BY <1>1, <1>2
<1>6. LabelsOn(b)
  BY <1>5 DEF LabelsOn
<1> QED  BY <1>3, <1>4, <1>5, <1>6 DEF b

LEMMA AnywhereIs ==
    /\ keptAnswer \in AnswersAnywhere
    /\ \A c \in Checkers : answering[c] \in AnswersAnywhere
    /\ \A n \in AnswerNos : lateChecks[n].entry \in AnswersAnywhere
    /\ \A a \in AnswersAnywhere :
          \/ a = keptAnswer
          \/ \E c \in Checkers : a = answering[c]
          \/ \E n \in AnswerNos : a = lateChecks[n].entry
  BY DEF AnswersAnywhere, AnswersHeld

\* What a step that gives an answer a new spot, and makes none, must show.
LEMMA NoNewAnswer ==
    ASSUME CitesInv, checked' = checked, disposed' \subseteq 1..checked,
           DOMAIN answering' = Checkers, DOMAIN lateChecks' = AnswerNos,
           \A a \in AnswersAnywhere' :
               a \in AnswersAnywhere \/ a = BlankAnswer
               \/ /\ IsAnswer(a) /\ SoundAnswer(a) /\ LabelsOn(a)
                  /\ \E b \in AnswersAnywhere :
                        a.no = b.no /\ a.stream = b.stream /\ b # BlankAnswer
    PROVE  /\ AnswersInv'
           /\ \A n \in AnswerNos : n <= checked
                 /\ (\A a \in AnswersAnywhere : a.no = n => a.stream)
                 => \A a \in AnswersAnywhere' : a.no = n => a.stream
<1> USE DEF CitesInv, AnswersInv
<1>1. ASSUME NEW a \in AnswersAnywhere'
      PROVE  /\ IsAnswer(a) /\ SoundAnswer(a) /\ LabelsOn(a)
             /\ a.no \in 0..checked /\ (a # BlankAnswer => a.no # 0)
  BY <1>1, BlankIs
<1>2. AnswersInv'
  BY <1>1
<1>3. ASSUME NEW n \in AnswerNos, \A a \in AnswersAnywhere : a.no = n => a.stream,
             NEW a \in AnswersAnywhere', a.no = n
      PROVE  a.stream
  <2>1. CASE a \in AnswersAnywhere
    BY ONLY <1>3, <2>1
  <2>2. CASE a = BlankAnswer
    <3>1. a.no = 0 /\ n # 0
      BY ONLY <2>2, BlankIs, n \in AnswerNos, CitationAssumption DEF AnswerNos
    <3> QED  BY <1>3, <3>1
  <2>3. CASE \E b \in AnswersAnywhere :
                a.no = b.no /\ a.stream = b.stream /\ b # BlankAnswer
    BY ONLY <1>3, <2>3
  <2> QED  BY <2>1, <2>2, <2>3
<1> QED  BY <1>2, <1>3

LEMMA InitCites == CitationsInit => CitesInv
<1> SUFFICES ASSUME CitationsInit PROVE CitesInv
  OBVIOUS
<1> USE DEF CitationsInit
<1>1. \A n \in AnswerNos : /\ IsLate(lateChecks[n]) /\ lateChecks[n].entry = BlankAnswer
                           /\ lateChecks[n].at = "none"
  BY DEF NotLate, IsLate
<1>2. \A a \in AnswersAnywhere : a = BlankAnswer
  BY <1>1 DEF AnswersAnywhere, AnswersHeld
<1>3. AnswersInv
  BY <1>2, BlankIs DEF AnswersInv
<1>4. AnswersOnce
  BY DEF AnswersOnce
<1>5. LateInv
  BY <1>1, BlankIs DEF LateInv
<1>6. GoneInv
  BY <1>1, BlankIs DEF GoneInv
<1> QED  BY <1>3, <1>4, <1>5, <1>6 DEF CitesInv

LEMMA KeepKeeps == ASSUME CitesInv, NEW c \in Checkers, KeepAnswer(c) PROVE CitesInv'
<1> USE DEF KeepAnswer
<1> DEFINE a == answering[c]
<1>1. /\ a # BlankAnswer /\ a \in AnswersAnywhere
      /\ IsAnswer(a) /\ SoundAnswer(a) /\ LabelsOn(a) /\ DOMAIN answering = Checkers
  BY AnywhereIs DEF CitesInv, AnswersInv
<1>2. /\ DOMAIN answering' = Checkers /\ answering'[c] = BlankAnswer
      /\ \A b \in Checkers : b # c => answering'[b] = answering[b]
  BY <1>1
<1>3. \/ keptAnswer' = keptAnswer
      \/ /\ IsAnswer(keptAnswer') /\ SoundAnswer(keptAnswer') /\ LabelsOn(keptAnswer')
         /\ keptAnswer'.no = a.no /\ keptAnswer'.stream = a.stream
  BY <1>1, BareAnswer
<1> HIDE DEF a, KeepAnswer
<1>4. /\ AnswersInv'
      /\ \A n \in AnswerNos : n <= checked
            /\ (\A x \in AnswersAnywhere : x.no = n => x.stream)
            => \A x \in AnswersAnywhere' : x.no = n => x.stream
  <2>1. lateChecks' = lateChecks /\ checked' = checked /\ disposed' = disposed
    BY DEF KeepAnswer
  <2>2. ASSUME NEW x \in AnswersAnywhere'
        PROVE  \/ x \in AnswersAnywhere \/ x = BlankAnswer
               \/ /\ IsAnswer(x) /\ SoundAnswer(x) /\ LabelsOn(x)
                  /\ x.no = a.no /\ x.stream = a.stream
    <3>1. \/ x = keptAnswer'
          \/ \E b \in Checkers : x = answering'[b]
          \/ \E n \in AnswerNos : x = lateChecks'[n].entry
      BY DEF AnswersAnywhere, AnswersHeld
    <3> QED  BY <1>2, <1>3, <2>1, <3>1, AnywhereIs
  <2>3. DOMAIN lateChecks' = AnswerNos /\ disposed' \subseteq 1..checked
    BY <2>1 DEF CitesInv, AnswersInv
  <2> QED  BY <1>1, <1>2, <2>1, <2>2, <2>3, NoNewAnswer
<1>5. lateChecks' = lateChecks /\ checked' = checked /\ disposed' = disposed /\ torn' = torn
  BY DEF KeepAnswer
<1>6. AnswersOnce'
  <2> SUFFICES ASSUME NEW b \in Checkers, answering'[b] # BlankAnswer
               PROVE  /\ answering'[b].no \notin disposed \cup {keptAnswer'.no}
                      /\ \A n \in AnswerNos : answering'[b].no # lateChecks[n].entry.no
                      /\ \A e \in Checkers : e # b => answering'[e].no # answering'[b].no
    BY <1>5 DEF AnswersOnce
  <2>1. b # c /\ answering'[b] = answering[b]
    BY <1>2
  <2>2. answering[b].no # 0
    BY <2>1, AnywhereIs DEF CitesInv, AnswersInv
  <2>3. answering[b].no # a.no
    BY <1>1, <2>1 DEF CitesInv, AnswersOnce, a
  <2> QED  BY <1>2, <1>3, <2>1, <2>2, <2>3, BlankIs DEF CitesInv, AnswersOnce
<1>7. LateInv'
  BY <1>4, <1>5 DEF CitesInv, LateInv
<1>8. GoneInv'
  <2>1. a.no \notin disposed
    BY <1>1 DEF CitesInv, AnswersOnce, a
  <2> QED  BY <1>3, <1>5, <2>1 DEF CitesInv, GoneInv
<1> QED  BY <1>4, <1>6, <1>7, <1>8 DEF CitesInv

LEMMA AgainKeeps ==
    ASSUME CitesInv, NEW c \in Checkers, NEW d \in WrittenDrafts, AnswerAgain(c, d)
    PROVE  CitesInv'
<1> DEFINE a == answering[c]
<1>1. /\ a # BlankAnswer /\ a \in AnswersAnywhere /\ ~a.stream /\ DOMAIN answering = Checkers
  BY AnywhereIs DEF CitesInv, AnswersInv, AnswerAgain
<1>11. PICK o \in UnderCheck(d) :
        answering' = [answering EXCEPT ![c] = AnswerOf(answering[c].no, FALSE, TRUE, o.verdict)]
  BY DEF AnswerAgain
<1>12. PICK no \in BOOLEAN, yes \in BOOLEAN : no = FALSE /\ yes = TRUE
  OBVIOUS
<1> DEFINE b == AnswerOf(a.no, no, yes, o.verdict)
<1>2. answering' = [answering EXCEPT ![c] = b]
  BY <1>11, <1>12, Zenon
<1>3. /\ IsAnswer(b) /\ SoundAnswer(b) /\ LabelsOn(b) /\ b.no = a.no /\ b.stream = no
  <2>1. IsAnswer(b) /\ SoundAnswer(b) /\ LabelsOn(b)
    BY CheckedAnswer
  <2>2. b.no = a.no /\ b.stream = no
    BY DEF AnswerOf
  <2> QED  BY <2>1, <2>2
<1>4. /\ DOMAIN answering' = Checkers /\ answering'[c] = b
      /\ \A e \in Checkers : e # c => answering'[e] = answering[e]
  BY <1>1, <1>2
<1> HIDE DEF a, b
<1>5. /\ keptAnswer' = keptAnswer /\ lateChecks' = lateChecks /\ checked' = checked
      /\ disposed' = disposed /\ torn' = torn
  BY DEF AnswerAgain
<1>6. ASSUME NEW x \in AnswersAnywhere' PROVE x \in AnswersAnywhere \/ x = b
  <2>1. \/ x = keptAnswer'
        \/ \E e \in Checkers : x = answering'[e]
        \/ \E n \in AnswerNos : x = lateChecks'[n].entry
    BY DEF AnswersAnywhere, AnswersHeld
  <2> QED  BY <1>4, <1>5, <2>1, AnywhereIs
<1>7. AnswersInv'
  <2>1. a.no \in 0..checked /\ a.no # 0
    BY <1>1 DEF CitesInv, AnswersInv
  <2> QED  BY <1>3, <1>4, <1>5, <1>6, <2>1 DEF CitesInv, AnswersInv
<1>8. AnswersOnce'
  BY <1>1, <1>3, <1>4, <1>5 DEF CitesInv, AnswersOnce, a
<1>9. LateInv'
  <2>1. \A n \in AnswerNos : lateChecks[n].at # "none" => b.no # n
    BY <1>1, <1>3 DEF CitesInv, LateInv
  <2> QED  BY <1>5, <1>6, <2>1 DEF CitesInv, LateInv
<1>10. GoneInv'
  BY <1>5 DEF CitesInv, GoneInv
<1> QED  BY <1>7, <1>8, <1>9, <1>10 DEF CitesInv

LEMMA LateBlank ==
    /\ NotLate = [at |-> "none", refs |-> {}, entry |-> BlankAnswer]
    /\ NotLate.entry = BlankAnswer /\ NotLate.at = "none" /\ IsLate(NotLate)
  BY DEF NotLate, IsLate

LEMMA LateEnds ==
    ASSUME NEW x
    PROVE  LET l == [NotLate EXCEPT !.at = x] IN
           IsLate(l) /\ l.at = x /\ l.entry = BlankAnswer
<1>1. NotLate = [at |-> "none", refs |-> {}, entry |-> BlankAnswer]
  BY LateBlank
<1>2. [NotLate EXCEPT !.at = x] = [at |-> x, refs |-> {}, entry |-> BlankAnswer]
  BY <1>1
<1> QED  BY <1>2 DEF IsLate

LEMMA LateBegins ==
    ASSUME NEW x, NEW refs
    PROVE  LET l == [NotLate EXCEPT !.at = x, !.refs = refs] IN
           IsLate(l) /\ l.at = x /\ l.entry = BlankAnswer
<1> DEFINE k == [NotLate EXCEPT !.at = x]
           l == [NotLate EXCEPT !.at = x, !.refs = refs]
<1>1. k = [at |-> x, refs |-> {}, entry |-> BlankAnswer]
  BY LateBlank
<1>2. l = [k EXCEPT !.refs = refs]
  OBVIOUS
<1> HIDE DEF k, l
<1>3. l = [at |-> x, refs |-> refs, entry |-> BlankAnswer]
  BY <1>1, <1>2
<1>4. IsLate(l) /\ l.at = x /\ l.entry = BlankAnswer
  BY <1>3 DEF IsLate
<1> QED  BY <1>4 DEF l

LEMMA LateMoves ==
    ASSUME NEW l, IsLate(l), NEW x
    PROVE  LET m == [l EXCEPT !.at = x] IN IsLate(m) /\ m.at = x /\ m.entry = l.entry
<1>1. PICK spot, refs, entry : l = [at |-> spot, refs |-> refs, entry |-> entry]
  BY DEF IsLate
<1>2. [l EXCEPT !.at = x] = [at |-> x, refs |-> refs, entry |-> entry]
  BY <1>1
<1> QED  BY <1>1, <1>2 DEF IsLate

LEMMA LateTakes ==
    ASSUME NEW l, IsLate(l), NEW e
    PROVE  LET m == [l EXCEPT !.entry = e] IN IsLate(m) /\ m.at = l.at /\ m.entry = e
<1>1. PICK spot, refs, entry : l = [at |-> spot, refs |-> refs, entry |-> entry]
  BY DEF IsLate
<1>2. [l EXCEPT !.entry = e] = [at |-> spot, refs |-> refs, entry |-> e]
  BY <1>1
<1> QED  BY <1>1, <1>2 DEF IsLate

\* A step of a background check, up to the last: it lets go of what it held, or takes a copy.
LEMMA LateGoes ==
    ASSUME CitesInv, NEW n \in AnswerNos, NEW l,
           lateChecks' = [lateChecks EXCEPT ![n] = l], lateChecks[n].at # "none", IsLate(l),
           \/ l.at # "read" /\ l.entry = BlankAnswer
           \/ /\ l.at = "read" /\ l.entry = keptAnswer
              /\ keptAnswer # BlankAnswer /\ ~keptAnswer.stream,
           UNCHANGED <<answering, keptAnswer, checked, disposed, torn>>
    PROVE  CitesInv'
<1>1. /\ DOMAIN lateChecks' = AnswerNos /\ lateChecks'[n] = l
      /\ \A m \in AnswerNos : m # n => lateChecks'[m] = lateChecks[m]
  BY DEF CitesInv, AnswersInv
<1>2. l.entry = keptAnswer \/ l.entry = BlankAnswer
  OBVIOUS
<1>3. ASSUME NEW x \in AnswersAnywhere' PROVE x \in AnswersAnywhere \/ x = BlankAnswer
  <2>1. \/ x = keptAnswer'
        \/ \E e \in Checkers : x = answering'[e]
        \/ \E m \in AnswerNos : x = lateChecks'[m].entry
    BY DEF AnswersAnywhere, AnswersHeld
  <2> QED  BY <1>1, <1>2, <2>1, AnywhereIs
<1>4. /\ AnswersInv'
      /\ \A m \in AnswerNos : m <= checked
            /\ (\A x \in AnswersAnywhere : x.no = m => x.stream)
            => \A x \in AnswersAnywhere' : x.no = m => x.stream
  <2>1. DOMAIN answering' = Checkers /\ disposed' \subseteq 1..checked /\ checked' = checked
    BY DEF CitesInv, AnswersInv
  <2> QED  BY <1>1, <1>3, <2>1, NoNewAnswer
<1>5. AnswersOnce'
  <2>1. \A c \in Checkers : answering[c] # BlankAnswer => answering[c].no # 0
    BY AnywhereIs DEF CitesInv, AnswersInv
  <2> QED  BY <1>1, <1>2, <2>1, BlankIs DEF CitesInv, AnswersOnce
<1>6. LateInv'
  <2> SUFFICES ASSUME NEW m \in AnswerNos
               PROVE  /\ IsLate(lateChecks'[m]) /\ ~lateChecks'[m].entry.stream
                      /\ lateChecks'[m].at = "read" => lateChecks'[m].entry # BlankAnswer
                      /\ lateChecks'[m].at # "read" => lateChecks'[m].entry = BlankAnswer
                      /\ lateChecks'[m].at # "none" =>
                            /\ m <= checked
                            /\ \A a \in AnswersAnywhere' : a.no = m => a.stream
    BY DEF LateInv
  <2>1. lateChecks'[m].at # "none" => lateChecks[m].at # "none"
    BY <1>1
  <2>2. /\ IsLate(lateChecks'[m]) /\ ~lateChecks'[m].entry.stream
        /\ lateChecks'[m].at = "read" => lateChecks'[m].entry # BlankAnswer
        /\ lateChecks'[m].at # "read" => lateChecks'[m].entry = BlankAnswer
    BY <1>1, BlankIs DEF CitesInv, LateInv
  <2> QED  BY <1>4, <2>1, <2>2 DEF CitesInv, LateInv
<1>7. GoneInv'
  <2>1. BlankAnswer.no \notin disposed
    BY BlankIs DEF CitesInv, AnswersInv
  <2> QED  BY <1>1, <1>2, <2>1 DEF CitesInv, GoneInv
<1> QED  BY <1>4, <1>5, <1>6, <1>7 DEF CitesInv

LEMMA LateWorkKeeps ==
    ASSUME CitesInv, NEW n \in AnswerNos, LateJudges(n) \/ LateReads(n) \/ LateFails(n)
    PROVE  CitesInv'
<1>1. IsLate(lateChecks[n]) /\ (lateChecks[n].at # "read" => lateChecks[n].entry = BlankAnswer)
  BY DEF CitesInv, LateInv
<1> DEFINE done == [NotLate EXCEPT !.at = "done"]
<1>2. IsLate(done) /\ done.at = "done" /\ done.entry = BlankAnswer
  BY LateEnds
<1>3. ASSUME lateChecks' = [lateChecks EXCEPT ![n] = done], lateChecks[n].at # "none",
             UNCHANGED <<answering, keptAnswer, checked, disposed, torn>>
      PROVE  CitesInv'
  <2> HIDE DEF done
  <2> QED  BY <1>2, <1>3, LateGoes
<1>4. CASE LateJudges(n)
  <2> DEFINE l == [lateChecks[n] EXCEPT !.at = "labelled"]
  <2>1. lateChecks[n].at = "begun" /\ UNCHANGED <<answering, keptAnswer, checked, disposed, torn>>
    BY <1>4 DEF LateJudges
  <2>2. IsLate(l) /\ l.at = "labelled" /\ l.entry = BlankAnswer
    BY <1>1, <2>1, LateMoves, Zenon
  <2>3. CASE lateChecks' = [lateChecks EXCEPT ![n].at = "labelled"]
    <3>1. lateChecks' = [lateChecks EXCEPT ![n] = l]
      BY <2>3
    <3> HIDE DEF l
    <3> QED  BY <2>1, <2>2, <3>1, LateGoes
  <2> QED  BY <1>3, <1>4, <2>1, <2>3 DEF LateJudges
<1>5. CASE LateReads(n)
  <2>1. lateChecks[n].at = "labelled"
        /\ UNCHANGED <<answering, keptAnswer, checked, disposed, torn>>
    BY <1>5 DEF LateReads
  <2>2. CASE keptAnswer = BlankAnswer \/ keptAnswer.stream
    BY <1>3, <1>5, <2>1, <2>2 DEF LateReads
  <2>3. CASE ~(keptAnswer = BlankAnswer \/ keptAnswer.stream)
    <3> DEFINE k == [lateChecks[n] EXCEPT !.at = "read"]
               l == [lateChecks[n] EXCEPT !.at = "read", !.entry = keptAnswer]
    <3>1. lateChecks' = [lateChecks EXCEPT ![n] = l]
      BY <1>5, <2>3 DEF LateReads
    <3>2. IsLate(k) /\ k.at = "read"
      BY <1>1, LateMoves, Zenon
    <3>3. l = [k EXCEPT !.entry = keptAnswer]
      OBVIOUS
    <3> HIDE DEF l, k
    <3>4. IsLate(l) /\ l.at = "read" /\ l.entry = keptAnswer
      BY <3>2, <3>3, LateTakes, Zenon
    <3> QED  BY <2>1, <2>3, <3>1, <3>4, LateGoes
  <2> QED  BY <2>2, <2>3
<1>6. CASE LateFails(n)
  BY <1>3, <1>6 DEF LateFails
<1> QED  BY <1>4, <1>5, <1>6

LEMMA ThrowKeeps == ASSUME CitesInv, ThrowAway PROVE CitesInv'
<1>1. /\ keptAnswer # BlankAnswer /\ keptAnswer' = BlankAnswer
      /\ disposed' = disposed \cup {keptAnswer.no} /\ lateChecks' = lateChecks
      /\ answering' = answering /\ checked' = checked
  BY DEF ThrowAway
<1>2. keptAnswer.no \in 0..checked /\ keptAnswer.no # 0 /\ checked \in Nat
  BY <1>1, AnywhereIs DEF CitesInv, AnswersInv
<1>3. disposed' \subseteq 1..checked /\ DOMAIN answering' = Checkers
      /\ DOMAIN lateChecks' = AnswerNos
  <2>1. keptAnswer.no \in 1..checked
    BY <1>2
  <2> QED  BY <1>1, <2>1 DEF CitesInv, AnswersInv
<1>4. ASSUME NEW x \in AnswersAnywhere' PROVE x \in AnswersAnywhere \/ x = BlankAnswer
  <2>1. \/ x = keptAnswer'
        \/ \E e \in Checkers : x = answering'[e]
        \/ \E m \in AnswerNos : x = lateChecks'[m].entry
    BY DEF AnswersAnywhere, AnswersHeld
  <2> QED  BY <1>1, <2>1, AnywhereIs
<1>5. /\ AnswersInv'
      /\ \A m \in AnswerNos : m <= checked
            /\ (\A x \in AnswersAnywhere : x.no = m => x.stream)
            => \A x \in AnswersAnywhere' : x.no = m => x.stream
  BY <1>1, <1>3, <1>4, NoNewAnswer
<1>6. AnswersOnce'
  <2>1. \A c \in Checkers : answering[c] # BlankAnswer => answering[c].no # 0
    BY AnywhereIs DEF CitesInv, AnswersInv
  <2> QED  BY <1>1, <2>1, BlankIs DEF CitesInv, AnswersOnce
<1>7. LateInv'
  BY <1>1, <1>5 DEF CitesInv, LateInv
<1>8. GoneInv'
  <2>1. BlankAnswer.no \notin disposed'
    BY <1>1, <1>2, BlankIs DEF CitesInv, AnswersInv
  <2>2. CASE \E n \in AnswerNos : lateChecks[n].at = "read"
    <3>1. torn' = TRUE
      BY <2>2 DEF ThrowAway
    <3> QED  BY <3>1 DEF GoneInv
  <2>3. CASE ~\E n \in AnswerNos : lateChecks[n].at = "read"
    <3>1. torn' \in BOOLEAN
      BY DEF ThrowAway
    <3>2. \A n \in AnswerNos : lateChecks[n].entry = BlankAnswer
      BY <2>3 DEF CitesInv, LateInv
    <3> QED  BY <1>1, <2>1, <3>1, <3>2 DEF GoneInv
  <2> QED  BY <2>2, <2>3
<1> QED  BY <1>5, <1>6, <1>7, <1>8 DEF CitesInv

LEMMA CheckKeeps ==
    ASSUME CitesInv, NEW c \in Checkers, NEW d \in WrittenDrafts, NEW stream \in BOOLEAN,
           CheckAnswer(c, d, stream)
    PROVE  CitesInv'
<1> DEFINE n == checked + 1
<1>1. /\ checked < MaxChecked /\ checked' = n /\ answering[c] = BlankAnswer
      /\ keptAnswer' = keptAnswer /\ disposed' = disposed /\ torn' = torn
  BY DEF CheckAnswer
<1>2. PICK o \in UnderCheck(d) :
        /\ answering' = [answering EXCEPT ![c] = AnswerOf(checked + 1, stream, FALSE, o.verdict)]
        /\ lateChecks' = IF checksLate /\ stream /\ o.verdict.kept # {}
                         THEN [lateChecks EXCEPT ![checked + 1] = [NotLate EXCEPT
                                  !.at = "begun", !.refs = RefsOf(o.verdict.kept)]]
                         ELSE lateChecks
  BY DEF CheckAnswer
<1>3. PICK no \in BOOLEAN : no = FALSE
  OBVIOUS
<1> DEFINE a == AnswerOf(n, stream, no, o.verdict)
           l == [NotLate EXCEPT !.at = "begun", !.refs = RefsOf(o.verdict.kept)]
<1>4. answering' = [answering EXCEPT ![c] = a]
  BY <1>2, <1>3, Zenon
<1>5. \/ lateChecks' = lateChecks
      \/ lateChecks' = [lateChecks EXCEPT ![n] = l] /\ stream
  BY <1>2
<1>6. IsAnswer(a) /\ SoundAnswer(a) /\ LabelsOn(a)
  BY CheckedAnswer
<1>7. a.no = n /\ a.stream = stream
  BY DEF AnswerOf
<1>8. IsLate(l) /\ l.at = "begun" /\ l.entry = BlankAnswer
  BY LateBegins
<1>9. /\ n \in AnswerNos /\ checked \in Nat /\ n = checked + 1
      /\ DOMAIN answering = Checkers /\ DOMAIN lateChecks = AnswerNos
      /\ \A x \in AnswersAnywhere : x.no \in 0..checked
  BY <1>1, CitationAssumption DEF CitesInv, AnswersInv, AnswerNos
<1> HIDE DEF n, a, l
<1>10. lateChecks[n].at = "none" /\ lateChecks[n].entry = BlankAnswer
  BY <1>9 DEF CitesInv, LateInv
<1>11. /\ DOMAIN answering' = Checkers /\ answering'[c] = a
       /\ \A e \in Checkers : e # c => answering'[e] = answering[e]
  BY <1>4, <1>9
<1>12. /\ DOMAIN lateChecks' = AnswerNos
       /\ \A m \in AnswerNos : lateChecks'[m].entry = lateChecks[m].entry
       /\ \A m \in AnswerNos : \/ lateChecks'[m] = lateChecks[m]
                               \/ m = n /\ lateChecks'[m] = l /\ stream
  BY <1>5, <1>8, <1>9, <1>10
<1>13. ASSUME NEW x \in AnswersAnywhere' PROVE x \in AnswersAnywhere \/ x = a
  <2>1. \/ x = keptAnswer'
        \/ \E e \in Checkers : x = answering'[e]
        \/ \E m \in AnswerNos : x = lateChecks'[m].entry
    BY DEF AnswersAnywhere, AnswersHeld
  <2> QED  BY <1>1, <1>11, <1>12, <2>1, AnywhereIs
<1>14. AnswersInv'
  <2>1. ASSUME NEW x \in AnswersAnywhere'
        PROVE  /\ IsAnswer(x) /\ SoundAnswer(x) /\ LabelsOn(x)
               /\ x.no \in 0..n /\ (x # BlankAnswer => x.no # 0)
    <3>1. CASE x \in AnswersAnywhere
      <4>1. x.no \in 0..n
        BY <1>9, <3>1
      <4> QED  BY <3>1, <4>1 DEF CitesInv, AnswersInv
    <3>2. CASE x = a
      BY <1>6, <1>7, <1>9, <3>2
    <3> QED  BY <1>13, <3>1, <3>2
  <2>2. n \in Nat /\ disposed \subseteq 1..n
    BY <1>9 DEF CitesInv, AnswersInv
  <2> QED  BY <1>1, <1>11, <1>12, <2>1, <2>2 DEF AnswersInv
<1>15. AnswersOnce'
  <2> SUFFICES ASSUME NEW b \in Checkers, answering'[b] # BlankAnswer
               PROVE  /\ answering'[b].no \notin disposed \cup {keptAnswer.no}
                      /\ \A m \in AnswerNos : answering'[b].no # lateChecks[m].entry.no
                      /\ \A e \in Checkers : e # b => answering'[e].no # answering'[b].no
    BY <1>1, <1>12 DEF AnswersOnce
  <2>1. /\ keptAnswer.no # n /\ n \notin disposed
        /\ \A m \in AnswerNos : lateChecks[m].entry.no # n
        /\ \A e \in Checkers : answering[e].no # n
    BY <1>9, AnywhereIs DEF CitesInv, AnswersInv
  <2>2. CASE b = c
    BY <1>7, <1>11, <2>1, <2>2
  <2>3. CASE b # c
    BY <1>7, <1>11, <2>1, <2>3 DEF CitesInv, AnswersOnce
  <2> QED  BY <2>2, <2>3
<1>16. LateInv'
  <2> SUFFICES ASSUME NEW m \in AnswerNos
               PROVE  /\ IsLate(lateChecks'[m]) /\ ~lateChecks'[m].entry.stream
                      /\ lateChecks'[m].at = "read" => lateChecks'[m].entry # BlankAnswer
                      /\ lateChecks'[m].at # "read" => lateChecks'[m].entry = BlankAnswer
                      /\ lateChecks'[m].at # "none" =>
                            /\ m <= n
                            /\ \A x \in AnswersAnywhere' : x.no = m => x.stream
    BY <1>1 DEF LateInv
  <2>1. CASE lateChecks'[m] = lateChecks[m]
    <3>1. lateChecks[m].at # "none" => m <= checked /\ m <= n /\ m # n
      BY <1>9 DEF CitesInv, LateInv, AnswerNos
    <3> QED  BY <1>7, <1>13, <2>1, <3>1 DEF CitesInv, LateInv
  <2>2. CASE m = n /\ lateChecks'[m] = l /\ stream
    <3>1. \A x \in AnswersAnywhere : x.no # n
      BY <1>9
    <3>2. n <= n
      BY <1>9
    <3> QED  BY <1>7, <1>8, <1>13, <2>2, <3>1, <3>2, BlankIs
  <2> QED  BY <1>12, <2>1, <2>2
<1>17. GoneInv'
  BY <1>1, <1>12 DEF CitesInv, GoneInv
<1> QED  BY <1>14, <1>15, <1>16, <1>17 DEF CitesInv

LEMMA LateWritesKeeps == ASSUME CitesInv, NEW n \in AnswerNos, LateWrites(n) PROVE CitesInv'
<1> DEFINE entry == lateChecks[n].entry
           mine == lateChecks[n].refs \cap RefsOf(entry.kept)
           more == {l \in entry.labels : l.ref \notin mine}
                       \cup {[ref |-> r, of |-> n] : r \in mine}
           b == [entry EXCEPT !.labels = more]
           done == [NotLate EXCEPT !.at = "done"]
<1>1. /\ lateChecks[n].at = "read" /\ keptAnswer' = b
      /\ lateChecks' = [lateChecks EXCEPT ![n] = done]
      /\ answering' = answering /\ checked' = checked /\ disposed' = disposed /\ torn' = torn
  <2>1. keptAnswer' = [entry EXCEPT !.labels =
            {l \in @ : l.ref \notin mine} \cup {[ref |-> r, of |-> n] : r \in mine}]
    BY DEF LateWrites
  <2>2. PICK no, stream, again, plain, kept, shown, text, labels :
          entry = [no |-> no, stream |-> stream, again |-> again, plain |-> plain,
                   kept |-> kept, shown |-> shown, text |-> text, labels |-> labels]
    BY AnywhereIs DEF CitesInv, AnswersInv, IsAnswer
  <2> QED  BY <2>1, <2>2 DEF LateWrites
<1>2. /\ entry \in AnswersAnywhere /\ IsAnswer(entry) /\ SoundAnswer(entry) /\ LabelsOn(entry)
      /\ ~entry.stream /\ entry # BlankAnswer /\ n # entry.no
      /\ DOMAIN answering = Checkers /\ DOMAIN lateChecks = AnswerNos
  BY <1>1, AnywhereIs DEF CitesInv, AnswersInv, LateInv
<1>3. IsLate(done) /\ done.at = "done" /\ done.entry = BlankAnswer
  BY LateEnds
<1>4. IsAnswer(b) /\ SoundAnswer(b) /\ LabelsOn(b) /\ b.no = entry.no /\ b.stream = entry.stream
  <2>1. \A l \in more : l.of # entry.no
    BY <1>2 DEF LabelsOn
  <2> HIDE DEF mine, entry, more
  <2> QED  BY <1>2, <2>1, LabelledAnswer, Zenon
<1> HIDE DEF b, done, mine, more
<1>5. /\ DOMAIN lateChecks' = AnswerNos /\ lateChecks'[n] = done
      /\ \A m \in AnswerNos : m # n => lateChecks'[m] = lateChecks[m]
  BY <1>1, <1>2
<1>6. ASSUME NEW x \in AnswersAnywhere'
      PROVE  x \in AnswersAnywhere \/ x = BlankAnswer \/ x = b
  <2>1. \/ x = keptAnswer'
        \/ \E e \in Checkers : x = answering'[e]
        \/ \E m \in AnswerNos : x = lateChecks'[m].entry
    BY DEF AnswersAnywhere, AnswersHeld
  <2> QED  BY <1>1, <1>3, <1>5, <2>1, AnywhereIs
<1> HIDE DEF entry
<1>7. /\ AnswersInv'
      /\ \A m \in AnswerNos : m <= checked
            /\ (\A x \in AnswersAnywhere : x.no = m => x.stream)
            => \A x \in AnswersAnywhere' : x.no = m => x.stream
  <2>1. disposed' \subseteq 1..checked
    BY <1>1 DEF CitesInv, AnswersInv
  <2> QED  BY <1>1, <1>2, <1>4, <1>5, <1>6, <2>1, NoNewAnswer
<1>8. AnswersOnce'
  <2>1. \A c \in Checkers : answering[c] # BlankAnswer => answering[c].no # 0
    BY AnywhereIs DEF CitesInv, AnswersInv
  <2> QED  BY <1>1, <1>3, <1>4, <1>5, <2>1, BlankIs DEF CitesInv, AnswersOnce, entry
<1>9. LateInv'
  <2> SUFFICES ASSUME NEW m \in AnswerNos
               PROVE  /\ IsLate(lateChecks'[m]) /\ ~lateChecks'[m].entry.stream
                      /\ lateChecks'[m].at = "read" => lateChecks'[m].entry # BlankAnswer
                      /\ lateChecks'[m].at # "read" => lateChecks'[m].entry = BlankAnswer
                      /\ lateChecks'[m].at # "none" =>
                            /\ m <= checked
                            /\ \A x \in AnswersAnywhere' : x.no = m => x.stream
    BY <1>1 DEF LateInv
  <2>1. lateChecks'[m].at # "none" => lateChecks[m].at # "none"
    BY <1>1, <1>5
  <2>2. /\ IsLate(lateChecks'[m]) /\ ~lateChecks'[m].entry.stream
        /\ lateChecks'[m].at = "read" => lateChecks'[m].entry # BlankAnswer
        /\ lateChecks'[m].at # "read" => lateChecks'[m].entry = BlankAnswer
    BY <1>3, <1>5, BlankIs DEF CitesInv, LateInv
  <2> QED  BY <1>7, <2>1, <2>2 DEF CitesInv, LateInv
<1>10. GoneInv'
  <2>1. BlankAnswer.no \notin disposed
    BY BlankIs DEF CitesInv, AnswersInv
  <2> QED  BY <1>1, <1>3, <1>4, <1>5, <2>1 DEF CitesInv, GoneInv, entry
<1> QED  BY <1>7, <1>8, <1>9, <1>10 DEF CitesInv

LEMMA CitesStep == CitesInv /\ [CitationsNext]_citeVars => CitesInv'
<1> SUFFICES ASSUME CitesInv, [CitationsNext]_citeVars PROVE CitesInv'
  OBVIOUS
<1>1. CASE CitationsNext
  BY <1>1, KeepKeeps, AgainKeeps, CheckKeeps, LateWorkKeeps, LateWritesKeeps, ThrowKeeps
     DEF CitationsNext
<1>2. CASE UNCHANGED citeVars
  BY <1>2 DEF citeVars, CitesInv, AnswersInv, AnswersOnce, LateInv, GoneInv, AnswersAnywhere,
              AnswersHeld
<1> QED  BY <1>1, <1>2

\* An answer that is on its way, or kept, shows no number alone without a passage, lists what
\* held, carries the labels of streams alone, and comes back once thrown away only out of the
\* hands of a background check.
THEOREM CitationsStayKept == CitationsSpec => []CitationsKept
<1>1. CitesInv => CitationsKept
  <2> SUFFICES ASSUME CitesInv PROVE CitationsKept
    OBVIOUS
  <2>1. \A a \in AnswersHeld : SoundAnswer(a) /\ LabelsOn(a)
    BY DEF CitesInv, AnswersInv, AnswersAnywhere
  <2>2. NoLoneInvention
    BY <2>1 DEF NoLoneInvention, SoundAnswer, LoneNumbersIn, GroupsOf
  <2>3. ListedHeld
    BY <2>1 DEF ListedHeld, SoundAnswer
  <2>4. LabelsFromStreams
    BY <2>1 DEF LabelsFromStreams, LabelsOn, AnswersHeld
  <2>5. GoneStaysGone
    BY DEF GoneStaysGone, CitesInv, GoneInv
  <2> QED  BY <2>2, <2>3, <2>4, <2>5 DEF CitationsKept
<1>2. CitationsInit => CitesInv
  BY InitCites
<1>3. CitesInv /\ [CitationsNext]_citeVars => CitesInv'
  BY CitesStep
<1> QED  BY <1>1, <1>2, <1>3, PTL DEF CitationsSpec
=============================================================================
