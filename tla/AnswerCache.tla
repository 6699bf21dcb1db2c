----------------------------- MODULE AnswerCache -----------------------------
(***************************************************************************)
(* The caches in front of the answer pipeline: the liked answers, Redis,   *)
(* the MySQL table behind it, the blacklist of questions whose cached      *)
(* answers are bad, and what feedback and document governance do to them.  *)
(*                                                                         *)
(* "it" is a question that a conversation gives its meaning to; "full" one *)
(* that means the same everywhere.  A key is a question and the version of *)
(* the caches, which the process keeps in memory.                          *)
(***************************************************************************)
EXTENDS Naturals, FiniteSets

CONSTANTS
    Askers,          \* requests under way
    Threshold,       \* dislikes that blacklist a question
    MaxAsks,         \* bound: questions asked
    MaxUpsets,       \* bound: likes, dislikes, withdrawals, changes of the blacklist
    MaxOutages       \* bound: expiries, outages and restarts

ASSUME CacheAssumption ==
    Threshold \in Nat \ {0} /\ MaxAsks \in Nat /\ MaxUpsets \in Nat /\ MaxOutages \in Nat

VARIABLES
    redis,       \* redis[key]: the answer of level 1
    table,       \* table[key]: the row of level 2
    hotqa,       \* hotqa[q]: the answer somebody liked
    blacklist,   \* the questions whose cached answers are not used
    snapshot,    \* the blacklist as the process read it last, {} if it is too old
    redisUp,
    version,     \* the process's version of the caches
    blocked,     \* the documents governance has withdrawn
    purging,     \* steps left of the cleaning after a withdrawal
    dislikes,    \* dislikes[q]: recorded
    feedbackTasks, \* background work after dislikes
    backfills,   \* answers of level 2 on their way to level 1
    askPc, asked,  \* asked[a]: the request
    drafted,     \* drafted[a]: the answer a has generated
    served,      \* the answer given by the last step
    asks, upsets

cacheVars == <<redis, table, hotqa, blacklist, snapshot, redisUp, version, blocked, purging,
               dislikes, feedbackTasks, backfills, askPc, asked, drafted, served, asks,
               upsets>>

Questions == {"full", "it"}
Documents == {"d", "e"}
Versions == {"v0", "v1"}
Keys == Questions \X Versions
NoConversation == "none"
Conversations == {NoConversation, "c"}

\* The stand-alone form of a question: what it means in its conversation.
Standalone(q, conv) == IF q = "it" /\ conv # NoConversation THEN conv ELSE q

NoAnswer == [means |-> "nothing", cites |-> "e", high |-> FALSE]
Answers == [means : Questions \cup {"c"}, cites : Documents, high : BOOLEAN]
NoRow == [answer |-> NoAnswer, deleted |-> FALSE]
NoServing == [layer |-> "none", want |-> "nothing", answer |-> NoAnswer,
              withdrawn |-> FALSE, barred |-> FALSE]
NoAsk == [q |-> "full", conv |-> NoConversation, regen |-> FALSE, skip |-> FALSE,
          barred |-> FALSE]

CacheTypeOK ==
    /\ redis \in [Keys -> Answers \cup {NoAnswer}]
    /\ \A k \in Keys : table[k].answer \in Answers \cup {NoAnswer} /\ table[k].deleted \in BOOLEAN
    /\ hotqa \in [Questions -> Answers \cup {NoAnswer}]
    /\ blacklist \subseteq Questions /\ snapshot \subseteq Questions
    /\ redisUp \in BOOLEAN /\ version \in Versions /\ blocked \subseteq Documents
    /\ purging \in {"no", "rows", "version"}
    /\ dislikes \in [Questions -> Nat]
    /\ feedbackTasks \subseteq {"invalidate", "blacklist"} \X Questions
    /\ backfills \subseteq Keys \X Answers
    /\ askPc \in [Askers -> {"idle", "lookup", "retrieve", "table", "redis"}]
    /\ asks \in 0..MaxAsks /\ upsets \in [people : 0..MaxUpsets, outages : 0..MaxOutages]

CacheInit ==
    /\ redis = [k \in Keys |-> NoAnswer] /\ table = [k \in Keys |-> NoRow]
    /\ hotqa = [q \in Questions |-> NoAnswer]
    /\ blacklist = {} /\ snapshot = {} /\ redisUp = TRUE /\ version = "v0"
    /\ blocked = {} /\ purging = "no"
    /\ dislikes = [q \in Questions |-> 0] /\ feedbackTasks = {} /\ backfills = {}
    /\ askPc = [a \in Askers |-> "idle"] /\ asked = [a \in Askers |-> NoAsk]
    /\ drafted = [a \in Askers |-> NoAnswer]
    /\ served = NoServing /\ asks = 0 /\ upsets = [people |-> 0, outages |-> 0]

-----------------------------------------------------------------------------

Upset == upsets.people < MaxUpsets /\ upsets' = [upsets EXCEPT !.people = @ + 1]
Outage == upsets.outages < MaxOutages /\ upsets' = [upsets EXCEPT !.outages = @ + 1]

(* A question.                                                             *)

\* is_query_blacklisted: without Redis a recent snapshot decides, and without one every
\* question is barred.
Barred(q) == IF redisUp THEN q \in blacklist ELSE snapshot = {} \/ q \in snapshot

\* The check refreshes the snapshot.
Checked == snapshot' = IF redisUp THEN blacklist ELSE snapshot

Serving(layer, a, answer) ==
    [layer |-> layer, want |-> Standalone(asked[a].q, asked[a].conv), answer |-> answer,
     withdrawn |-> answer.cites \in blocked, barred |-> asked[a].barred]

\* The request is over.
Over(a) ==
    /\ askPc' = [askPc EXCEPT ![a] = "idle"]
    /\ asked' = [asked EXCEPT ![a] = NoAsk]
    /\ drafted' = [drafted EXCEPT ![a] = NoAnswer]

\* A question arrives: a liked answer is looked for first, then the blacklist is asked.
Arrive(a, q, conv, regen) ==
    /\ askPc[a] = "idle"
    /\ asks < MaxAsks /\ asks' = asks + 1
    /\ asked' = [asked EXCEPT ![a] =
                    [q |-> q, conv |-> conv, regen |-> regen, skip |-> Barred(q),
                     barred |-> q \in blacklist /\ (redisUp \/ snapshot = {})]]
    /\ Checked
    /\ IF ~regen /\ redisUp /\ hotqa[q] # NoAnswer /\ ~Barred(q)
       THEN /\ served' = [layer |-> "hotqa", want |-> Standalone(q, conv),
                          answer |-> hotqa[q], withdrawn |-> FALSE, barred |-> q \in blacklist]
            /\ UNCHANGED askPc
       ELSE /\ served' = NoServing
            /\ askPc' = [askPc EXCEPT ![a] = "lookup"]
    /\ UNCHANGED <<redis, table, hotqa, blacklist, redisUp, version, blocked, purging, dislikes,
                   feedbackTasks, backfills, drafted, upsets>>

\* Level 1 is read for a question without a conversation, and for one its conversation does
\* not change; level 2 without a conversation only.
ReadsRedis(r) ==
    /\ ~r.skip /\ redisUp
    /\ IF r.conv = NoConversation THEN ~r.regen ELSE Standalone(r.q, r.conv) = r.q

ReadsTable(r) == ~r.skip /\ ~r.regen /\ r.conv = NoConversation

\* Mutant: a cached answer is not checked again.
UsableAsItIs(answer) == answer # NoAnswer

\* _cache_knowledge_valid: the documents it cites must not have been withdrawn since.
Usable(answer) == answer # NoAnswer /\ answer.cites \notin blocked

InRedis(a) ==
    LET r == asked[a] IN ReadsRedis(r) /\ Usable(redis[<<r.q, version>>])

\* The row of level 2, read whether or not its answer turns out to be usable.
InTable(a) ==
    LET r == asked[a] IN ReadsTable(r) /\ ~InRedis(a) /\ ~table[<<r.q, version>>].deleted
                         /\ table[<<r.q, version>>].answer # NoAnswer

LookUp(a) ==
    LET k == <<asked[a].q, version>> IN
    /\ askPc[a] = "lookup"
    /\ backfills' = IF InTable(a) THEN backfills \cup {<<k, table[k].answer>>} ELSE backfills
    /\ \/ /\ InRedis(a)
          /\ served' = Serving("redis", a, redis[k])
          /\ Over(a)
       \/ /\ InTable(a) /\ Usable(table[k].answer)
          /\ served' = Serving("mysql", a, table[k].answer)
          /\ Over(a)
       \/ /\ ~InRedis(a) /\ ~(InTable(a) /\ Usable(table[k].answer))
          /\ served' = NoServing
          /\ askPc' = [askPc EXCEPT ![a] = "retrieve"] /\ UNCHANGED <<asked, drafted>>
    /\ UNCHANGED <<redis, table, hotqa, blacklist, snapshot, redisUp, version, blocked, purging,
                   dislikes, feedbackTasks, asks, upsets>>

Backfill(k, answer) ==
    /\ <<k, answer>> \in backfills
    /\ backfills' = backfills \ {<<k, answer>>}
    /\ redis' = IF redisUp THEN [redis EXCEPT ![k] = answer] ELSE redis
    /\ served' = NoServing
    /\ UNCHANGED <<table, hotqa, blacklist, snapshot, redisUp, version, blocked, purging, dislikes,
                   feedbackTasks, askPc, asked, drafted, asks, upsets>>

\* Retrieval leaves out what is withdrawn; the answer is of high confidence or not.
Retrieve(a) ==
    /\ askPc[a] = "retrieve"
    /\ \E d \in Documents \ blocked, high \in BOOLEAN :
          drafted' = [drafted EXCEPT ![a] =
              [means |-> Standalone(asked[a].q, asked[a].conv), cites |-> d, high |-> high]]
    /\ askPc' = [askPc EXCEPT ![a] = "table"]
    /\ served' = NoServing
    /\ UNCHANGED <<redis, table, hotqa, blacklist, snapshot, redisUp, version, blocked, purging,
                   dislikes, feedbackTasks, backfills, asked, asks, upsets>>

Keeps(a) == drafted[a].high /\ ~Barred(asked[a].q)

\* Level 2 is written first.  A row that is there is updated, its deletion mark is not.
WriteTable(a) ==
    LET k == <<asked[a].q, version>> IN
    /\ askPc[a] = "table"
    /\ Checked
    /\ IF Keeps(a)
       THEN /\ table' = [table EXCEPT ![k].answer = drafted[a]]
            /\ askPc' = [askPc EXCEPT ![a] = "redis"] /\ served' = NoServing
            /\ UNCHANGED <<asked, drafted>>
       ELSE /\ UNCHANGED table
            /\ Over(a)
            /\ served' = Serving("llm", a, drafted[a])
    /\ UNCHANGED <<redis, hotqa, blacklist, redisUp, version, blocked, purging, dislikes,
                   feedbackTasks, backfills, asks, upsets>>

WriteRedis(a) ==
    /\ askPc[a] = "redis"
    /\ redis' = IF redisUp THEN [redis EXCEPT ![<<asked[a].q, version>>] = drafted[a]] ELSE redis
    /\ Over(a)
    /\ served' = Serving("llm", a, drafted[a])
    /\ UNCHANGED <<table, hotqa, blacklist, snapshot, redisUp, version, blocked, purging, dislikes,
                   feedbackTasks, backfills, asks, upsets>>

-----------------------------------------------------------------------------
(* Feedback.                                                               *)

Like(q) ==
    /\ Upset
    /\ served.layer \notin {"none", "hotqa"} /\ redisUp
    /\ q = (IF served.want = "c" THEN "it" ELSE served.want)
    /\ hotqa' = [hotqa EXCEPT ![q] = served.answer]
    /\ served' = NoServing
    /\ UNCHANGED <<redis, table, blacklist, snapshot, redisUp, version, blocked, purging, dislikes,
                   feedbackTasks, backfills, askPc, asked, drafted, asks>>

Dislike(q) ==
    /\ Upset
    /\ dislikes' = [dislikes EXCEPT ![q] = @ + 1]
    /\ feedbackTasks' = feedbackTasks \cup {<<"invalidate", q>>, <<"blacklist", q>>}
    /\ served' = NoServing
    /\ UNCHANGED <<redis, table, hotqa, blacklist, snapshot, redisUp, version, blocked, purging,
                   backfills, askPc, asked, drafted, asks>>

\* The pattern "qa:*:<question>" matches the keys that end in the question.
Matched(q) == {k \in Keys : k[2] = q}

InvalidateOnDislike(q) ==
    /\ <<"invalidate", q>> \in feedbackTasks
    /\ feedbackTasks' = feedbackTasks \ {<<"invalidate", q>>}
    /\ table' = [k \in Keys |-> IF k[1] = q /\ table[k] # NoRow
                                THEN [table[k] EXCEPT !.deleted = TRUE] ELSE table[k]]
    /\ redis' = [k \in Keys |-> IF redisUp /\ k \in Matched(q) THEN NoAnswer ELSE redis[k]]
    /\ served' = NoServing
    /\ UNCHANGED <<hotqa, blacklist, snapshot, redisUp, version, blocked, purging, dislikes,
                   backfills, askPc, asked, drafted, asks, upsets>>

BlacklistOnDislike(q) ==
    /\ <<"blacklist", q>> \in feedbackTasks
    /\ feedbackTasks' = feedbackTasks \ {<<"blacklist", q>>}
    /\ blacklist' = IF redisUp /\ dislikes[q] >= Threshold THEN blacklist \cup {q} ELSE blacklist
    /\ served' = NoServing
    /\ UNCHANGED <<redis, table, hotqa, snapshot, redisUp, version, blocked, purging, dislikes,
                   backfills, askPc, asked, drafted, asks, upsets>>

\* add_blacklist and auto_tune_cache_ttl put a question on it, remove_blacklist takes it off.
ChangeBlacklist(q) ==
    /\ Upset
    /\ redisUp
    /\ blacklist' = IF q \in blacklist THEN blacklist \ {q} ELSE blacklist \cup {q}
    /\ served' = NoServing
    /\ UNCHANGED <<redis, table, hotqa, snapshot, redisUp, version, blocked, purging, dislikes,
                   feedbackTasks, backfills, askPc, asked, drafted, asks>>

-----------------------------------------------------------------------------
(* Governance, expiry and faults.                                          *)

Withdraw(d) ==
    /\ Upset
    /\ d = "d" /\ d \notin blocked
    /\ blocked' = blocked \cup {d} /\ purging' = "rows"
    /\ served' = NoServing
    /\ UNCHANGED <<redis, table, hotqa, blacklist, snapshot, redisUp, version, dislikes,
                   feedbackTasks, backfills, askPc, asked, drafted, asks>>

Citing(d) == {k \in Keys : table[k] # NoRow /\ table[k].answer.cites = d}

\* The rows that cite it go, and their keys from Redis.
PurgeRows ==
    /\ purging = "rows" /\ purging' = "version"
    /\ table' = [k \in Keys |-> IF k \in Citing("d") THEN NoRow ELSE table[k]]
    /\ redis' = [k \in Keys |-> IF redisUp /\ k \in Citing("d") THEN NoAnswer ELSE redis[k]]
    /\ served' = NoServing
    /\ UNCHANGED <<hotqa, blacklist, snapshot, redisUp, version, blocked, dislikes, feedbackTasks,
                   backfills, askPc, asked, drafted, asks, upsets>>

BumpVersion ==
    /\ purging = "version" /\ purging' = "no"
    /\ version' = "v1"
    /\ served' = NoServing
    /\ UNCHANGED <<redis, table, hotqa, blacklist, snapshot, redisUp, blocked, dislikes,
                   feedbackTasks, backfills, askPc, asked, drafted, asks, upsets>>

\* A document is parsed again: level 2 forgets the answers that cite it.
InvalidateForDoc(d) ==
    /\ Upset
    /\ \E k \in Citing(d) : ~table[k].deleted
    /\ table' = [k \in Keys |-> IF k \in Citing(d) THEN [table[k] EXCEPT !.deleted = TRUE]
                                ELSE table[k]]
    /\ served' = NoServing
    /\ UNCHANGED <<redis, hotqa, blacklist, snapshot, redisUp, version, blocked, purging, dislikes,
                   feedbackTasks, backfills, askPc, asked, drafted, asks>>

\* Entries expire, rows are cleaned away, the snapshot becomes too old.
Expire(k) ==
    /\ Outage
    /\ \/ redis' = [redis EXCEPT ![k] = NoAnswer] /\ redis[k] # NoAnswer
          /\ UNCHANGED <<table, snapshot>>
       \/ table' = [table EXCEPT ![k] = NoRow] /\ table[k] # NoRow
          /\ UNCHANGED <<redis, snapshot>>
       \/ snapshot' = {} /\ snapshot # {} /\ UNCHANGED <<redis, table>>
    /\ served' = NoServing
    /\ UNCHANGED <<hotqa, blacklist, redisUp, version, blocked, purging, dislikes, feedbackTasks,
                   backfills, askPc, asked, drafted, asks>>

RedisGoes ==
    /\ Outage
    /\ redisUp' = ~redisUp
    /\ served' = NoServing
    /\ UNCHANGED <<redis, table, hotqa, blacklist, snapshot, version, blocked, purging, dislikes,
                   feedbackTasks, backfills, askPc, asked, drafted, asks>>

\* The version starts again from the beginning; tasks and requests are gone.
Restart ==
    /\ Outage
    /\ version' = "v0" /\ snapshot' = {} /\ purging' = "no"
    /\ feedbackTasks' = {} /\ backfills' = {}
    /\ askPc' = [a \in Askers |-> "idle"] /\ asked' = [a \in Askers |-> NoAsk]
    /\ drafted' = [a \in Askers |-> NoAnswer] /\ served' = NoServing
    /\ UNCHANGED <<redis, table, hotqa, blacklist, redisUp, blocked, dislikes, asks>>

CacheNext ==
    \/ \E a \in Askers :
          \/ \E q \in Questions, conv \in Conversations, regen \in BOOLEAN :
                Arrive(a, q, conv, regen)
          \/ LookUp(a) \/ Retrieve(a) \/ WriteTable(a) \/ WriteRedis(a)
    \/ \E f \in backfills : Backfill(f[1], f[2])
    \/ \E q \in Questions :
          \/ Like(q) \/ Dislike(q) \/ InvalidateOnDislike(q)
          \/ BlacklistOnDislike(q) \/ ChangeBlacklist(q)
    \/ \E d \in Documents : Withdraw(d) \/ InvalidateForDoc(d)
    \/ PurgeRows \/ BumpVersion
    \/ \E k \in Keys : Expire(k)
    \/ RedisGoes \/ Restart

\* Background work after a dislike runs unless the process stops.
CacheSpec == /\ CacheInit /\ [][CacheNext]_cacheVars
             /\ \A q \in Questions : WF_cacheVars(InvalidateOnDislike(q))

-----------------------------------------------------------------------------
(* Properties.                                                             *)

\* Whatever is left in the caches, levels 1 and 2 give no answer that cites a document
\* already withdrawn when they give it.
CacheRespectsGovernance == served.layer \in {"redis", "mysql"} => ~served.withdrawn

\* A question that was on the blacklist when it came gets no cached answer, with Redis down
\* too unless the process still has a recent snapshot.
BlacklistIsHonoured == served.layer \in {"hotqa", "redis", "mysql"} => ~served.barred

\* The exact levels keep answers of high confidence only: what a local model said in an
\* emergency is not in them, whichever way it came there.
EmergencyNotCached ==
    \A k \in Keys : /\ redis[k] # NoAnswer => redis[k].high
                    /\ table[k].answer # NoAnswer => table[k].answer.high

\* No level of the caches gives what governance, people or an emergency exclude.
CacheKept == CacheRespectsGovernance /\ BlacklistIsHonoured /\ EmergencyNotCached

\* invalidate_cache_on_dislike says that a dislike removes the question from level 1 and
\* level 2.
DislikeClearsCaches ==
    [][\A q \in Questions : InvalidateOnDislike(q) /\ redisUp =>
          \A v \in Versions : redis'[<<q, v>>] = NoAnswer]_cacheVars

\* answer says that reading only what the conversation leaves unchanged keeps an answer of
\* one conversation from being given in another context.
NoDirtyHit == served.layer = "redis" => served.answer.means = served.want

\* answer says that level 2 is written first so that no answer is lost: what is written
\* through can be read again.
WriteThroughIsReadable ==
    [][\A a \in Askers : WriteTable(a) /\ Keeps(a) =>
          ~table'[<<asked[a].q, version>>].deleted]_cacheVars
=============================================================================
