-------------------------- MODULE IdempotentInsert --------------------------
(***************************************************************************)
(* enqueue_task_record and publish_event_record, which share one shape: a  *)
(* look-up by idempotency key, an INSERT under a savepoint, and a second   *)
(* look-up when the unique constraint refuses it.  Each call runs in the   *)
(* transaction of its session, alone (commit=True) or inside a business    *)
(* transaction that the caller ends (commit=False).                        *)
(*                                                                         *)
(* The database is external: its unique index, which makes an INSERT wait  *)
(* for a rival that is not decided yet, and what a plain SELECT sees.      *)
(* Under REPEATABLE READ, the default of InnoDB that db/session.py leaves  *)
(* as it is, that is the snapshot of the transaction's first SELECT; under *)
(* READ COMMITTED it is what is committed now.                             *)
(***************************************************************************)
EXTENDS FiniteSets, Integers

CONSTANTS
    Calls,        \* concurrent calls; a row's id is the call that made it
    RowKeys,      \* idempotency keys
    KeyOf,        \* KeyOf[c]: the key of the call, NoKey for an empty one
    NoKey,        \* calls without a key are never deduplicated
    Own,          \* calls with commit=True
    NoCall,       \* nothing found
    Levels        \* isolation levels the database may be configured with

ASSUME InsertAssumption ==
    /\ KeyOf \in [Calls -> RowKeys \cup {NoKey}]
    /\ NoKey \notin RowKeys
    /\ Own \subseteq Calls
    /\ NoCall \notin Calls
    /\ Levels \subseteq {"REPEATABLE READ", "READ COMMITTED"}

VARIABLES
    isolation,  \* the isolation level of the database
    committed,  \* the committed rows
    openRows,   \* rows of transactions that are not decided yet
    snapshot,   \* snapshot[c]: the rows c's transaction sees, once it has read
    business,   \* business[c]: the caller's other writes in the transaction
    callPc,     \* callPc[c]: where the call is
    answer      \* answer[c]: the row the call returns

insertVars == <<isolation, committed, openRows, snapshot, business, callPc, answer>>

InsertTypeOK ==
    /\ isolation \in Levels
    /\ committed \subseteq Calls
    /\ openRows \subseteq Calls
    /\ snapshot \in [Calls -> SUBSET Calls]
    /\ business \in [Calls -> {"pending", "committed", "lost"}]
    /\ callPc \in [Calls -> {"start", "lookup", "insert", "reselect", "made", "hit", "raised",
                            "ended"}]
    /\ answer \in [Calls -> Calls \cup {NoCall}]

InsertInit ==
    /\ isolation \in Levels
    /\ committed = {}
    /\ openRows = {}
    /\ snapshot = [c \in Calls |-> {}]
    /\ business = [c \in Calls |-> "pending"]
    /\ callPc = [c \in Calls |-> "start"]
    /\ answer = [c \in Calls |-> NoCall]

Keyed(c) == KeyOf[c] # NoKey
SameKey(R, c) == {r \in R : KeyOf[r] = KeyOf[c]}

\* What a plain SELECT of the call sees, after its transaction's first one.
Visible(c) == IF isolation = "REPEATABLE READ" THEN snapshot[c] ELSE committed

CallGoes(c, place) == callPc' = [callPc EXCEPT ![c] = place]

\* Mutant: the look-up returns the key and not the row's id.
LookUpKey(R, c) == {KeyOf[r] : r \in SameKey(R, c)}

\* The rows a look-up by the call's key returns: one, at most.
LookUp(R, c) == SameKey(R, c)

\* The transaction's first SELECT opens its snapshot: one of the caller (the
\* request's user, the business rows) or the look-up by key itself.
OpenTransaction(c) ==
    /\ callPc[c] = "start"
    /\ snapshot' = [snapshot EXCEPT ![c] = committed]
    /\ CallGoes(c, "lookup")
    /\ UNCHANGED <<committed, openRows, business, answer>>

\* The first look-up; without a key there is none.
PreCheck(c) ==
    /\ callPc[c] = "lookup"
    /\ \/ /\ Keyed(c)
          /\ \E r \in LookUp(Visible(c), c) : answer' = [answer EXCEPT ![c] = r]
          /\ CallGoes(c, "hit")
       \/ /\ ~Keyed(c) \/ LookUp(Visible(c), c) = {}
          /\ CallGoes(c, "insert")
          /\ UNCHANGED answer
    /\ UNCHANGED <<committed, openRows, snapshot, business>>

\* Mutant: no unique constraint over the key.
NoConstraint(c) == FALSE

\* The unique index refuses a second row for the key.
Duplicate(c) == Keyed(c) /\ SameKey(committed, c) # {}

\* The flush inside the savepoint, once no rival is undecided.  With commit=True
\* the commit follows and takes with it what the session has pending.
Insert(c) ==
    /\ callPc[c] = "insert"
    /\ Keyed(c) => SameKey(openRows, c) = {}
    /\ ~Duplicate(c)
    /\ answer' = [answer EXCEPT ![c] = c]
    /\ \/ /\ c \in Own
          /\ committed' = committed \cup {c}
          /\ business' = [business EXCEPT ![c] = "committed"]
          /\ CallGoes(c, "ended")
          /\ UNCHANGED openRows
       \/ /\ c \notin Own
          /\ openRows' = openRows \cup {c}
          /\ CallGoes(c, "made")
          /\ UNCHANGED <<committed, business>>
    /\ UNCHANGED snapshot

\* IntegrityError: the savepoint is rolled back, the transaction goes on.
InsertRefused(c) ==
    /\ callPc[c] = "insert"
    /\ Keyed(c) => SameKey(openRows, c) = {}
    /\ Duplicate(c)
    /\ CallGoes(c, "reselect")
    /\ UNCHANGED <<committed, openRows, snapshot, business, answer>>

\* The second look-up, scalar_one(): it raises when it finds no row, and the
\* exception takes the caller's transaction with it.
Reselect(c) ==
    /\ callPc[c] = "reselect"
    /\ \/ \E r \in LookUp(Visible(c), c) :
            /\ answer' = [answer EXCEPT ![c] = r]
            /\ CallGoes(c, "hit")
            /\ UNCHANGED business
       \/ /\ LookUp(Visible(c), c) = {}
          /\ CallGoes(c, "raised")
          /\ business' = [business EXCEPT ![c] = "lost"]
          /\ UNCHANGED answer
    /\ UNCHANGED <<committed, openRows, snapshot>>

\* The caller ends the transaction of a call that returned: it commits, or
\* something else in it fails and it rolls back.
CallerCommits(c) ==
    /\ callPc[c] \in {"made", "hit"}
    /\ committed' = committed \cup (openRows \cap {c})
    /\ openRows' = openRows \ {c}
    /\ business' = [business EXCEPT ![c] = "committed"]
    /\ CallGoes(c, "ended")
    /\ UNCHANGED <<snapshot, answer>>

CallerRollsBack(c) ==
    /\ callPc[c] \in {"made", "hit"}
    /\ openRows' = openRows \ {c}
    /\ business' = [business EXCEPT ![c] = "lost"]
    /\ CallGoes(c, "ended")
    /\ UNCHANGED <<committed, snapshot, answer>>

CallStep(c) ==
    /\ \/ OpenTransaction(c) \/ PreCheck(c)
       \/ Insert(c) \/ InsertRefused(c) \/ Reselect(c)
       \/ CallerCommits(c) \/ CallerRollsBack(c)
    /\ UNCHANGED isolation

InsertNext == \E c \in Calls : CallStep(c)

InsertSpec == InsertInit /\ [][InsertNext]_insertVars

-----------------------------------------------------------------------------
\* The docstring of enqueue_task_record: one row for a key, however many calls
\* pass the first look-up together.
OneRowPerKey ==
    \A r, s \in committed : KeyOf[r] = KeyOf[s] /\ KeyOf[r] # NoKey => r = s

\* The outbox: the row of a call with commit=False is there exactly when the
\* business writes of its transaction are.
OutboxAtomic ==
    \A c \in Calls : callPc[c] = "ended" /\ answer[c] = c =>
        (c \in committed <=> business[c] = "committed")

\* A call that hits another call's row returns one that is committed, never one
\* that may still be rolled back.
HitIsCommitted ==
    \A c \in Calls : answer[c] \notin {c, NoCall} => answer[c] \in committed

\* The docstrings of enqueue_task and publish_event: a call returns the id of a
\* new row or of the one its key hits.
CallsReturnARow == \A c \in Calls : callPc[c] # "raised"

\* With READ COMMITTED that promise is kept: it is the snapshot that breaks it, and
\* not the order of the look-up, the insert and the look-up again.
ReadCommittedReturnsARow == isolation = "READ COMMITTED" => CallsReturnARow

\* One row for a key, one outcome with its transaction, and no answer that can vanish.
InsertKept == OneRowPerKey /\ OutboxAtomic /\ HitIsCommitted
=============================================================================
