------------------------------ MODULE Accounts ------------------------------
(***************************************************************************)
(* The people the system knows: they log in, an administrator registers    *)
(* them, gives them roles, locks them out and removes them, and everybody  *)
(* looks after his own entry.  A request reads one snapshot, that of its   *)
(* authentication, and every start sees to it that the first administrator *)
(* exists.                                                                 *)
(***************************************************************************)
EXTENDS Naturals, FiniteSets, OrmSession

CONSTANTS
    Callers,         \* requests that may overlap
    Persons,          \* names, that of the first administrator among them
    MaxAccounts,     \* bound: accounts ever made
    MaxCalls,        \* bound: requests
    MaxStarts        \* bound: times the server is started again

FirstAdmin == "admin"                          \* ADMIN_USERNAME

ASSUME AccountAssumption ==
    /\ FirstAdmin \in Persons /\ MaxCalls \in Nat /\ MaxStarts \in Nat
    /\ MaxAccounts \in Nat \ {0}                \* the first administrator has room

VARIABLES
    accounts,        \* the rows, by the id they were given
    calls,           \* what each request is about to do, and the rows as it sees them
    callsMade,
    starts,
    journal,         \* the operation log: what was done, to whom
    doneTo,          \* history: what was done, to whom
    cut,             \* history: a request ended between what it did and its entry in the log
    overlapped,      \* history: two requests overlapped
    roleTaken        \* history: somebody ceased to be an administrator by a change of role

accountVars ==
    <<accounts, calls, callsMade, starts, journal, doneTo, cut, overlapped, roleTaken>>

AccountIds == 1..MaxAccounts
Roles == {"admin", "operator"}
Depts == {"", "ops"}
NoAccount == [name |-> "", role |-> "operator", active |-> FALSE, dept |-> "", removed |-> FALSE]
RowsOfAccounts ==
    [name : Persons \cup {""}, role : Roles, active : BOOLEAN, dept : Depts, removed : BOOLEAN]
Deeds == {"register", "role", "status", "delete", "profile"}

NoDeed == <<"none", 0>>
RestingCall == [at |-> "idle", by |-> 0, did |-> NoDeed, sees |-> [i \in AccountIds |-> NoAccount]]

AccountTypeOK ==
    /\ accounts \in [AccountIds -> RowsOfAccounts]
    /\ \A c \in Callers :
          /\ calls[c].at \in {"idle", "open", "done"}
          /\ calls[c].did \in (Deeds \X AccountIds) \cup {NoDeed}
          /\ calls[c].by \in 0..MaxAccounts /\ calls[c].sees \in [AccountIds -> RowsOfAccounts]
    /\ callsMade \in 0..MaxCalls /\ starts \in 0..MaxStarts
    /\ journal \subseteq Deeds \X AccountIds /\ doneTo \subseteq Deeds \X AccountIds
    /\ cut \in BOOLEAN /\ overlapped \in BOOLEAN /\ roleTaken \in BOOLEAN

Exists(rows, i) == rows[i].name # "" /\ ~rows[i].removed

\* users.username is unique.
NameTaken(rows, name) == \E i \in AccountIds : Exists(rows, i) /\ rows[i].name = name

\* The id a new row would get.
Fresh(i) == accounts[i] = NoAccount /\ \A j \in 1..(i - 1) : accounts[j] # NoAccount

ActiveAdmins(rows) ==
    {i \in AccountIds : Exists(rows, i) /\ rows[i].role = "admin" /\ rows[i].active}

NewAccount(name, role, dept) ==
    [NoAccount EXCEPT !.name = name, !.role = role, !.dept = dept, !.active = TRUE]

\* init_db: the first administrator is made if nobody has the name.
WithFirstAdmin(rows) ==
    IF NameTaken(rows, FirstAdmin) THEN rows
    ELSE [rows EXCEPT ![CHOOSE i \in AccountIds : rows[i] = NoAccount] =
             NewAccount(FirstAdmin, "admin", "")]

AccountsInit ==
    /\ accounts = WithFirstAdmin([i \in AccountIds |-> NoAccount])
    /\ calls = [c \in Callers |-> RestingCall] /\ callsMade = 0 /\ starts = 0
    /\ journal = {} /\ doneTo = {} /\ cut = FALSE /\ overlapped = FALSE /\ roleTaken = FALSE

-----------------------------------------------------------------------------
(* A request.                                                              *)

\* get_current_user: the token names an account that exists; whoever logged in was active
\* then.  What is read now is what the request sees.
SignedRequest(c, i) ==
    /\ calls[c].at = "idle" /\ callsMade < MaxCalls /\ Exists(accounts, i)
    /\ calls' = [calls EXCEPT
           ![c] = [RestingCall EXCEPT !.at = "open", !.by = i, !.sees = accounts]]
    /\ callsMade' = callsMade + 1
    /\ overlapped' = (overlapped \/ \E d \in Callers \ {c} : calls[d].at # "idle")
    /\ UNCHANGED <<accounts, starts, journal, doneTo, cut, roleTaken>>

\* require_admin and require_perm: the role the snapshot shows.
MayManage(c) == calls[c].sees[calls[c].by].role = "admin"

\* The commit of a deed, with the row as the request leaves it; a row that is gone by then
\* fails a request that changes it.
CommitDeed(c, deed, i, new) ==
    /\ ~accounts[i].removed \/ new = calls[c].sees[i]
    /\ accounts' = [accounts EXCEPT ![i] = Flushed(@, calls[c].sees[i], new)]
    /\ doneTo' = doneTo \cup {<<deed, i>>}
    /\ calls' = [calls EXCEPT ![c].at = "done", ![c].did = <<deed, i>>]
    /\ UNCHANGED <<callsMade, starts, journal, cut, overlapped>>

\* register_user looks for the name, and the key refuses one that came in between.
RegisterUser(c, name, role, dept) ==
    /\ calls[c].at = "open" /\ MayManage(c)
    /\ ~NameTaken(calls[c].sees, name) /\ ~NameTaken(accounts, name)
    /\ \E i \in AccountIds :
          /\ Fresh(i)
          /\ accounts' = [accounts EXCEPT ![i] = NewAccount(name, role, dept)]
          /\ doneTo' = doneTo \cup {<<"register", i>>}
          /\ calls' = [calls EXCEPT ![c].at = "done", ![c].did = <<"register", i>>]
    /\ UNCHANGED <<callsMade, starts, journal, cut, overlapped, roleTaken>>

\* update_user_role: with the department, and nobody is asked whether an administrator is left.
UpdateRole(c, i, role, dept) ==
    /\ calls[c].at = "open" /\ MayManage(c) /\ Exists(calls[c].sees, i)
    /\ CommitDeed(c, "role", i, [calls[c].sees[i] EXCEPT !.role = role, !.dept = dept])
    /\ roleTaken' = (roleTaken \/ (accounts[i].role = "admin" /\ accounts'[i].role # "admin"))

LastAdmin(c, i) ==
    calls[c].sees[i].role = "admin" /\ Cardinality(ActiveAdmins(calls[c].sees)) <= 1

\* set_user_status: never his own, and the last administrator is not locked out.
SetStatus(c, i, active) ==
    /\ calls[c].at = "open" /\ MayManage(c) /\ Exists(calls[c].sees, i) /\ i # calls[c].by
    /\ active \/ ~LastAdmin(c, i)
    /\ CommitDeed(c, "status", i, [calls[c].sees[i] EXCEPT !.active = active])
    /\ UNCHANGED roleTaken

\* delete_user: the same for one who is removed; of two who remove him the second fails.
DeleteUser(c, i) ==
    /\ calls[c].at = "open" /\ MayManage(c) /\ Exists(calls[c].sees, i) /\ i # calls[c].by
    /\ ~LastAdmin(c, i)
    /\ CommitDeed(c, "delete", i, [calls[c].sees[i] EXCEPT !.removed = TRUE])
    /\ UNCHANGED roleTaken

\* update_profile: everybody, his own department.
UpdateProfile(c, dept) ==
    /\ calls[c].at = "open"
    /\ CommitDeed(c, "profile", calls[c].by, [calls[c].sees[calls[c].by] EXCEPT !.dept = dept])
    /\ UNCHANGED roleTaken

\* write_log, in a transaction of its own, after which the request is over; or it ends without:
\* refused, failed, or with what it did left out of the log.
EndRequest(c) ==
    /\ calls[c].at # "idle"
    /\ \/ /\ calls[c].at = "open" /\ UNCHANGED <<journal, cut>>
       \/ /\ calls[c].at = "done" /\ journal' = journal \cup {calls[c].did} /\ UNCHANGED cut
       \/ /\ calls[c].at = "done" /\ cut' = TRUE /\ UNCHANGED journal
    /\ calls' = [calls EXCEPT ![c] = RestingCall]
    /\ UNCHANGED <<accounts, callsMade, starts, doneTo, overlapped, roleTaken>>

\* The server is started again; requests under way are cut off.
StartServer ==
    /\ starts < MaxStarts /\ starts' = starts + 1
    /\ \E i \in AccountIds : accounts[i] = NoAccount
    /\ accounts' = WithFirstAdmin(accounts)
    /\ cut' = (cut \/ \E c \in Callers : calls[c].at = "done")
    /\ calls' = [c \in Callers |-> RestingCall]
    /\ UNCHANGED <<callsMade, journal, doneTo, overlapped, roleTaken>>

AccountsNext ==
    \/ \E c \in Callers :
          \/ EndRequest(c)
          \/ \E i \in AccountIds :
                \/ SignedRequest(c, i) \/ DeleteUser(c, i)
                \/ \E active \in BOOLEAN : SetStatus(c, i, active)
                \/ \E role \in Roles, dept \in Depts : UpdateRole(c, i, role, dept)
          \/ \E name \in Persons, role \in Roles : RegisterUser(c, name, role, "")
          \/ \E dept \in Depts : UpdateProfile(c, dept)
    \/ StartServer

AccountsSpec == AccountsInit /\ [][AccountsNext]_accountVars

-----------------------------------------------------------------------------
(* Properties.                                                             *)

\* No two accounts have one name, whoever registers and whenever the server starts.
OnePerName ==
    \A i, j \in AccountIds :
        Exists(accounts, i) /\ Exists(accounts, j) /\ accounts[i].name = accounts[j].name => i = j

\* Somebody can always manage the accounts, as long as requests come one after another and
\* nobody gives the role away.
AdminRemains == ~overlapped /\ ~roleTaken => ActiveAdmins(accounts) # {}

\* The log tells of nothing that was not done, and leaves out what a request was cut off from.
LogIsTrue ==
    /\ journal \subseteq doneTo
    /\ cut \/ \A deed \in doneTo \ journal : \E c \in Callers : calls[c].did = deed

AccountsKept == OnePerName /\ AdminRemains /\ LogIsTrue

\* "Keeps the last administrator from being locked out or removed."
NeverLockedOut == ActiveAdmins(accounts) # {}
=============================================================================
