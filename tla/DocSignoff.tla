----------------------------- MODULE DocSignoff -----------------------------
(***************************************************************************)
(* The sign-off of a document: a draft is submitted, its signers sign one  *)
(* after the other, each signature is chained to the one before, and       *)
(* anyone may ask whether the stored chain and the document are intact.    *)
(*                                                                         *)
(* A request loads the row in the snapshot its authentication opened,      *)
(* checks it, and commits later; nothing locks the row.  Person 0 is the   *)
(* creator, person k signs node k: _validate_flow refuses a signer twice.  *)
(***************************************************************************)
EXTENDS Naturals, Sequences, OrmSession

CONSTANTS
    Nodes,             \* nodes of the flow
    SignoffRequests,   \* concurrent requests
    Repeats,           \* may one person have two requests under way
    MaxStamps,         \* bound: signatures and rejections
    MaxDocEdits,       \* bound: changes of the document
    SignoffMaxFaults   \* bound: requests that die and stray edits of the row

ASSUME SignoffAssumption ==
    /\ Nodes \in 1..10
    /\ Repeats \in BOOLEAN
    /\ MaxStamps \in Nat /\ MaxDocEdits \in Nat /\ SignoffMaxFaults \in Nat

VARIABLES
    signoff,         \* the row: status, seq, flow, chain, fingerprint
    document,        \* what the fingerprint of the document is now
    signoffPc, signoffOp, signoffActor,
    signoffView,     \* signoffView[r]: the row as the request loaded it
    signoffDoc,      \* signoffDoc[r]: the document as the request loaded it
    told,            \* nodes whose signer was notified, 0 for the creator
    stamp,           \* the time: signatures and rejections so far
    submits,         \* history: submissions committed
    strayed,         \* history: the stored flow was edited outside the service
    signoffFaults

signoffVars == <<signoff, document, signoffPc, signoffOp, signoffActor, signoffView,
                 signoffDoc, told, stamp, submits, strayed, signoffFaults>>

People == 0..Nodes
Final == {"signed", "rejected", "cancelled"}
SignoffOps == {"submit", "sign", "reject", "cancel"}

\* A hash is the sequence of what went into it: two are equal only if all of it was.
Genesis == <<>>
NodeHash(prev, node, at) == Append(prev, <<node, at>>)

Unsigned == [mark |-> "pending", at |-> 0, hash |-> Genesis]
NewSignoff == [status |-> "draft", seq |-> 0, flow |-> [k \in 1..Nodes |-> Unsigned],
               chain |-> Genesis, fingerprint |-> 0]

Hashes == Seq((1..Nodes) \X (0..MaxStamps))

SignoffRow(row) ==
    /\ DOMAIN row = DOMAIN NewSignoff
    /\ row.status \in {"draft", "pending"} \cup Final
    /\ row.seq \in 0..Nodes
    /\ \A k \in 1..Nodes : /\ row.flow[k].mark \in {"pending", "signed", "rejected"}
                           /\ row.flow[k].at \in 0..MaxStamps
                           /\ row.flow[k].hash \in Hashes
    /\ row.chain \in Hashes
    /\ row.fingerprint \in 0..MaxDocEdits

SignoffTypeOK ==
    /\ SignoffRow(signoff)
    /\ document \in 0..MaxDocEdits
    /\ \A r \in SignoffRequests :
          /\ signoffPc[r] \in {"idle", "loaded", "committed"}
          /\ signoffOp[r] \in SignoffOps /\ signoffActor[r] \in People
          /\ SignoffRow(signoffView[r]) /\ signoffDoc[r] \in 0..MaxDocEdits
    /\ told \subseteq People
    /\ stamp \in 0..MaxStamps /\ submits \in Nat
    /\ strayed \in BOOLEAN /\ signoffFaults \in 0..SignoffMaxFaults

\* create_signoff has committed the draft.
SignoffInit ==
    /\ signoff = NewSignoff /\ document = 0
    /\ signoffPc = [r \in SignoffRequests |-> "idle"]
    /\ signoffOp = [r \in SignoffRequests |-> "submit"]
    /\ signoffActor = [r \in SignoffRequests |-> 0]
    /\ signoffView = [r \in SignoffRequests |-> NewSignoff]
    /\ signoffDoc = [r \in SignoffRequests |-> 0]
    /\ told = {} /\ stamp = 0 /\ submits = 0 /\ strayed = FALSE /\ signoffFaults = 0

-----------------------------------------------------------------------------
(* Requests.                                                               *)

\* Anyone may submit a draft, the signer of the current node may sign or reject, and
\* the creator may cancel what is not final.
Allowed(p, o) ==
    \/ o = "submit" /\ signoff.status = "draft"
    \/ /\ o \in {"sign", "reject"}
       /\ signoff.status = "pending" /\ signoff.seq = p /\ p # 0
    \/ o = "cancel" /\ p = 0 /\ signoff.status \notin Final

MayAsk(p) == Repeats \/ \A r \in SignoffRequests : signoffPc[r] = "loaded" => signoffActor[r] # p

LoadSignoff(r, p, o) ==
    /\ signoffPc[r] = "idle" /\ MayAsk(p)
    /\ Allowed(p, o)
    /\ signoffPc' = [signoffPc EXCEPT ![r] = "loaded"]
    /\ signoffOp' = [signoffOp EXCEPT ![r] = o]
    /\ signoffActor' = [signoffActor EXCEPT ![r] = p]
    /\ signoffView' = [signoffView EXCEPT ![r] = signoff]
    /\ signoffDoc' = [signoffDoc EXCEPT ![r] = IF o = "submit" THEN document ELSE 0]
    /\ UNCHANGED <<signoff, document, told, stamp, submits, strayed, signoffFaults>>

SaveSignoff(r, new) ==
    /\ signoff' = Flushed(signoff, signoffView[r], new)
    /\ signoffPc' = [signoffPc EXCEPT ![r] = "committed"]
    /\ signoffView' = [signoffView EXCEPT ![r] = NewSignoff]
    /\ signoffDoc' = [signoffDoc EXCEPT ![r] = 0]
    /\ UNCHANGED <<document, signoffOp, signoffActor, told, strayed, signoffFaults>>

\* submit_signoff: the fingerprint and the start of the chain are fixed.
Submitted(row, doc) == [row EXCEPT !.status = "pending", !.seq = 1, !.chain = Genesis,
                                   !.fingerprint = doc]

SubmitSignoff(r) ==
    /\ signoffPc[r] = "loaded" /\ signoffOp[r] = "submit"
    /\ submits' = submits + 1
    /\ SaveSignoff(r, Submitted(signoffView[r], signoffDoc[r]))
    /\ UNCHANGED stamp

\* The node of the signer, marked and chained.
Marked(row, mark, at) ==
    LET hash == NodeHash(row.chain, row.seq, at) IN
    [row EXCEPT !.flow[row.seq] = [mark |-> mark, at |-> at, hash |-> hash],
                !.chain = hash]

\* Mutant: the flow ends one node early.
PassedOnEarly(row) == IF row.seq + 1 >= Nodes THEN [row EXCEPT !.status = "signed"]
                                              ELSE [row EXCEPT !.seq = row.seq + 1]

\* The last signature ends the flow, any other passes it on.
PassedOn(row) == IF row.seq >= Nodes THEN [row EXCEPT !.status = "signed"]
                                     ELSE [row EXCEPT !.seq = row.seq + 1]

Sign(r) ==
    /\ signoffPc[r] = "loaded" /\ signoffOp[r] = "sign"
    /\ stamp < MaxStamps /\ stamp' = stamp + 1
    /\ SaveSignoff(r, PassedOn(Marked(signoffView[r], "signed", stamp + 1)))
    /\ UNCHANGED submits

Reject(r) ==
    /\ signoffPc[r] = "loaded" /\ signoffOp[r] = "reject"
    /\ stamp < MaxStamps /\ stamp' = stamp + 1
    /\ SaveSignoff(r, [Marked(signoffView[r], "rejected", stamp + 1)
                          EXCEPT !.status = "rejected"])
    /\ UNCHANGED submits

CancelSignoff(r) ==
    /\ signoffPc[r] = "loaded" /\ signoffOp[r] = "cancel"
    /\ SaveSignoff(r, [signoffView[r] EXCEPT !.status = "cancelled"])
    /\ UNCHANGED <<stamp, submits>>

\* After the commit the row is loaded again, and the person it waits for is told: the
\* signer of the current node, or the creator when it is decided.  Nobody is told of
\* a cancellation.
Addressee(r) ==
    CASE signoffOp[r] = "cancel"                                -> {}
      [] signoffOp[r] = "reject"                                -> {0}
      [] signoffOp[r] = "sign" /\ signoff.status = "signed"     -> {0}
      [] OTHER                                                  -> {signoff.seq}

NotifySigner(r) ==
    /\ signoffPc[r] = "committed"
    /\ told' = told \cup Addressee(r)
    /\ signoffPc' = [signoffPc EXCEPT ![r] = "idle"]
    /\ UNCHANGED <<signoff, document, signoffOp, signoffActor, signoffView, signoffDoc, stamp,
                   submits, strayed, signoffFaults>>

\* The process stops: what was not committed is lost, and so is the notification.
SignoffDies(r) ==
    /\ signoffPc[r] # "idle" /\ signoffFaults < SignoffMaxFaults
    /\ signoffFaults' = signoffFaults + 1
    /\ signoffPc' = [signoffPc EXCEPT ![r] = "idle"]
    /\ signoffView' = [signoffView EXCEPT ![r] = NewSignoff]
    /\ signoffDoc' = [signoffDoc EXCEPT ![r] = 0]
    /\ UNCHANGED <<signoff, document, signoffOp, signoffActor, told, stamp, submits, strayed>>

\* The document is parsed again, indexed again or replaced.
EditDocument ==
    /\ document < MaxDocEdits
    /\ document' = document + 1
    /\ UNCHANGED <<signoff, signoffPc, signoffOp, signoffActor, signoffView, signoffDoc,
                   told, stamp, submits, strayed, signoffFaults>>

\* A repair or an import changes a signed node of the stored flow: when it was signed, or
\* that it was.
StrayEdit ==
    /\ signoffFaults < SignoffMaxFaults
    /\ signoffFaults' = signoffFaults + 1 /\ strayed' = TRUE
    /\ \A r \in SignoffRequests : signoffPc[r] # "loaded"
    /\ \E k \in 1..Nodes :
          /\ signoff.flow[k].mark # "pending"
          /\ \/ signoff' = [signoff EXCEPT !.flow[k] = Unsigned]
             \/ signoff' = [signoff EXCEPT !.flow[k].at = 0]
    /\ UNCHANGED <<document, signoffPc, signoffOp, signoffActor, signoffView, signoffDoc,
                   told, stamp, submits>>

SignoffNext ==
    \/ \E r \in SignoffRequests :
          \/ \E p \in People, o \in SignoffOps : LoadSignoff(r, p, o)
          \/ SubmitSignoff(r) \/ Sign(r) \/ Reject(r) \/ CancelSignoff(r)
          \/ NotifySigner(r) \/ SignoffDies(r)
    \/ EditDocument \/ StrayEdit

SignoffSpec == SignoffInit /\ [][SignoffNext]_signoffVars

-----------------------------------------------------------------------------
(* verify_signoff.                                                         *)

\* The chain computed again from the stored nodes; a node nobody signed has no part.
Recomputed(row) ==
    LET upTo[k \in 0..Nodes] ==
            IF k = 0 THEN Genesis
            ELSE IF row.flow[k].mark = "pending" THEN upTo[k - 1]
            ELSE NodeHash(upTo[k - 1], k, row.flow[k].at)
    IN upTo

ChainOk(row) ==
    LET chain == Recomputed(row) IN
    /\ \A k \in 1..Nodes : row.flow[k].mark # "pending" => row.flow[k].hash = chain[k]
    /\ chain[Nodes] = row.chain

DocChanged(row) == row.status # "draft" /\ row.fingerprint # document

Valid(row) == ChainOk(row) /\ ~DocChanged(row)

-----------------------------------------------------------------------------
(* Properties.                                                             *)

SignedNodes == {k \in 1..Nodes : signoff.flow[k].mark = "signed"}

\* A sign-off that was submitted once and whose people have one request each under way
\* never shows "signed" with a signature missing: neither a cancellation nor another
\* signature that overlaps takes a signature back.
SignedByAll ==
    submits <= 1 /\ ~Repeats /\ ~strayed /\ signoff.status = "signed" =>
        SignedNodes = 1..Nodes

\* Whatever the service itself does to such a sign-off, verify_signoff finds its chain
\* intact.
ChainIntact == submits <= 1 /\ ~Repeats /\ ~strayed => ChainOk(signoff)

\* verify_signoff reports a signed node that was changed or erased behind the service's
\* back, and goes on reporting it when later signatures are chained on top.
TamperEvident == submits <= 1 /\ ~Repeats /\ strayed => ~Valid(signoff)

\* A verdict is replaced by nothing but a cancellation that was under way before it.
VerdictStands ==
    signoff.status \in {"signed", "rejected"} /\ signoff'.status # signoff.status
        => signoff'.status = "cancelled" \/ submits' > 1 \/ Repeats

\* No sign-off waits for a signer who was not told, once the requests are done.
PendingSignerTold ==
    /\ \A r \in SignoffRequests : signoffPc[r] = "idle"
    /\ signoffFaults = 0 /\ ~Repeats /\ signoff.status = "pending"
    => signoff.seq \in told

\* What people signed, refused or altered shows, and the next of them knows.
SignoffKept ==
    [][/\ (SignedByAll /\ ChainIntact /\ TamperEvident /\ PendingSignerTold)'
       /\ VerdictStands]_signoffVars
=============================================================================
