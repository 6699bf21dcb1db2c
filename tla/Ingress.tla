------------------------------ MODULE Ingress ------------------------------
(***************************************************************************)
(* The door for events of the supervision systems: a connector or a person *)
(* delivers one, as often as it likes; it is told apart by its id, brought *)
(* to a common form with the mapping of devices that administrators keep,  *)
(* and starts a diagnosis or is only filed.  What the diagnosis answers is *)
(* made into a draft and graded.  The life of the run and of its task is   *)
(* that of ProactiveRun; here are the requests that overlap at the door.   *)
(***************************************************************************)
EXTENDS Naturals, Sequences, FiniteSets, OrmSession

CONSTANTS
    Requesters,       \* requests that may overlap
    Sites,            \* tenants
    TokenMap,         \* the tokens configured, tenant by tenant: a function on some tenants
    SecretMap,        \* the signing secrets, likewise
    OnlySite,         \* the tenant that the single token and secret belong to
    OnlyToken, OnlySecret,           \* those, or ""
    SiteOf,           \* the tenant of each user, by the user's token
    MayReport,        \* users with the permission to report
    Deliveries,       \* what may be delivered
    MappingEdits,     \* what administrators may save
    Diagnoses,          \* what a diagnosis may answer
    MaxDeliveries, MaxMapped,        \* bounds: requests of either kind
    IngressMaxFaults  \* bound: transactions that fail

ASSUME IngressAssumption ==
    /\ DOMAIN TokenMap \cup DOMAIN SecretMap \cup {OnlySite} \subseteq Sites
    /\ MayReport \subseteq DOMAIN SiteOf /\ \A u \in DOMAIN SiteOf : SiteOf[u] \in Sites
    /\ MaxDeliveries \in Nat /\ MaxMapped \in Nat /\ IngressMaxFaults \in Nat

VARIABLES
    events,           \* events[k]: the event of a tenant and id, with its run
    made,             \* made[k]: runs, alerts and tasks made for it, in all
    mappings,         \* mappings[t]: the row of the one device that tenants map
    doors,            \* what each request is about to commit, and the rows it has read
    delivered, mapped, ingressFaults,
    repeats,          \* history: deliveries answered as repeated, for each key
    crowded,          \* history: two requests overlapped
    offered,          \* history: what a mapping was while a request was open
    namedFrom         \* history: the same, for the request that made an event

ingressVars == <<events, made, mappings, doors, delivered, mapped, ingressFaults, repeats,
                 crowded, offered, namedFrom>>

FirstOf(values) ==
    IF \E i \in DOMAIN values : values[i] # ""
    THEN values[CHOOSE i \in DOMAIN values :
                    values[i] # "" /\ \A j \in 1..(i - 1) : values[j] = ""]
    ELSE ""

-----------------------------------------------------------------------------
(* Who delivers.                                                           *)

\* realtime_ingress_token, realtime_signing_secret: the tenant's own, else the single one if
\* it is bound to this tenant.
Expected(map, single, t) ==
    IF t \in DOMAIN map THEN map[t] ELSE IF t = OnlySite THEN single ELSE ""

RightToken(token, t) == token # "" /\ token = Expected(TokenMap, OnlyToken, t)

MaxSkew == 300

\* A signature covers the tenant, the time and the body, and lasts for five minutes.
RightSignature(s, t) ==
    /\ s.secret # "" /\ s.secret = Expected(SecretMap, OnlySecret, t)
    /\ s.site = t /\ s.age <= MaxSkew

\* authenticate_realtime_ingress: a token, a signature, or a bearer, who is a user or a
\* connector of old; the tenant a header names must be well formed where it is looked at.
IdentityOf(d) ==
    LET headed == d.token # "" \/ d.signed.secret # ""
        byHeader == d.site \in Sites
                    /\ (RightToken(d.token, d.site) \/ RightSignature(d.signed, d.site))
    IN  IF headed /\ d.site \notin Sites THEN "refused"
        ELSE IF byHeader THEN d.site
        ELSE IF d.bearer \in DOMAIN SiteOf
             THEN IF d.bearer \in MayReport THEN SiteOf[d.bearer] ELSE "refused"
        ELSE IF d.site \in Sites /\ RightToken(d.bearer, d.site) THEN d.site ELSE "refused"

-----------------------------------------------------------------------------
(* The common form.                                                        *)

Ladder == <<"info", "notice", "warning", "major", "critical">>
Severities == {Ladder[i] : i \in DOMAIN Ladder}
RankOf(level) == CHOOSE i \in DOMAIN Ladder : Ladder[i] = level

\* The words for a level, those of Chinese left out.
WordsFor == [info |-> {"0", "normal", "debug", "info"}, notice |-> {"1", "notice", "minor"},
             warning |-> {"2", "warn", "warning"}, major |-> {"3", "major", "error"},
             critical |-> {"4", "5", "critical", "fatal", "emergency"}]

\* normalize_severity: what nobody knows is a warning.
Severity(word) ==
    IF \E l \in Severities : word \in WordsFor[l]
    THEN CHOOSE l \in Severities : word \in WordsFor[l] ELSE "warning"

\* _explicit_risk_level: the same words but one; what nobody knows was not declared.
DeclaredRisk(word) ==
    IF \E l \in Severities : word \in WordsFor[l] \ {"debug"}
    THEN CHOOSE l \in Severities : word \in WordsFor[l] ELSE ""

NonAction == {"clear", "cleared", "recover", "recovered", "recovery", "heartbeat", "normal",
              "status_normal", "ack", "acknowledged"}

\* evaluate_rule_gate: a type is looked through for three marks, wherever in it they stand.
Triggers(type, level) ==
    type.name \notin NonAction /\ type.marks = {} /\ level \in {"warning", "major", "critical"}

KeysOf ==
    [scada |-> <<"deviceId", "equipmentId", "deviceCode", "pointDeviceId", "pointId">>,
     oms |-> <<"resourceId", "deviceId", "equipmentId", "deviceCode">>,
     pms |-> <<"assetId", "equipmentCode", "deviceId", "equipmentId">>,
     generic |-> <<"deviceId", "equipmentId", "assetId", "resourceId">>]

\* extract_source_device_id: the reference, else the first key of its source in the payload,
\* else in the payload's device.
SourceDevice(d) ==
    LET under(told) == FirstOf([i \in DOMAIN KeysOf[d.source] |->
            IF KeysOf[d.source][i] \in DOMAIN told THEN told[KeysOf[d.source][i]] ELSE ""])
    IN  FirstOf(<<d.device, under(d.payload), under(d.nested)>>)

NoMapping == [canonical |-> "", name |-> "", active |-> FALSE]

\* _find_mapping: the row the request sees, unless it is switched off; only one device is
\* ever mapped.
MappingFor(d, row) == IF SourceDevice(d) = "dev" /\ row.active THEN row ELSE NoMapping

\* normalize_event_payload: what the mapping says, else the delivery.
Normalized(d, row) ==
    LET found == MappingFor(d, row)
        level == Severity(d.severity)
    IN  [level |-> level,
         status |-> IF Triggers(d.type, level) THEN "queued" ELSE "ignored",
         device |-> FirstOf(<<found.canonical,
                              IF SourceDevice(d) # "" THEN "unmapped" ELSE "unknown">>),
         name |-> FirstOf(<<found.name, d.name, SourceDevice(d)>>),
         station |-> d.station]

-----------------------------------------------------------------------------
(* The rows.                                                               *)

EventKeys == Sites \X {d.id : d \in Deliveries}
NoEvent == [status |-> "absent", level |-> "info", device |-> "", name |-> "", station |-> "",
            dups |-> 0, quality |-> 0]
Outside == [at |-> "idle"]

IngressTypeOK ==
    /\ \A k \in EventKeys :
          /\ events[k].status \in {"absent", "ignored", "queued", "proposed", "failed"}
          /\ events[k].level \in Severities
          /\ events[k].dups \in 0..MaxDeliveries /\ events[k].quality \in 0..100
          /\ made[k].runs \in 0..MaxDeliveries /\ repeats[k] \in 0..MaxDeliveries
    /\ \A t \in Sites : mappings[t] \in MappingEdits \cup {NoMapping} \/ crowded
    /\ \A r \in Requesters : doors[r].at \in {"idle", "event", "mapping"}
    /\ delivered \in 0..MaxDeliveries /\ mapped \in 0..MaxMapped
    /\ ingressFaults \in 0..IngressMaxFaults /\ crowded \in BOOLEAN

IngressInit ==
    /\ events = [k \in EventKeys |-> NoEvent]
    /\ made = [k \in EventKeys |-> [runs |-> 0, alerts |-> 0, tasks |-> 0]]
    /\ mappings = [t \in Sites |-> NoMapping]
    /\ doors = [r \in Requesters |-> Outside]
    /\ delivered = 0 /\ mapped = 0 /\ ingressFaults = 0
    /\ repeats = [k \in EventKeys |-> 0] /\ crowded = FALSE
    /\ offered = [r \in Requesters |-> {}] /\ namedFrom = [k \in EventKeys |-> {}]

Crowd(r) == crowded' = (crowded \/ \E q \in Requesters \ {r} : doors[q].at # "idle")

LeaveDoor(r) == doors' = [doors EXCEPT ![r] = Outside]

\* A request is let in, and its snapshot is opened.
Deliver(r, d) ==
    LET t == IdentityOf(d) IN
    /\ doors[r].at = "idle" /\ delivered < MaxDeliveries /\ t # "refused"
    /\ delivered' = delivered + 1
    /\ doors' = [doors EXCEPT ![r] = [at |-> "event", key |-> <<t, d.id>>, body |-> d,
                                      sees |-> events[<<t, d.id>>], row |-> mappings[t]]]
    /\ offered' = [offered EXCEPT ![r] = {mappings[t]}]
    /\ Crowd(r)
    /\ UNCHANGED <<events, made, mappings, mapped, ingressFaults, repeats, namedFrom>>

\* The first of its id: event, alert, run and task in one transaction.  If another one was
\* first the key refuses it, and what it repeats is read again.
CommitEvent(r) ==
    LET k == doors[r].key
        n == Normalized(doors[r].body, doors[r].row)
        triggers == IF n.status = "queued" THEN 1 ELSE 0
    IN
    /\ doors[r].at = "event" /\ doors[r].sees.status = "absent"
    /\ IF events[k].status # "absent"
       THEN /\ doors' = [doors EXCEPT ![r].sees = events[k]]
            /\ UNCHANGED <<events, made, namedFrom>>
       ELSE /\ events' = [events EXCEPT ![k] =
                   [NoEvent EXCEPT !.status = n.status, !.level = n.level, !.device = n.device,
                                   !.name = n.name, !.station = n.station]]
            /\ namedFrom' = [namedFrom EXCEPT ![k] = offered[r]]
            /\ made' = [made EXCEPT ![k].runs = @ + 1, ![k].alerts = @ + triggers,
                                    ![k].tasks = @ + triggers]
            /\ LeaveDoor(r)
    /\ UNCHANGED <<mappings, delivered, mapped, ingressFaults, repeats, crowded, offered>>

\* The count of repetitions is read, raised and written back.
CommitRepeat(r) ==
    LET k == doors[r].key IN
    /\ doors[r].at = "event" /\ doors[r].sees.status # "absent"
    /\ events' = [events EXCEPT ![k] =
           Flushed(@, doors[r].sees, [doors[r].sees EXCEPT !.dups = @ + 1])]
    /\ repeats' = [repeats EXCEPT ![k] = @ + 1]
    /\ LeaveDoor(r)
    /\ UNCHANGED <<made, mappings, delivered, mapped, ingressFaults, crowded, offered, namedFrom>>

\* upsert_device_mapping, up to its commit.
OpenMapping(r, t, edit) ==
    /\ doors[r].at = "idle" /\ mapped < MaxMapped /\ mapped' = mapped + 1
    /\ doors' = [doors EXCEPT ![r] = [at |-> "mapping", site |-> t, new |-> edit,
                                      sees |-> mappings[t]]]
    /\ Crowd(r)
    /\ UNCHANGED <<events, made, mappings, delivered, ingressFaults, repeats, offered, namedFrom>>

\* Two that make the row: the key refuses the second, and its request fails.
CommitMapping(r) ==
    LET t == doors[r].site
        refused == doors[r].sees = NoMapping /\ mappings[t] # NoMapping
        row == IF doors[r].sees = NoMapping THEN doors[r].new
               ELSE Flushed(mappings[t], doors[r].sees, doors[r].new)
    IN
    /\ doors[r].at = "mapping"
    /\ mappings' = IF refused THEN mappings ELSE [mappings EXCEPT ![t] = row]
    /\ offered' = [q \in Requesters |->
           IF doors[q].at = "event" THEN offered[q] \cup {mappings'[t]} ELSE offered[q]]
    /\ LeaveDoor(r)
    /\ UNCHANGED <<events, made, delivered, mapped, ingressFaults, repeats, crowded, namedFrom>>

\* A transaction fails, and its request with it.
FailAtDoor(r) ==
    /\ doors[r].at # "idle" /\ ingressFaults < IngressMaxFaults
    /\ ingressFaults' = ingressFaults + 1 /\ LeaveDoor(r)
    /\ UNCHANGED <<events, made, mappings, delivered, mapped, repeats, crowded, offered, namedFrom>>

-----------------------------------------------------------------------------
(* The answer of the diagnosis.                                            *)

\* normalize_ticket_draft: lists from the answer's ticket, else from the answer; a task and a
\* device there always are, a location only if the event or the answer knows one.
DraftOf(a, e) ==
    [steps |-> a.steps, safety |-> a.safety, risks |-> a.risks,
     located |-> a.located \/ e.station # ""]

\* score_proactive_recommendation: what was consulted, the risk declared, and what can be done.
Points(holds, points) == IF holds THEN points ELSE 0

EvidencePoints(a) ==
    IF a.reasoned /\ a.toolsUsed /\ ~a.degraded THEN 40
    ELSE IF a.reasoned \/ a.toolsUsed THEN 20 ELSE 10

RiskPoints(declared, level) == IF declared # "" /\ RankOf(declared) = RankOf(level) THEN 25 ELSE 10

Quality(a, e) ==
    LET draft == DraftOf(a, e) IN
    EvidencePoints(a) + RiskPoints(DeclaredRisk(a.riskLevel), e.level)
    + Points(draft.steps, 15) + Points(draft.safety, 10) + Points(draft.risks, 5)
    + Points(draft.located, 5)

\* process_proactive_run with the model's answer: one of the second schema that has neither
\* what to do nor a summary fails for the alert, which wants one of them.
Diagnose(k, a) ==
    /\ events[k].status = "queued"
    /\ events' = [events EXCEPT
           ![k].status = IF a.v2 /\ ~a.says THEN "failed" ELSE "proposed",
           ![k].quality = IF a.v2 /\ ~a.says THEN 0 ELSE Quality(a, events[k])]
    /\ UNCHANGED <<made, mappings, doors, delivered, mapped, ingressFaults, repeats, crowded,
                   offered, namedFrom>>

IngressNext ==
    \/ \E r \in Requesters :
          \/ CommitEvent(r) \/ CommitRepeat(r) \/ CommitMapping(r) \/ FailAtDoor(r)
          \/ \E d \in Deliveries : Deliver(r, d)
          \/ \E u \in DOMAIN SiteOf, edit \in MappingEdits : OpenMapping(r, SiteOf[u], edit)
    \/ \E k \in EventKeys, a \in Diagnoses : Diagnose(k, a)

IngressSpec == IngressInit /\ [][IngressNext]_ingressVars

-----------------------------------------------------------------------------
(* Properties.                                                             *)

\* However often and from how many connectors at once an event is delivered, it has one run,
\* and an alert and a task exactly if the gate let it through.
DiagnosedOnce ==
    \A k \in EventKeys :
        /\ made[k].runs = IF events[k].status = "absent" THEN 0 ELSE 1
        /\ made[k].alerts = made[k].tasks
        /\ made[k].tasks = IF events[k].status \in {"absent", "ignored"} THEN 0 ELSE 1

\* The count of repetitions never tells of one that was not, and without overlaps of all.
RepeatsCounted ==
    \A k \in EventKeys :
        events[k].dups <= repeats[k] /\ (~crowded => events[k].dups = repeats[k])

\* An event names the device as a mapping in force named it while the event was at the door.
MappedAsOffered ==
    \A k \in EventKeys :
        events[k].status # "absent" =>
            \/ \E row \in namedFrom[k] : row.active /\ events[k].device = row.canonical
            \/ events[k].device \in {"unmapped", "unknown"}

IngressKept == DiagnosedOnce /\ RepeatsCounted /\ MappedAsOffered

\* Every delivery of an event that is known is counted.
EveryRepeatCounted == \A k \in EventKeys : events[k].dups = repeats[k]

\* A mapping is one that somebody saved, whoever saves at the same time.
AlwaysSaved == \A t \in Sites : mappings[t] \in MappingEdits \cup {NoMapping}
=============================================================================
