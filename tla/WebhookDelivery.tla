--------------------------- MODULE WebhookDelivery ---------------------------
(***************************************************************************)
(* Webhook destinations and their durable deliveries (app/webhooks.py):    *)
(* alert routing with deduplication, suppression and escalation, the       *)
(* fan-out of observability events, the delivery step with its bounded     *)
(* retry, cooldown of a failing destination, and what operators do to      *)
(* destinations and failed deliveries.                                     *)
(*                                                                         *)
(* deliver_pending runs in every idle worker (app/worker.py) and in every  *)
(* operator sweep (app/routes/operator.py).  It takes a snapshot of the    *)
(* pending rows, posts each outside any session, and then reads the row    *)
(* again and writes it.  SessionLocal does not autoflush and an ORM commit *)
(* writes the attributes whose value differs from the one read, so reading *)
(* and writing are two steps and a write of an equal value is no write.    *)
(***************************************************************************)
EXTENDS Integers, Sequences, FiniteSets, SequencesExt

CONSTANTS
    Flushers,           \* threads that run deliver_pending
    Routers,            \* threads that run route_alerts_detailed or route_observability
    Operators,          \* threads that redrive
    Dests,              \* destinations
    Signals,            \* classification:subject of an alert
    Event,              \* stands for the source of an event's delivery
    DestSubscription,   \* what each destination takes: alerts, events or both
    DestKind,           \* kind of each destination
    DestMaxAttempts,    \* its max_attempts override, or Unset
    DestMinSeverity,    \* its min_severity
    DestAlertFilter,    \* the signals its alert_filter lets through
    DestEscalateAfter,  \* its escalate_after, 0 = not an escalation target
    DestWindow,         \* whether it has a suppression window
    GlobalMaxAttempts,  \* settings.webhook_max_attempts
    RedriveLimit,       \* settings.webhook_max_redrives
    CooldownThreshold,  \* settings.webhook_cooldown_threshold
    CooldownOn,         \* settings.webhook_cooldown_seconds > 0
    BatchLimit,         \* max_deliveries of one deliver_pending
    OperatorOps,        \* the operator actions taken
    MaxDeliveries,      \* bound: delivery rows ever inserted
    MaxSweeps,          \* bound: routing sweeps and events
    MaxCrashes,         \* bound: flushers killed in the middle of a batch
    Unset, NoDelivery   \* no override; content of a row not inserted yet

PENDING == "pending"
DELIVERED == "delivered"
FAILED == "failed"
Absent == "absent"

Ids == 1 .. MaxDeliveries           \* in creation order, so the id is created_at too
NoId == 0

SeverityRank == [info |-> 0, warning |-> 1, critical |-> 2]
Severities == DOMAIN SeverityRank
AdapterDefault == [webhook |-> Unset, slack |-> 2]
Kinds == DOMAIN AdapterDefault

ASSUME DeliveryAssumption ==
    /\ IsFiniteSet(Flushers) /\ IsFiniteSet(Routers) /\ IsFiniteSet(Operators)
    /\ IsFiniteSet(Dests)
    /\ IsFiniteSet(Signals) /\ Signals # {}
    /\ DestSubscription \in [Dests -> SUBSET {"alerts", "events"}] /\ Event \notin Signals
    /\ DestKind \in [Dests -> Kinds]
    /\ DestMaxAttempts \in [Dests -> (Nat \ {0}) \cup {Unset}]
    /\ DestMinSeverity \in [Dests -> {"warning", "critical"}]
    /\ DestAlertFilter \in [Dests -> SUBSET Signals]
    /\ DestEscalateAfter \in [Dests -> Nat]
    /\ DestWindow \in [Dests -> BOOLEAN] /\ CooldownOn \in BOOLEAN
    /\ GlobalMaxAttempts \in Int /\ RedriveLimit \in Int /\ CooldownThreshold \in Int
    /\ Unset \notin Nat
    /\ OperatorOps \subseteq {"redrive", "clear_cooldown", "create", "update", "delete"}
    /\ BatchLimit \in Nat \ {0} /\ MaxDeliveries \in Nat
    /\ MaxSweeps \in Nat /\ MaxCrashes \in Nat

(* A delivery's immutable columns.  An alert's delivery carries the dedup  *)
(* key alert:<dest>:<signal>, a redrive carries none; an event's delivery  *)
(* has a key nobody looks for, and no severity.                            *)
Requests == [dest : Dests, signal : Signals \cup {Event}, severity : Severities, redrive_of : Ids \cup {NoId}]

ASSUME NoDeliveryAssumption == NoDelivery \notin Requests

AtLeast1(n) == IF n > 1 THEN n ELSE 1

VARIABLES
    status, attempts, rows, created,    \* the table webhook_deliveries
    recent,         \* rows younger than their destination's window
    gone, disabled, \* destinations that do not exist (yet, or any more), that are switched off
    failures,       \* [Dests -> Nat], consecutive_failures
    cooldown,       \* [Dests -> ...], cooldown_until: unset, ahead or past
    occurrences,    \* [Signals -> Nat], alert_occurrences.count, 0 = no row
    fpc, fbatch, fsent, fseen,          \* the flushers' local state
    rpc, ralerts, rdests, rtodo, rnew,  \* the routers' local state
    opc, oroot,                         \* the operators' local state
    sweeps, crashes,
    posts,          \* history: [Ids -> Nat], POSTs sent
    accepted,       \* history: rows whose POST a receiver accepted
    losses,         \* history: [Ids -> Nat], tries whose outcome was never written
    again,          \* history: [Ids -> Nat], batches that took a row another flusher held
    crossed,        \* history: destinations written while another flusher had read them to write
    observed,       \* history: [Signals -> Nat], sweeps that saw the signal
    met,            \* history: what other sweeps have opened since a sweep decided on it
    blind           \* history: rows a sweep opened without having seen those

delivery == <<status, attempts, rows, created, recent>>
destination == <<gone, disabled, failures, cooldown>>
flusher == <<fpc, fbatch, fsent, fseen>>
router == <<rpc, ralerts, rdests, rtodo, rnew>>
operator == <<opc, oroot>>
flushHistory == <<posts, accepted, losses, again, crossed>>
routeHistory == <<observed, met, blind>>
history == <<flushHistory, routeHistory>>
vars == <<delivery, destination, occurrences, flusher, router, operator, sweeps, crashes, history>>

-----------------------------------------------------------------------------
(* Policy: pure functions of the code. *)

effective_max_attempts(kind, destMax) ==
    CASE destMax # Unset -> AtLeast1(destMax)
      [] destMax = Unset /\ AdapterDefault[kind] # Unset -> AtLeast1(AdapterDefault[kind])
      [] OTHER -> AtLeast1(GlobalMaxAttempts)

(* The retry budget of a delivery; a deleted destination has the default.  *)
Budget(d) ==
    IF d \in gone THEN AtLeast1(GlobalMaxAttempts)
    ELSE effective_max_attempts(DestKind[d], DestMaxAttempts[d])

(* The largest budget a delivery can have had: its destination may be      *)
(* deleted between two tries.                                              *)
BudgetBound(i) ==
    LET own == effective_max_attempts(DestKind[rows[i].dest], DestMaxAttempts[rows[i].dest])
        default == AtLeast1(GlobalMaxAttempts)
    IN IF own > default THEN own ELSE default

(* Rows that carry the dedup key alert:<d>:<s>. *)
Keyed(d, s) ==
    {i \in Ids : /\ status[i] # Absent /\ rows[i].redrive_of = NoId
                 /\ rows[i].dest = d /\ rows[i].signal = s}

(* The most recent of them, or NoId. *)
Latest(d, s) ==
    IF Keyed(d, s) = {} THEN NoId
    ELSE CHOOSE i \in Keyed(d, s) : \A k \in Keyed(d, s) : k <= i

(* Mutant of alert_routing_decision: a pending delivery does not hold the  *)
(* next one back.                                                          *)
routing_ignores_pending(d, s, severity, count) ==
    LET last == Latest(d, s) IN
    /\ SeverityRank[severity] >= SeverityRank[DestMinSeverity[d]]
    /\ s \in DestAlertFilter[d]
    /\ count >= DestEscalateAfter[d]
    /\ ~ (/\ last # NoId /\ last \in recent
          /\ rows[last].severity = severity)

(* Mutant of alert_routing_decision: every target escalates at once.       *)
routing_escalates_at_once(d, s, severity, count) ==
    LET last == Latest(d, s) IN
    /\ SeverityRank[severity] >= SeverityRank[DestMinSeverity[d]]
    /\ s \in DestAlertFilter[d]
    /\ last # NoId => /\ status[last] # PENDING
                      /\ last \in recent => rows[last].severity # severity

(* Whether an alert makes a new delivery: at or above the severity floor,  *)
(* not filtered, persistent enough for an escalation target, nothing       *)
(* pending, and not the same severity again within the window.             *)
alert_routing_decision(d, s, severity, count) ==
    LET last == Latest(d, s) IN
    /\ SeverityRank[severity] >= SeverityRank[DestMinSeverity[d]]
    /\ s \in DestAlertFilter[d]
    /\ count >= DestEscalateAfter[d]
    /\ last # NoId => /\ status[last] # PENDING
                      /\ last \in recent => rows[last].severity # severity

redrives(i) == {k \in Ids : status[k] # Absent /\ rows[k].redrive_of = i}

-----------------------------------------------------------------------------
(* deliver_pending *)

NotSent == [id |-> NoId, tries |-> 0, ok |-> FALSE, budget |-> 0]
NotSeen == [status |-> Absent, attempts |-> 0, dest |-> FALSE, failures |-> 0, cooldown |-> "unset"]
EmptyBatch == <<>>

(* The flushers that hold a copy of a row: it is still in their batch, or  *)
(* it is the one they are posting and writing.                             *)
Holders(i) == {f \in Flushers : i \in DOMAIN fbatch[f] \cup {fsent[f].id}}

(* Mutant of PendingBatch: rows that failed are tried again.               *)
BatchOfUndelivered ==
    LET open == {i \in Ids : status[i] \in {PENDING, FAILED}}
        oldest == {i \in open : Cardinality({k \in open : k <= i}) <= BatchLimit}
    IN [i \in oldest |-> attempts[i]]

(* Mutant of PendingBatch: every batch counts the attempts from zero.      *)
BatchFromZero ==
    LET pending == {i \in Ids : status[i] = PENDING}
        oldest == {i \in pending : Cardinality({k \in pending : k <= i}) <= BatchLimit}
    IN [i \in oldest |-> 0]

(* The oldest pending rows, with the attempts read with them.              *)
PendingBatch ==
    LET pending == {i \in Ids : status[i] = PENDING}
        oldest == {i \in pending : Cardinality({k \in pending : k <= i}) <= BatchLimit}
    IN [i \in oldest |-> attempts[i]]

FlusherAt(f, pc, batch, sent, seen) ==
    /\ fpc' = [fpc EXCEPT ![f] = pc]
    /\ fbatch' = [fbatch EXCEPT ![f] = batch]
    /\ fsent' = [fsent EXCEPT ![f] = sent]
    /\ fseen' = [fseen EXCEPT ![f] = seen]

Without(batch, i) == [k \in DOMAIN batch \ {i} |-> batch[k]]

(* The batch goes on with its next row, or is done. *)
NextItem(f, batch) ==
    IF DOMAIN batch = {} THEN FlusherAt(f, "ready", EmptyBatch, NotSent, NotSeen)
                         ELSE FlusherAt(f, "batch", batch, NotSent, NotSeen)

FlushSelect(f) ==
    /\ fpc[f] = "ready"
    /\ DOMAIN PendingBatch # {}
    /\ NextItem(f, PendingBatch)
    /\ again' = [i \in Ids |-> IF i \in DOMAIN PendingBatch /\ Holders(i) # {} THEN again[i] + 1 ELSE again[i]]
    /\ UNCHANGED <<delivery, destination, occurrences, router, operator, sweeps, crashes,
                   posts, accepted, losses, crossed, routeHistory>>

(* Read the destination, close the session, POST.  A deleted destination   *)
(* gets no POST and the attempt counts as failed.                          *)
FlushSend(f) ==
    /\ fpc[f] = "batch"
    /\ \E i \in DOMAIN fbatch[f], ok \in BOOLEAN :
         /\ \A k \in DOMAIN fbatch[f] : i <= k
         /\ rows[i].dest \in gone => ~ok
         /\ posts' = IF rows[i].dest \in gone THEN posts ELSE [posts EXCEPT ![i] = @ + 1]
         /\ accepted' = IF ok THEN accepted \cup {i} ELSE accepted
         /\ FlusherAt(f, "sent", Without(fbatch[f], i),
                      [id |-> i, tries |-> fbatch[f][i] + 1, ok |-> ok, budget |-> Budget(rows[i].dest)],
                      NotSeen)
    /\ UNCHANGED <<delivery, destination, occurrences, router, operator, sweeps, crashes,
                   losses, again, crossed, routeHistory>>

(* The second session reads the row and the destination ... *)
FlushRead(f) ==
    /\ fpc[f] = "sent"
    /\ LET i == fsent[f].id
           d == rows[i].dest
       IN FlusherAt(f, "seen", fbatch[f], fsent[f],
                    [status |-> status[i], attempts |-> attempts[i], dest |-> d \notin gone,
                     failures |-> failures[d], cooldown |-> cooldown[d]])
    /\ UNCHANGED <<delivery, destination, occurrences, router, operator, sweeps, crashes, history>>

(* An ORM write: the value is in the UPDATE only if it is not the one read. *)
Written(new, seen, current) == IF new # seen THEN new ELSE current

(* Mutant of Outcome: > instead of >=.                                     *)
OutcomeOffByOne(sent) ==
    IF sent.ok THEN DELIVERED ELSE IF sent.tries > sent.budget THEN FAILED ELSE PENDING

(* Mutant of Outcome: the last try counts as a failure before its answer   *)
(* is looked at.                                                           *)
OutcomeBudgetFirst(sent) ==
    IF sent.tries >= sent.budget THEN FAILED ELSE IF sent.ok THEN DELIVERED ELSE PENDING

(* Mutant of Outcome: a POST that got through at all counts as delivered.  *)
OutcomeAnyAnswer(sent) == IF sent.tries < sent.budget THEN PENDING ELSE DELIVERED

Outcome(sent) ==
    IF sent.ok THEN DELIVERED
    ELSE IF sent.tries >= sent.budget THEN FAILED ELSE PENDING

(* Mutant of Cools: the streak is not counted.                             *)
CoolsAtOnce(outcome, seen) == CooldownOn /\ outcome = FAILED

(* _on_delivery_failure: the failure that completes the streak cools the   *)
(* destination down.                                                       *)
Cools(outcome, seen) ==
    /\ CooldownOn /\ outcome = FAILED
    /\ seen.failures + 1 >= AtLeast1(CooldownThreshold)

(* What _on_delivery_success and _on_delivery_failure write to the         *)
(* destination: nothing for a retry or for values that stay equal.         *)
WritesDest(outcome, seen) ==
    /\ seen.dest
    /\ \/ outcome = FAILED
       \/ outcome = DELIVERED /\ (seen.failures # 0 \/ seen.cooldown # "unset")

(* Another flusher has read the destination and is yet to write it.        *)
ReadByOther(f, d) == \E g \in Flushers \ {f} : fpc[g] = "seen" /\ rows[fsent[g].id].dest = d

LoseAnswer(i) == losses' = [losses EXCEPT ![i] = @ + 1]

(* ... and writes both in one transaction.  If the destination it read has *)
(* been deleted since and is to be written, the commit fails, nothing is   *)
(* written and the exception ends the batch.                               *)
FlushWrite(f) ==
    /\ fpc[f] = "seen"
    /\ LET sent == fsent[f]
           seen == fseen[f]
           i == sent.id
           d == rows[i].dest
           outcome == Outcome(sent)
       IN IF WritesDest(outcome, seen) /\ d \in gone
          THEN /\ FlusherAt(f, "ready", EmptyBatch, NotSent, NotSeen)
               /\ LoseAnswer(i)
               /\ UNCHANGED <<status, attempts, failures, cooldown, crossed>>
          ELSE /\ status' = [status EXCEPT ![i] = Written(outcome, seen.status, @)]
               /\ attempts' = [attempts EXCEPT ![i] = Written(sent.tries, seen.attempts, @)]
               /\ NextItem(f, fbatch[f])
               /\ crossed' = IF WritesDest(outcome, seen) /\ ReadByOther(f, d) THEN crossed \cup {d} ELSE crossed
               /\ UNCHANGED losses
               /\ IF ~WritesDest(outcome, seen) THEN UNCHANGED <<failures, cooldown>>
                  ELSE IF outcome = DELIVERED
                  THEN /\ failures' = [failures EXCEPT ![d] = Written(0, seen.failures, @)]
                       /\ cooldown' = [cooldown EXCEPT ![d] = Written("unset", seen.cooldown, @)]
                  ELSE /\ failures' = [failures EXCEPT ![d] = seen.failures + 1]
                       /\ cooldown' = [cooldown EXCEPT ![d] = IF Cools(outcome, seen) THEN "ahead" ELSE @]
    /\ UNCHANGED <<rows, created, recent, gone, disabled, occurrences, router, operator, sweeps, crashes,
                   posts, accepted, again, routeHistory>>

(* The process is killed in the middle of its batch and started again.     *)
Crash(f) ==
    /\ crashes < MaxCrashes
    /\ fpc[f] # "ready"
    /\ crashes' = crashes + 1
    /\ FlusherAt(f, "ready", EmptyBatch, NotSent, NotSeen)
    /\ IF fpc[f] = "batch" THEN UNCHANGED losses ELSE LoseAnswer(fsent[f].id)
    /\ UNCHANGED <<delivery, destination, occurrences, router, operator, sweeps,
                   posts, accepted, again, crossed, routeHistory>>

-----------------------------------------------------------------------------
(* route_alerts_detailed *)

Pairs == Dests \X Signals
NoAlerts == <<>>

(* Inserts that threads may still make, which the bound makes room for.    *)
Reserved ==
    Cardinality({r \in Routers : rpc[r] # "ready"}) * Cardinality(Pairs)
    + Cardinality({o \in Operators : opc[o] # "ready"})

RouterAt(r, pc, alerts, dests, todo, new) ==
    /\ rpc' = [rpc EXCEPT ![r] = pc]
    /\ ralerts' = [ralerts EXCEPT ![r] = alerts]
    /\ rdests' = [rdests EXCEPT ![r] = dests]
    /\ rtodo' = [rtodo EXCEPT ![r] = todo]
    /\ rnew' = [rnew EXCEPT ![r] = new]

RouterDone(r) == RouterAt(r, "ready", NoAlerts, {}, {}, <<>>)

(* _record_occurrence, up to the commit: one more, or a new episode when   *)
(* the signal was last seen too long ago.                                  *)
NextCount(s, stale) == IF stale THEN 1 ELSE occurrences[s] + 1

(* Enabled destinations that take alerts, or events. *)
Subscribed(what) == {d \in Dests \ (gone \cup disabled) : what \in DestSubscription[d]}

(* The alerts of this sweep, their occurrence counts, the signals that are *)
(* silenced and the destinations that are not cooling down.                *)
RouteBegin(r) ==
    /\ sweeps < MaxSweeps
    /\ created + Reserved + Cardinality(Pairs) <= MaxDeliveries
    /\ rpc[r] = "ready"
    /\ \E seen \in SUBSET Signals \ {{}} :
       \E severity \in [seen -> {"warning", "critical"}], stale \in SUBSET seen, silenced \in SUBSET seen :
         /\ \A s \in stale : occurrences[s] > 0
         /\ RouterAt(r, "decide",
                [s \in seen |-> [severity |-> severity[s], count |-> NextCount(s, s \in stale),
                                 was |-> occurrences[s]]],
                {d \in Subscribed("alerts") : cooldown[d] = "ahead" \/ seen # silenced},
                {d \in Subscribed("alerts") : cooldown[d] # "ahead"} \X (seen \ silenced),
                <<>>)
         /\ observed' = [s \in Signals |-> IF s \in seen THEN observed[s] + 1 ELSE observed[s]]
    /\ sweeps' = sweeps + 1
    /\ UNCHANGED <<delivery, destination, occurrences, flusher, operator, crashes, flushHistory, met, blind>>

(* route_observability: every subscribed destination whose filters let the *)
(* event through gets a delivery, without a look at what is pending; one   *)
(* that is cooling down only has the skip counted.                         *)
EventBegin(r) ==
    /\ sweeps < MaxSweeps
    /\ created + Reserved + Cardinality(Pairs) <= MaxDeliveries
    /\ rpc[r] = "ready"
    /\ \E wanted \in SUBSET Subscribed("events") \ {{}} :
         LET new(d) == [dest |-> d, signal |-> Event, severity |-> "info", redrive_of |-> NoId]
             cooling == {d \in Subscribed("events") : cooldown[d] = "ahead"}
         IN RouterAt(r, "decide", NoAlerts, cooling, {}, SetToSeq({new(d) : d \in wanted \ cooling}))
    /\ sweeps' = sweeps + 1
    /\ UNCHANGED <<delivery, destination, occurrences, flusher, operator, crashes, history>>

(* The decision for one destination and one alert, on the rows as they are *)
(* in the table: this session's own inserts are not flushed yet.           *)
RouteDecide(r) ==
    /\ rpc[r] = "decide"
    /\ \E p \in rtodo[r] :
         LET d == p[1]
             s == p[2]
             severity == ralerts[r][s].severity
             request == [dest |-> d, signal |-> s, severity |-> severity, redrive_of |-> NoId]
         IN /\ RouterAt(r, "decide", ralerts[r], rdests[r], rtodo[r] \ {p},
                     IF alert_routing_decision(d, s, severity, ralerts[r][s].count)
                     THEN Append(rnew[r], request) ELSE rnew[r])
            /\ met' = [met EXCEPT ![r] = @ \ {p}]
    /\ UNCHANGED <<delivery, destination, occurrences, flusher, operator, sweeps, crashes,
                   flushHistory, observed, blind>>

(* The commit fails, and writes nothing, if an occurrence this session did *)
(* not find has been inserted since or a destination whose counters it     *)
(* bumps has been deleted.                                                 *)
CommitFails(r) ==
    \/ \E s \in DOMAIN ralerts[r] : ralerts[r][s].was = 0 /\ occurrences[s] > 0
    \/ rdests[r] \cap gone # {}

(* What a sweep is about to open. *)
Opening(r) == {p \in Pairs : \E n \in DOMAIN rnew[r] : <<rnew[r][n].dest, rnew[r][n].signal>> = p}

(* One commit writes the occurrences and inserts the deliveries.           *)
RouteCommit(r) ==
    /\ rpc[r] = "decide" /\ rtodo[r] = {}
    /\ IF CommitFails(r)
       THEN /\ met' = [met EXCEPT ![r] = {}]
            /\ UNCHANGED <<delivery, occurrences, blind>>
       ELSE LET New == created + 1 .. created + Len(rnew[r])
                Seen == DOMAIN ralerts[r] IN
            /\ created' = created + Len(rnew[r])
            /\ rows' = [i \in Ids |-> IF i \in New THEN rnew[r][i - created] ELSE rows[i]]
            /\ status' = [i \in Ids |-> IF i \in New THEN PENDING ELSE status[i]]
            /\ recent' = recent \cup {i \in New : DestWindow[rnew[r][i - created].dest]}
            /\ occurrences' = [s \in Signals |->
                    IF s \in Seen THEN Written(ralerts[r][s].count, ralerts[r][s].was, occurrences[s])
                                  ELSE occurrences[s]]
            /\ met' = [q \in Routers |-> IF q = r \/ rpc[q] = "ready" THEN {} ELSE met[q] \cup Opening(r)]
            /\ blind' = blind \cup {i \in New : <<rnew[r][i - created].dest, rnew[r][i - created].signal>> \in met[r]}
            /\ UNCHANGED attempts
    /\ RouterDone(r)
    /\ UNCHANGED <<destination, flusher, operator, sweeps, crashes, flushHistory, observed>>

(* The suppression window of the oldest row in one passes. *)
WindowPasses ==
    /\ recent # {}
    /\ recent' = {i \in recent : \E k \in recent : k < i}
    /\ UNCHANGED <<status, attempts, rows, created, destination, occurrences, flusher, router,
                   operator, sweeps, crashes, history>>

-----------------------------------------------------------------------------
(* Operators: redrive, clear_cooldown, create_destination,                 *)
(* update_destination, delete_destination                                  *)

(* Mutant of MayRedrive: <= instead of <.                                  *)
MayRedriveOnceMore(i) ==
    /\ status[i] = FAILED
    /\ \A k \in redrives(i) : status[k] # PENDING
    /\ Cardinality(redrives(i)) <= AtLeast1(RedriveLimit)

MayRedrive(i) ==
    /\ status[i] = FAILED
    /\ \A k \in redrives(i) : status[k] # PENDING
    /\ Cardinality(redrives(i)) < AtLeast1(RedriveLimit)

(* redrive checks the row and its children ... *)
RedriveCheck(o) ==
    /\ "redrive" \in OperatorOps
    /\ opc[o] = "ready"
    /\ created + Reserved + 1 <= MaxDeliveries
    /\ \E i \in Ids : MayRedrive(i) /\ oroot' = [oroot EXCEPT ![o] = i]
    /\ opc' = [opc EXCEPT ![o] = "insert"]
    /\ UNCHANGED <<delivery, destination, occurrences, flusher, router, sweeps, crashes, history>>

(* ... and inserts a pending copy that names the row as its origin.        *)
RedriveInsert(o) ==
    /\ opc[o] = "insert"
    /\ created' = created + 1
    /\ rows' = [rows EXCEPT ![created + 1] = [rows[oroot[o]] EXCEPT !.redrive_of = oroot[o]]]
    /\ status' = [status EXCEPT ![created + 1] = PENDING]
    /\ opc' = [opc EXCEPT ![o] = "ready"]
    /\ oroot' = [oroot EXCEPT ![o] = NoId]
    /\ UNCHANGED <<attempts, recent, destination, occurrences, flusher, router, sweeps, crashes, history>>

(* Mutant of clear_cooldown: the streak is taken down by one, even at zero. *)
clear_one(d) ==
    /\ "clear_cooldown" \in OperatorOps
    /\ d \notin gone
    /\ failures' = [failures EXCEPT ![d] = @ - 1]
    /\ cooldown' = [cooldown EXCEPT ![d] = "unset"]
    /\ UNCHANGED <<delivery, gone, disabled, occurrences, flusher, router, operator, sweeps, crashes, history>>

clear_cooldown(d) ==
    /\ "clear_cooldown" \in OperatorOps
    /\ d \notin gone
    /\ failures' = [failures EXCEPT ![d] = 0]
    /\ cooldown' = [cooldown EXCEPT ![d] = "unset"]
    /\ UNCHANGED <<delivery, gone, disabled, occurrences, flusher, router, operator, sweeps, crashes, history>>

CooldownEnds(d) ==
    /\ cooldown[d] = "ahead"
    /\ cooldown' = [cooldown EXCEPT ![d] = "past"]
    /\ UNCHANGED <<delivery, gone, disabled, failures, occurrences, flusher, router, operator, sweeps, crashes, history>>

(* A new destination is one that nothing refers to: no row, no sweep.      *)
create_destination(d) ==
    /\ "create" \in OperatorOps
    /\ d \in gone
    /\ \A i \in Ids : status[i] # Absent => rows[i].dest # d
    /\ \A r \in Routers : rpc[r] = "ready"
    /\ gone' = gone \ {d}
    /\ disabled' \in {disabled, disabled \cup {d}}
    /\ UNCHANGED <<delivery, failures, cooldown, occurrences, flusher, router, operator, sweeps, crashes, history>>

(* update_destination, as far as it is the switch: what is pending for a   *)
(* destination is delivered although it has been switched off.             *)
update_destination(d) ==
    /\ "update" \in OperatorOps
    /\ d \notin gone
    /\ disabled' = IF d \in disabled THEN disabled \ {d} ELSE disabled \cup {d}
    /\ UNCHANGED <<delivery, gone, failures, cooldown, occurrences, flusher, router, operator, sweeps, crashes,
                   history>>

delete_destination(d) ==
    /\ "delete" \in OperatorOps
    /\ d \notin gone
    /\ gone' = gone \cup {d}
    /\ disabled' = disabled \ {d}
    /\ failures' = [failures EXCEPT ![d] = 0]
    /\ cooldown' = [cooldown EXCEPT ![d] = "unset"]
    /\ UNCHANGED <<delivery, occurrences, flusher, router, operator, sweeps, crashes, history>>

-----------------------------------------------------------------------------
(* What operators are shown. *)

Originals(d) == {i \in Ids : status[i] # Absent /\ rows[i].dest = d /\ rows[i].redrive_of = NoId}

(* The state of a failed delivery, by its redrives. *)
_dead_letter_state(i) ==
    LET among(verdict) == \E k \in redrives(i) : status[k] = verdict
    IN  CASE among(DELIVERED) -> "resolved"
          [] ~among(DELIVERED) /\ among(PENDING) -> "redriven"
          [] OTHER -> IF Cardinality(redrives(i)) >= AtLeast1(RedriveLimit) THEN "exhausted"
                                                                          ELSE "redrive_candidate"

dead_letters == {i \in Ids : status[i] = FAILED /\ rows[i].redrive_of = NoId}

_health_of(d) ==
    CASE d \in disabled -> "disabled"
      [] d \notin disabled /\ cooldown[d] = "ahead" -> "cooling_down"
      [] OTHER ->
            IF Originals(d) \cap dead_letters = {} THEN "healthy"
            ELSE IF \E i \in Ids : status[i] = DELIVERED /\ rows[i].dest = d THEN "degraded" ELSE "failing"

-----------------------------------------------------------------------------

Init ==
    /\ status = [i \in Ids |-> Absent]
    /\ attempts = [i \in Ids |-> 0]
    /\ rows = [i \in Ids |-> NoDelivery]
    /\ created = 0
    /\ recent = {}
    /\ gone = IF "create" \in OperatorOps THEN Dests ELSE {}
    /\ disabled \in SUBSET (Dests \ gone)
    /\ failures = [d \in Dests |-> 0]
    /\ cooldown = [d \in Dests |-> "unset"]
    /\ occurrences = [s \in Signals |-> 0]
    /\ fpc = [f \in Flushers |-> "ready"]
    /\ fbatch = [f \in Flushers |-> EmptyBatch]
    /\ fsent = [f \in Flushers |-> NotSent]
    /\ fseen = [f \in Flushers |-> NotSeen]
    /\ rpc = [r \in Routers |-> "ready"]
    /\ ralerts = [r \in Routers |-> NoAlerts]
    /\ rdests = [r \in Routers |-> {}]
    /\ rtodo = [r \in Routers |-> {}]
    /\ rnew = [r \in Routers |-> <<>>]
    /\ opc = [o \in Operators |-> "ready"]
    /\ oroot = [o \in Operators |-> NoId]
    /\ sweeps = 0 /\ crashes = 0
    /\ posts = [i \in Ids |-> 0]
    /\ accepted = {}
    /\ losses = [i \in Ids |-> 0]
    /\ again = [i \in Ids |-> 0]
    /\ crossed = {}
    /\ observed = [s \in Signals |-> 0]
    /\ met = [r \in Routers |-> {}]
    /\ blind = {}

FlusherStep(f) == FlushSelect(f) \/ FlushSend(f) \/ FlushRead(f) \/ FlushWrite(f)

Next ==
    \/ \E f \in Flushers : FlusherStep(f) \/ Crash(f)
    \/ \E r \in Routers : RouteBegin(r) \/ EventBegin(r) \/ RouteDecide(r) \/ RouteCommit(r)
    \/ WindowPasses
    \/ \E o \in Operators : RedriveCheck(o) \/ RedriveInsert(o)
    \/ \E d \in Dests :
        \/ clear_cooldown(d) \/ CooldownEnds(d)
        \/ create_destination(d) \/ update_destination(d) \/ delete_destination(d)

Spec == Init /\ [][Next]_vars

(* A worker flushes on every idle turn of its loop, and a request that     *)
(* runs ends; nobody has to route or redrive anything.                     *)
FairSpec == Spec /\ \A f \in Flushers : WF_vars(FlusherStep(f))

-----------------------------------------------------------------------------
(* Properties *)

DeliveryTypeOK ==
    /\ status \in [Ids -> {Absent, PENDING, DELIVERED, FAILED}]
    /\ attempts \in [Ids -> Nat]
    /\ rows \in [Ids -> Requests \cup {NoDelivery}]
    /\ created \in 0 .. MaxDeliveries
    /\ recent \subseteq Ids /\ gone \subseteq Dests /\ disabled \subseteq Dests
    /\ failures \in [Dests -> Nat]
    /\ cooldown \in [Dests -> {"unset", "ahead", "past"}]
    /\ occurrences \in [Signals -> Nat]

FlusherTypeOK ==
    /\ fpc \in [Flushers -> {"ready", "batch", "sent", "seen"}]
    /\ DOMAIN fbatch = Flushers
    /\ \A f \in Flushers :
         /\ DOMAIN fbatch[f] \subseteq Ids
         /\ \A i \in DOMAIN fbatch[f] : fbatch[f][i] \in Nat
    /\ fsent \in [Flushers -> [id : Ids \cup {NoId}, tries : Nat, ok : BOOLEAN, budget : Nat]]
    /\ fseen \in [Flushers -> [status : {Absent, PENDING, DELIVERED, FAILED}, attempts : Nat,
                               dest : BOOLEAN, failures : Nat, cooldown : {"unset", "ahead", "past"}]]

RouterTypeOK ==
    /\ rpc \in [Routers -> {"ready", "decide"}]
    /\ DOMAIN ralerts = Routers
    /\ \A r \in Routers :
         /\ DOMAIN ralerts[r] \subseteq Signals
         /\ \A s \in DOMAIN ralerts[r] :
              ralerts[r][s] \in [severity : Severities, count : Nat, was : Nat]
    /\ rdests \in [Routers -> SUBSET Dests]
    /\ rtodo \in [Routers -> SUBSET Pairs]
    /\ rnew \in [Routers -> Seq(Requests)]
    /\ opc \in [Operators -> {"ready", "insert"}]
    /\ oroot \in [Operators -> Ids \cup {NoId}]

WorkTypeOK ==
    /\ DeliveryTypeOK /\ FlusherTypeOK /\ RouterTypeOK
    /\ sweeps \in 0 .. MaxSweeps /\ crashes \in 0 .. MaxCrashes
    /\ posts \in [Ids -> Nat] /\ accepted \subseteq Ids
    /\ observed \in [Signals -> Nat]

RaceTypeOK ==
    /\ losses \in [Ids -> Nat] /\ again \in [Ids -> Nat]
    /\ crossed \subseteq Dests
    /\ met \in [Routers -> SUBSET Pairs] /\ blind \subseteq Ids

(* Every column of the three tables and every local variable of a flusher, *)
(* a routing sweep or an operator request of webhooks.py has its type.     *)
TypeOK == WorkTypeOK /\ RaceTypeOK

(* The attempts column never exceeds the delivery's budget, however many   *)
(* flushers write over each other.                                         *)
AttemptsWithinBudget ==
    \A i \in Ids : status[i] # Absent => attempts[i] <= BudgetBound(i)

(* A delivery is marked delivered only if a receiver accepted a POST of    *)
(* it, whatever other flushers wrote to the row in between.                *)
HonestDelivered == \A i \in Ids : status[i] = DELIVERED => i \in accepted

(* A delivery marked failed was accepted by no receiver, unless an answer  *)
(* was lost to a kill or to a destination deleted under it, or two         *)
(* flushers held the row at once and one wrote over the other.             *)
HonestFailure ==
    \A i \in Ids : status[i] = FAILED /\ losses[i] = 0 /\ again[i] = 0 => i \notin accepted

(* A delivery is posted no more often than webhook_max_attempts or its     *)
(* destination's own bound allows (webhooks.py: "bounded by                *)
(* webhook_max_attempts"), and once more for each answer that was lost;    *)
(* a row held by two flushers may also be posted by both, and then have    *)
(* its attempts counted back.                                              *)
PostsBounded ==
    \A i \in Ids : status[i] # Absent => posts[i] <= BudgetBound(i) + losses[i] + 2 * again[i]

(* Who may touch a settled row: the row runs pending -> delivered |        *)
(* failed, and its verdict is taken back only where two flushers took the  *)
(* row at once (the worker's idle flush and an operator sweep), by one     *)
(* that still held a copy when it was settled.  Nobody takes a new copy,   *)
(* so each such holder undoes it at most once and then it is final.        *)
SettledStaysSettled ==
    [][\A i \in Ids : status[i] \in {DELIVERED, FAILED} =>
          /\ Holders(i)' \subseteq Holders(i)
          /\ status'[i] # status[i] => again[i] > 0 /\ Holders(i)' # Holders(i)]_vars

(* The deliveries of one signal to one destination are opened one after    *)
(* the other: while one is open no later one has been opened, although     *)
(* flushers, redrives and kills come between.  The exceptions are the two  *)
(* races the code leaves open, and each has to have happened to the rows   *)
(* in question: a sweep that opened a later one had decided before another *)
(* sweep's commit, or the earlier one was settled by one of two flushers   *)
(* that held it and reopened by the other.                                 *)
OneOpenPerSignal ==
    \A i, k \in Ids :
        /\ status[i] = PENDING /\ status[k] # Absent /\ i < k
        /\ rows[i].redrive_of = NoId /\ rows[k].redrive_of = NoId
        /\ rows[i].dest = rows[k].dest /\ rows[i].signal = rows[k].signal /\ rows[i].signal # Event
        => \/ again[i] > 0
           \/ \E n \in blind \cap Keyed(rows[i].dest, rows[i].signal) : i < n /\ n <= k

(* An escalation target hears of a signal only when that many sweeps saw   *)
(* it: lost updates of the counter can delay an escalation, never hasten   *)
(* it.                                                                     *)
NoEarlyEscalation ==
    \A i \in Ids : status[i] # Absent /\ rows[i].signal # Event =>
        observed[rows[i].signal] >= DestEscalateAfter[rows[i].dest]

(* The check of a redrive's cap and open child is a statement of its own,  *)
(* so each further operator at work may add one: a row has at most that    *)
(* many redrives beyond max(1, webhook_max_redrives), and at most one open *)
(* for each operator.  (A redrive two flushers held may be open again.)    *)
RedrivesBounded ==
    \A i \in Ids :
        /\ Cardinality(redrives(i)) < AtLeast1(RedriveLimit) + Cardinality(Operators)
        /\ Cardinality({k \in redrives(i) : status[k] = PENDING /\ again[k] = 0}) <= Cardinality(Operators)

(* A destination cools down only because of a streak that is still on its  *)
(* record: a success or an operator's clear takes both away.  It does not  *)
(* hold of a destination whose counter two flushers wrote from one value.  *)
CooldownJustified ==
    \A d \in Dests \ crossed : cooldown[d] = "ahead" => failures[d] >= AtLeast1(CooldownThreshold)

(* The dead-letter view and the redrive agree, although each looks at the  *)
(* redrives on its own: what is offered for a redrive is taken, what is    *)
(* exhausted or in flight is refused, and what is called resolved was      *)
(* accepted by the receiver.                                               *)
DeadLettersTrue ==
    \A i \in dead_letters :
        /\ _dead_letter_state(i) = "redrive_candidate" => MayRedrive(i)
        /\ _dead_letter_state(i) \in {"redriven", "exhausted"} => ~MayRedrive(i)
        /\ _dead_letter_state(i) = "resolved" => redrives(i) \cap accepted # {}

(* A destination that is called healthy has no streak of failures: each    *)
(* failure of a streak, be it of a redrive, has left a dead letter, unless *)
(* two flushers held one of its rows and undid it.                         *)
Undone(d) == \E i \in Ids : status[i] # Absent /\ rows[i].dest = d /\ again[i] > 0

HealthTrue ==
    \A d \in Dests \ gone : _health_of(d) = "healthy" => failures[d] = 0 \/ Undone(d)

(* Every verdict has its cause, for any number of flushers, sweeps and     *)
(* operators, over kills and deletions; what a race takes away it takes    *)
(* from the rows and destinations that were raced for, and no others.  A   *)
(* failure was accepted by nobody and took no more posts than its budget,  *)
(* a cooldown has its streak, an escalation its sweeps, every column of    *)
(* the rows its type, and operators are shown the truth.                   *)
VerdictsJustified ==
    /\ TypeOK /\ HonestFailure /\ PostsBounded /\ CooldownJustified /\ NoEarlyEscalation
    /\ DeadLettersTrue /\ HealthTrue

(* What two flushers leave true, one of which may be killed: every verdict *)
(* has its cause, the attempts stay within the budget also of the rows     *)
(* that they write over each other, and "delivered" is never said of a     *)
(* delivery that nobody accepted.                                          *)
RacesKeepVerdicts == VerdictsJustified /\ AttemptsWithinBudget /\ HonestDelivered

(* Every pending delivery is delivered or fails: the retries are bounded   *)
(* and the oldest rows do not keep the others from their turn.             *)
PendingSettles == \A i \in Ids : status[i] = PENDING ~> status[i] # PENDING
=============================================================================
