---------------------------- MODULE IncidentSync ----------------------------
(***************************************************************************)
(* app/incidents.py and the outbound half of app/incident_sync.py: the     *)
(* sweep opens and recovers an operator incident from the current alerts,  *)
(* operators act on it, and every committed transition is mirrored to an   *)
(* external target by a durable record that is sent, retried by the sweep, *)
(* given up after a cap, and redriven by an operator.                      *)
(*                                                                         *)
(* One signal and one enabled target, which an operator may delete: the    *)
(* code treats each incident, and each target, alone.  Server processes    *)
(* run sweeps and operator calls in any interleaving; an operator call's   *)
(* or an attempt's read, its POST and its commit are steps of their own    *)
(* (the sweep's own two sessions, and an attempt that finds no target,     *)
(* wait for nothing and are one step each), a commit writes the attributes *)
(* the session has changed, and a process may die between any two steps.   *)
(***************************************************************************)
EXTENDS Integers, Sequences, FiniteSets, OpsPolicy

CONSTANTS
    Procs,          \* server processes
    MaxAttempts,    \* incident_sync_max_attempts
    MaxRedrives,    \* incident_sync_max_redrives
    Budgets         \* bounds: records of the job to begin with and the signal watched,
                    \* and how many changes of the job, operator calls (and which),
                    \* crashes and POSTs that go wrong there are

Ops == {"acknowledged", "silenced", "unsilenced", "recovered", "note_updated", "redrive", "delete_target"}
RowOps == Ops \ {"redrive", "delete_target"}

ASSUME SyncAssumption ==
    /\ IsFiniteSet(Procs) /\ Procs # {}
    /\ MaxAttempts \in Nat \ {0} /\ MaxRedrives \in Nat \ {0}
    /\ Budgets \subseteq [job : Job, watched : {"stuck", "retry_exhausted", "triage_needed"},
                          changes : Nat, calls : Nat, ops : SUBSET Ops, crashes : Nat, faults : Nat]

VARIABLES
    job,        \* the ExecutionJob row the signal is about
    row,        \* the OperatorIncident row
    records,    \* IncidentSyncRecord rows in the order of their creation
    links,      \* IncidentExternalLink rows: the last record of each
    target,     \* the ExternalIncidentTarget row: deleted, or its failure streak is zero or not
    external,   \* the vendor's incident
    proc,       \* what each process is doing
    sent,       \* history, per record: POSTs (up to MaxAttempts), taken by the target
    budget      \* what is left of the bounds

vars == <<job, row, records, links, target, external, proc, sent, budget>>
outside == <<job, target, budget>>

NoRow == [state |-> "none", ack |-> FALSE, until |-> "null"]
Active == {"open", "acknowledged", "silenced"}
Ids == DOMAIN records

(* A process with nothing to do; what is left to do is a set of records,   *)
(* taken in the order of their creation.                                   *)
Idle == [pc |-> "idle", seen |-> NoRow, act |-> "", next |-> "idle",
         todo |-> {}, attempts |-> 0, status |-> "pending", ok |-> FALSE, link |-> FALSE,
         target |-> "healthy"]

At(p, pc) == proc[p].pc = pc
Now(p, r) == r \in proc[p].todo /\ \A other \in proc[p].todo : r <= other
Step(p, changed) == proc' = [proc EXCEPT ![p] = changed]
GoTo(p, pc) == IF pc = "idle" THEN Step(p, Idle) ELSE Step(p, [proc[p] EXCEPT !.pc = pc])

(* What a process goes on with after its attempts. *)
Return(p) == Step(p, [Idle EXCEPT !.pc = proc[p].next])

(* A commit writes what the session changed of the row it has read. *)
Commit(seen, new) == row' = [f \in DOMAIN row |-> IF new[f] = seen[f] THEN row[f] ELSE new[f]]

-----------------------------------------------------------------------------
(* The sweep: alerts, observe, recover_stale, flush_pending *)

(* signal_of is the classification and the job, so each classification of  *)
(* a job has an incident of its own; this one is of the watched one.       *)
alert == \E v \in alerts(job) : v.classification = budget.watched

(* With no alerts observe returns at once; with this one recover_stale     *)
(* leaves its incident alone.                                              *)
StartSweep(p) ==
    /\ At(p, "idle")
    /\ Step(p, [Idle EXCEPT !.pc = IF alert THEN "observe" ELSE "recover"])
    /\ UNCHANGED <<row, records, links, external, sent, outside>>

(* Mutant of Fresh: a silence that has run out stays. *)
FreshRecovered(r) == r.state = "recovered"

Fresh(r) == r.state = "recovered" \/ (r.state = "silenced" /\ r.until # "running")

Emit(p, action, next) == Step(p, [proc[p] EXCEPT !.pc = "export", !.act = action, !.next = next])

(* A new condition opens, a recovered or unmuted one reopens, any other    *)
(* only counts.                                                            *)
Observe(p) ==
    /\ At(p, "observe")
    /\ IF row.state = "none" \/ Fresh(row)
       THEN /\ row' = [NoRow EXCEPT !.state = "open"]
            /\ Emit(p, IF row.state = "none" THEN "opened" ELSE "reopened", "flush")
       ELSE GoTo(p, "flush") /\ UNCHANGED row
    /\ UNCHANGED <<records, links, external, sent, outside>>

(* Mutant of Cleared: what is being worked on is left alone. *)
ClearedOpen == row.state = "open"

(* recover_stale takes every incident that is not recovered and whose      *)
(* signal is not among the alerts the sweep has read.                      *)
Cleared == row.state \in Active

Recover(p) ==
    /\ At(p, "recover")
    /\ IF Cleared
       THEN /\ row' = [row EXCEPT !.state = "recovered", !.until = "null"]
            /\ Emit(p, "recovered", "flush")
       ELSE GoTo(p, "flush") /\ UNCHANGED row
    /\ UNCHANGED <<records, links, external, sent, outside>>

(* Mutant of Pending: only what was never tried. *)
PendingNew == {r \in Ids : records[r].status = "pending" /\ records[r].attempts = 0}

Pending == {r \in Ids : records[r].status = "pending"}

(* flush_pending reads the pending ids once, oldest first. *)
Flush(p) ==
    /\ At(p, "flush")
    /\ IF Pending = {} THEN Step(p, Idle)
       ELSE Step(p, [Idle EXCEPT !.pc = "send", !.todo = Pending])
    /\ UNCHANGED <<row, records, links, external, sent, outside>>

(* A list of the incidents refreshes them and flushes nothing. *)
List(p) ==
    /\ At(p, "flush")
    /\ Step(p, Idle)
    /\ UNCHANGED <<row, records, links, external, sent, outside>>

-----------------------------------------------------------------------------
(* Operator calls: _apply loads the row, changes it, commits and emits *)

MayCall(op) == op \in budget.ops /\ budget.calls > 0

Call(p, op) ==
    /\ At(p, "idle") /\ row.state # "none"
    /\ op \in RowOps /\ MayCall(op)
    /\ budget' = [budget EXCEPT !.calls = @ - 1]
    /\ Step(p, [Idle EXCEPT !.pc = "apply", !.seen = row, !.act = op])
    /\ UNCHANGED <<job, target, row, records, links, external, sent>>

Applied(r, op) ==
    CASE op = "acknowledged" -> [r EXCEPT !.ack = TRUE,
                                          !.state = IF @ = "open" THEN "acknowledged" ELSE @]
      [] op = "silenced" -> [r EXCEPT !.state = "silenced", !.until = "running"]
      [] op = "unsilenced" -> [r EXCEPT !.until = "null",
                                        !.state = IF r.ack THEN "acknowledged" ELSE "open"]
      [] op = "recovered" -> [r EXCEPT !.state = "recovered", !.until = "null"]
      [] op = "note_updated" -> r

Apply(p) ==
    LET seen == proc[p].seen
        op == proc[p].act
    IN  /\ At(p, "apply")
        /\ IF op = "recovered" /\ seen.state = "recovered"
           THEN UNCHANGED row /\ Step(p, Idle)
           ELSE Commit(seen, Applied(seen, op)) /\ Emit(p, op, "idle")
        /\ UNCHANGED <<records, links, external, sent, outside>>

-----------------------------------------------------------------------------
(* export, _attempt, redrive *)

Record(action, parent) == [action |-> action, status |-> "pending", attempts |-> 0, parent |-> parent]

(* _emit_sync and export: a record is committed for the target, then       *)
(* attempted once.                                                         *)
Export(p) ==
    /\ At(p, "export")
    /\ IF target = "deleted" THEN Return(p) /\ UNCHANGED <<records, sent>>
       ELSE /\ records' = Append(records, Record(proc[p].act, 0))
            /\ sent' = Append(sent, [posts |-> 0, taken |-> FALSE])
            /\ Step(p, [proc[p] EXCEPT !.pc = "send", !.todo = {Len(records) + 1}])
    /\ UNCHANGED <<row, links, external, outside>>

AfterSend(p, r) ==
    IF proc[p].todo # {r} THEN [Idle EXCEPT !.pc = "send", !.next = proc[p].next, !.todo = proc[p].todo \ {r}]
                          ELSE [Idle EXCEPT !.pc = proc[p].next]

(* Mutant of Event: the transition's own name is sent. *)
EventRaw(action) == action

(* The adapter's event: what is not in its table is a trigger. *)
Event(action) ==
    CASE action = "recovered" -> "resolved"
      [] action = "acknowledged" -> "acknowledged"
      [] OTHER -> "triggered"

(* A record that another process has synced meanwhile is left alone. *)
SkipSynced(p) ==
    /\ At(p, "send")
    /\ \E r \in Ids : Now(p, r) /\ records[r].status = "synced" /\ Step(p, AfterSend(p, r))
    /\ UNCHANGED <<row, records, links, external, sent, outside>>

(* Without its target a record is given up as it stands. *)
GiveUp(p) ==
    /\ At(p, "send") /\ target = "deleted"
    /\ \E r \in Ids : /\ Now(p, r) /\ records[r].status # "synced"
                       /\ records' = [records EXCEPT ![r].status = "failed"]
                       /\ Step(p, AfterSend(p, r))
    /\ UNCHANGED <<row, links, external, sent, outside>>

(* Mutant of Understood: any answer is a success. *)
UnderstoodAny(taken, lost) == ~lost

(* A 2xx that arrives is a success; a timeout is not, whatever the target  *)
(* has done.                                                               *)
Understood(taken, lost) == taken /\ ~lost

(* The record is read and posted: the target takes it or not, and its      *)
(* answer arrives or is lost; upon a success _upsert_link looks for the    *)
(* row of this incident and target.                                        *)
Send(p) ==
    /\ At(p, "send") /\ target # "deleted"
    /\ \E r \in Ids, taken, lost \in BOOLEAN :
        /\ Now(p, r) /\ records[r].status # "synced"
        /\ (taken /\ ~lost) \/ budget.faults > 0
        /\ budget' = [budget EXCEPT !.faults = IF taken /\ ~lost THEN @ ELSE @ - 1]
        /\ external' = IF taken THEN Event(records[r].action) ELSE external
        /\ sent' = [sent EXCEPT ![r] = [posts |-> IF @.posts < MaxAttempts THEN @.posts + 1 ELSE @.posts,
                                        taken |-> @.taken \/ taken]]
        /\ Step(p, [proc[p] EXCEPT !.pc = "settle", !.attempts = records[r].attempts, !.status = records[r].status,
                                   !.ok = Understood(taken, lost), !.link = links # <<>>,
                                   !.target = target])
    /\ UNCHANGED <<job, target, row, records, links>>

(* Mutant of Linked: every success makes a row of its own. *)
LinkedAnew(r, found) == Append(links, r)

(* The row that was found, or a new one, holds the record. *)
Linked(r, found) == IF found THEN [links EXCEPT ![1] = r] ELSE Append(links, r)

(* Mutant of Outcome: one attempt too few. *)
OutcomeEarly(attempts, ok) ==
    IF ok THEN "synced" ELSE IF attempts + 1 >= MaxAttempts THEN "failed" ELSE "pending"

Outcome(attempts, ok) ==
    IF ok THEN "synced" ELSE IF attempts >= MaxAttempts THEN "failed" ELSE "pending"

(* The target's streak of failures is written with the record, but a       *)
(* success that has read no streak leaves the target's row alone.          *)
WritesTarget(p) == ~proc[p].ok \/ proc[p].target = "failing"

(* The commit: attempts and, when it changed, the status of the record as  *)
(* it was read, and the target's health.  When the target to be written    *)
(* has been deleted meanwhile the commit fails and the exception ends the  *)
(* batch.                                                                  *)
Settle(p) ==
    LET attempts == proc[p].attempts + 1
        status == Outcome(attempts, proc[p].ok)
    IN  /\ At(p, "settle")
        /\ IF WritesTarget(p) /\ target = "deleted"
           THEN Return(p) /\ UNCHANGED <<records, links, target>>
           ELSE /\ \E r \in Ids :
                    /\ Now(p, r)
                    /\ records' = [records EXCEPT ![r].attempts = attempts,
                                                  ![r].status = IF status = proc[p].status THEN @ ELSE status]
                    /\ links' = IF proc[p].ok THEN Linked(r, proc[p].link) ELSE links
                    /\ Step(p, AfterSend(p, r))
                /\ target' = IF ~WritesTarget(p) THEN target ELSE IF proc[p].ok THEN "healthy" ELSE "failing"
        /\ UNCHANGED <<row, external, sent, job, budget>>

Children(r) == {c \in Ids : records[c].parent = r}

(* Mutant of MayRedrive: the children are not looked at. *)
MayRedriveAny(r) == records[r].status = "failed"

(* Only a failed record, none of whose redrives is open or has succeeded,  *)
(* and not without end.                                                    *)
MayRedrive(r) ==
    /\ records[r].status = "failed"
    /\ \A c \in Children(r) : records[c].status = "failed"
    /\ Cardinality(Children(r)) < MaxRedrives

(* redrive_incident_latest: unless the newest record is synced, the newest *)
(* that failed.                                                            *)
RedriveLatest(p) ==
    LET failed == {r \in Ids : records[r].status = "failed"}
    IN  /\ At(p, "idle") /\ MayCall("redrive")
        /\ failed # {} /\ records[Len(records)].status # "synced"
        /\ \E r \in failed : (\A f \in failed : f <= r) /\ Step(p, [Idle EXCEPT !.pc = "check", !.todo = {r}])
        /\ budget' = [budget EXCEPT !.calls = @ - 1]
        /\ UNCHANGED <<job, target, row, records, links, external, sent>>

(* redrive of a record the operator names, or of the latest. *)
RedriveCheck(p) ==
    /\ \/ /\ At(p, "idle") /\ MayCall("redrive")
          /\ \E r \in Ids : MayRedrive(r) /\ Step(p, [Idle EXCEPT !.pc = "redrive", !.todo = {r}])
          /\ budget' = [budget EXCEPT !.calls = @ - 1]
       \/ /\ At(p, "check")
          /\ GoTo(p, IF \A r \in proc[p].todo : MayRedrive(r) THEN "redrive" ELSE "idle")
          /\ UNCHANGED budget
    /\ UNCHANGED <<job, target, row, records, links, external, sent>>

Redrive(p) ==
    /\ At(p, "redrive")
    /\ \E r \in proc[p].todo : records' = Append(records, Record(records[r].action, r))
    /\ sent' = Append(sent, [posts |-> 0, taken |-> FALSE])
    /\ Step(p, [Idle EXCEPT !.pc = "send", !.todo = {Len(records) + 1}])
    /\ UNCHANGED <<row, links, external, outside>>

delete_target ==
    /\ MayCall("delete_target") /\ target # "deleted"
    /\ target' = "deleted"
    /\ budget' = [budget EXCEPT !.calls = @ - 1]
    /\ UNCHANGED <<job, row, records, links, external, proc, sent>>

-----------------------------------------------------------------------------
(* The world *)

JobChanges ==
    /\ budget.changes > 0
    /\ job' \in Changes(job)
    /\ budget' = [budget EXCEPT !.changes = @ - 1]
    /\ UNCHANGED <<target, row, records, links, external, proc, sent>>

SilenceRunsOut ==
    /\ row.until = "running"
    /\ row' = [row EXCEPT !.until = "over"]
    /\ UNCHANGED <<records, links, external, proc, sent, outside>>

Crash(p) ==
    /\ ~At(p, "idle") /\ budget.crashes > 0
    /\ budget' = [budget EXCEPT !.crashes = @ - 1]
    /\ Step(p, Idle)
    /\ UNCHANGED <<job, target, row, records, links, external, sent>>

Init ==
    /\ row = NoRow
    /\ records = <<>> /\ links = <<>> /\ sent = <<>>
    /\ target = "healthy" /\ external = "none"
    /\ proc = [p \in Procs |-> Idle]
    /\ budget \in Budgets
    /\ job = budget.job

Work(p) ==
    \/ Observe(p) \/ Recover(p) \/ Apply(p) \/ Export(p) \/ SkipSynced(p) \/ GiveUp(p) \/ Send(p) \/ Settle(p)
    \/ Redrive(p)

Next ==
    \/ \E p \in Procs :
        \/ Work(p) \/ StartSweep(p) \/ Flush(p) \/ List(p)
        \/ \E op \in Ops : Call(p, op)
        \/ RedriveLatest(p) \/ RedriveCheck(p) \/ Crash(p)
    \/ delete_target \/ JobChanges \/ SilenceRunsOut

Spec == Init /\ [][Next]_vars

(* Started requests go on, the scheduler keeps calling the sweep, which    *)
(* flushes, and time passes.                                               *)
FairSpec ==
    /\ Spec
    /\ \A p \in Procs : WF_vars(Work(p)) /\ WF_vars(StartSweep(p)) /\ SF_vars(Flush(p))
    /\ WF_vars(SilenceRunsOut)

-----------------------------------------------------------------------------
(* Properties *)

TypeOK ==
    /\ job \in Job
    /\ row.state \in Active \cup {"none", "recovered"}
    /\ row.ack \in BOOLEAN /\ row.until \in {"null", "running", "over"}
    /\ \A r \in Ids : /\ records[r].status \in {"pending", "synced", "failed"}
                      /\ records[r].parent \in 0..(r - 1)
    /\ links \in Seq(Ids) /\ DOMAIN sent = Ids
    /\ target \in {"healthy", "failing", "deleted"}
    /\ external \in {"none", "triggered", "acknowledged", "resolved"}
    /\ \A p \in Procs : /\ DOMAIN proc[p] = DOMAIN Idle
                        /\ proc[p].pc \in {"idle", "observe", "recover", "flush", "apply",
                                           "export", "send", "settle", "check", "redrive"}
                        /\ proc[p].todo \subseteq Ids

(* A record is called synced, and a link is made or renewed, only for a    *)
(* transition the target has really taken: a failed sync never makes or    *)
(* overwrites a link (_attempt, _upsert_link), whoever commits last.       *)
SyncedWasTaken ==
    /\ \A r \in Ids : records[r].status = "synced" => sent[r].taken
    /\ \A l \in DOMAIN links : sent[links[l]].taken

(* As long as the target exists a transition is given up only after the    *)
(* whole budget of POSTs was spent on it: flushes that overtake each other *)
(* lose counts, which can only add attempts, never take one away.  After   *)
(* its deletion an attempt gives a record up without a POST.               *)
NotGivenUpEarly ==
    \A r \in Ids :
        records[r].status = "failed" => sent[r].posts >= MaxAttempts \/ target = "deleted"

(* Redrives are bounded, and one at a time has attempts left, up to the    *)
(* calls that checked before the other's redrive was there (redrive).  A   *)
(* failed redrive that an older flush still holds may be sent again and    *)
(* succeed beside the next one, and without the target every redrive is    *)
(* given up at once.                                                       *)
RedrivesBounded ==
    LET racing == Cardinality(Procs) - 1
        fresh(r) == {c \in Children(r) : sent[c].posts < MaxAttempts}
    IN  \A r \in Ids : /\ Cardinality(Children(r)) <= MaxRedrives + racing
                       /\ target # "deleted" => Cardinality(fresh(r)) <= 1 + racing

(* One link row per incident and target, up to the first successes that    *)
(* did not see each other's row.                                           *)
LinksBounded == Len(links) <= Cardinality(Procs)

(* The bounds of the mirroring together: attempts, redrives, links and     *)
(* types.                                                                  *)
BudgetsKept == TypeOK /\ NotGivenUpEarly /\ RedrivesBounded /\ LinksBounded

(* No transition is lost or left undecided: a record that was committed is *)
(* in the end synced or failed, through lost answers, a crash between the  *)
(* commit and the first attempt, and the retries of several sweeps.        *)
RecordsDecided == <>[](\A r \in Ids : records[r].status # "pending")

(* The incident follows the condition: once it stays cleared the incident  *)
(* stays recovered, whatever acknowledgement revived it in a race.         *)
ClearedRecovers == <>[]~alert => <>[](row.state \in {"none", "recovered"})

(* A silence is never a black hole: once the condition stays, the incident *)
(* is in the end active and audible, whatever was silenced or recovered.   *)
RaisedIsAudible == <>[]alert => <>[](row.state \in {"open", "acknowledged"})
=============================================================================
