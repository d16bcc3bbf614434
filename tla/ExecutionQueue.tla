--------------------------- MODULE ExecutionQueue ---------------------------
(***************************************************************************)
(* The durable execution queue of backend/app/execution_queue.py, the      *)
(* worker loop of app/worker.py, the artifact handler of                   *)
(* app/job_handlers.py and the scheduling policy of app/job_policy.py.     *)
(*                                                                         *)
(* Worker processes and API request threads share one SQL table.  A        *)
(* service method opens a session, SELECTs the row, decides, and writes it *)
(* back with an UPDATE that names only the row's id: the read and the      *)
(* write are two steps here, and other processes run between them.  Only   *)
(* the claim's UPDATE carries the status it expects, so only that one      *)
(* tests and sets in one step.                                             *)
(***************************************************************************)
EXTENDS Integers, FiniteSets

CONSTANTS
    Workers,            \* worker processes (python -m app.worker)
    Clients,            \* API request threads
    Owners,             \* scopes a job belongs to
    Kinds,              \* job kinds that are enqueued
    HandledKinds,       \* the kinds a handler is registered for
    Goals,              \* what distinguishes the dedup keys of two approvals
    MaxAttempts,        \* settings.job_max_attempts
    ClassCap,           \* settings.queue_concurrency_<class>, 0 = unbounded
    OwnerCap,           \* settings.queue_per_owner_inflight_cap
    SchedulingEnabled,  \* settings.queue_scheduling_enabled
    ClientOps,          \* the API operations clients use
    MaxJobs,            \* bound: rows ever inserted
    MaxCrashes,         \* bound: worker processes killed in the middle of a job
    NoRow,              \* content of a row that is not inserted yet
    NoWorker            \* holder of a job nobody executes

QUEUED == "queued"
RUNNING == "running"
AWAITING_APPROVAL == "awaiting_approval"
VALIDATING == "validating"
REPAIRING == "repairing"
COMPLETED == "completed"
FAILED == "failed"
CANCEL_REQUESTED == "cancel_requested"
CANCELED == "canceled"

Active == {QUEUED, RUNNING, AWAITING_APPROVAL, VALIDATING, REPAIRING, CANCEL_REQUESTED}
Terminal == {COMPLETED, FAILED, CANCELED}
Interruptible == {RUNNING, VALIDATING, REPAIRING, AWAITING_APPROVAL}
Retryable == {FAILED}

Absent == "absent"                      \* the row does not exist yet
Statuses == Active \cup Terminal \cup {Absent}

Classes == {"interactive", "artifact", "validation", "maintenance"}
AllKinds == {"artifact", "startup_validation", "runtime_validation", "chat"}

ASSUME QueueAssumption ==
    /\ Workers # {} /\ NoWorker \notin Workers
    /\ Kinds \subseteq AllKinds /\ HandledKinds \subseteq Kinds
    /\ MaxAttempts \in Int /\ OwnerCap \in Int
    /\ ClassCap \in [Classes -> Nat]
    /\ SchedulingEnabled \in BOOLEAN
    /\ ClientOps \subseteq {"submit", "cancel", "retry", "replay"}
    /\ MaxJobs \in Nat \ {0} /\ MaxCrashes \in Nat

(* Row ids are given in creation order, so the id is also created_at.      *)
Jobs == 1 .. MaxJobs
NoJob == 0

(* A job's request: its scope, its kind and its lineage.  The dedup key is *)
(* artifact:<owner>:<kind>:<goal> for an approval, retry:<job> and         *)
(* replay:<job>:operator for a re-run, so two rows with equal requests are *)
(* exactly two rows of one owner with one dedup key.                       *)
Requests ==
    [owner : Owners, kind : Kinds, origin : {"user"}, of : Goals] \cup
    [owner : Owners, kind : Kinds, origin : {"retry", "replay"}, of : Jobs]

ASSUME NoRowAssumption == NoRow \notin Requests

(* max(1, settings.job_max_attempts) *)
AttemptLimit == IF MaxAttempts > 1 THEN MaxAttempts ELSE 1

VARIABLES
    status,     \* [Jobs -> Statuses], the column execution_jobs.status
    attempts,   \* [Jobs -> Nat], the column attempts
    rows,       \* [Jobs -> Requests or NoRow], the columns written once
    created,    \* how many rows were inserted
    wpc, wjob, wtarget, wblocked,       \* the workers' local state
    cpc, cjob, cseen, creq,             \* the request threads' local state
    crashes,
    produced,   \* history: [Jobs -> Nat], generations that succeeded
    lost,       \* history: jobs whose worker was killed
    stopping,   \* history: jobs whose cancel was acknowledged in time
    asked,      \* history: jobs a cancel was ever written for
    overtaken,  \* history: request threads whose look-up an INSERT made stale
    doubled,    \* history: rows that such a thread inserted
    revived     \* history: ended rows that a write by id put back in flight

table == <<status, attempts, rows, created>>
worker == <<wpc, wjob, wtarget, wblocked>>
client == <<cpc, cjob, cseen, creq>>
history == <<produced, lost, stopping, asked>>
races == <<overtaken, doubled, revived>>
vars == <<table, worker, client, crashes, history, races>>

-----------------------------------------------------------------------------
(* app/job_policy.py *)

class_for(kind, origin) ==
    CASE origin = "replay" -> "maintenance"
      [] origin # "replay" /\ kind = "artifact" -> "artifact"
      [] origin # "replay" /\ kind \in {"startup_validation", "runtime_validation"} -> "validation"
      [] OTHER -> "interactive"

Priority == [interactive |-> 100, artifact |-> 50, validation |-> 40, maintenance |-> 10]

exec_class(j) == class_for(rows[j].kind, rows[j].origin)

(* Mutant of InFlight: queued jobs and jobs asked to stop take slots too.   *)
InFlightAnyActive == {j \in Jobs : status[j] \in Active}

InFlight == {j \in Jobs : status[j] \in Interruptible}

blocked_classes ==
    {c \in Classes : /\ ClassCap[c] > 0
                     /\ Cardinality({j \in InFlight : exec_class(j) = c}) >= ClassCap[c]}

per_owner_cap == IF OwnerCap > 1 THEN OwnerCap ELSE 1

blocked_owners ==
    {o \in Owners : Cardinality({j \in InFlight : rows[j].owner = o}) >= per_owner_cap}

(* ORDER BY priority DESC, created_at ASC, or created_at ASC alone *)
Precedes(i, j) ==
    \/ i = j
    \/ ~SchedulingEnabled /\ i < j
    \/ /\ SchedulingEnabled
       /\ \/ Priority[exec_class(i)] > Priority[exec_class(j)]
          \/ Priority[exec_class(i)] = Priority[exec_class(j)] /\ i < j

-----------------------------------------------------------------------------
(* What a worker is doing.  "read" and "write" are the two halves of       *)
(* transition(job, wtarget).                                               *)

ExecutingPcs == {"claimed", "handler", "generating", "raised", "failing",
                 "finished", "read", "write"}
WorkerPcs == {"idle", "select", "claim"} \cup ExecutingPcs
NoTarget == "none"
NothingBlocked == [classes |-> {}, owners |-> {}]

Executes(w, j) == wjob[w] = j /\ wpc[w] \in ExecutingPcs

(* _is_cancelled *)
IsCancelled(j) == status[j] \in {CANCEL_REQUESTED, CANCELED}

(* Mutant of HasActiveTwin: only a row that still waits stops a second one. *)
HasQueuedTwin(r) == \E j \in Jobs : rows[j] = r /\ status[j] = QUEUED

(* An enqueue has looked for this: an in-flight row with the same key.     *)
HasActiveTwin(r) == \E j \in Jobs : rows[j] = r /\ status[j] \in Active

(* Inserts that are already decided on, which the bound makes room for.    *)
Room == created + Cardinality({c \in Clients : cpc[c] \in {"clone", "insert"}}) < MaxJobs

Goto(w, pc) ==
    /\ wpc' = [wpc EXCEPT ![w] = pc]
    /\ UNCHANGED <<wjob, wtarget, wblocked>>

BeginTransition(w, target) ==
    /\ wpc' = [wpc EXCEPT ![w] = "read"]
    /\ wtarget' = [wtarget EXCEPT ![w] = target]
    /\ UNCHANGED <<wjob, wblocked>>

Release(w) ==
    /\ wpc' = [wpc EXCEPT ![w] = "idle"]
    /\ wjob' = [wjob EXCEPT ![w] = NoJob]
    /\ wtarget' = [wtarget EXCEPT ![w] = NoTarget]
    /\ wblocked' = [wblocked EXCEPT ![w] = NothingBlocked]

(* Writing s over a row that has ended meanwhile puts it back in flight.   *)
Revives(j, s) ==
    revived' = IF status[j] \in Terminal /\ s \in Active THEN revived \cup {j} ELSE revived

(* Where a worker goes when transition(job, wtarget) returns: the handler  *)
(* goes on after "validating", run_once returns after any other.           *)
AfterTransition(w) ==
    IF wtarget[w] = VALIDATING
    THEN /\ wpc' = [wpc EXCEPT ![w] = "generating"]
         /\ wtarget' = [wtarget EXCEPT ![w] = NoTarget]
         /\ UNCHANGED <<wjob, wblocked>>
    ELSE Release(w)

-----------------------------------------------------------------------------
(* claim: count the jobs in flight, select, update.                        *)

CountInFlight(w) ==
    /\ wpc[w] = "idle"
    /\ wpc' = [wpc EXCEPT ![w] = "select"]
    /\ wblocked' = [wblocked EXCEPT ![w] =
            IF SchedulingEnabled
            THEN [classes |-> blocked_classes, owners |-> blocked_owners]
            ELSE NothingBlocked]
    /\ UNCHANGED <<table, wjob, wtarget, client, crashes, history, races>>

Eligible(w) ==
    {j \in Jobs : /\ status[j] = QUEUED
                  /\ exec_class(j) \notin wblocked[w].classes
                  /\ rows[j].owner \notin wblocked[w].owners}

SelectNext(w) ==
    /\ wpc[w] = "select"
    /\ \/ /\ Eligible(w) = {}
          /\ Release(w)
       \/ \E j \in Eligible(w) :
            /\ \A i \in Eligible(w) : Precedes(j, i)
            /\ wpc' = [wpc EXCEPT ![w] = "claim"]
            /\ wjob' = [wjob EXCEPT ![w] = j]
            /\ wblocked' = [wblocked EXCEPT ![w] = NothingBlocked]
            /\ UNCHANGED wtarget
    /\ UNCHANGED <<table, client, crashes, history, races>>

(* Mutant of ClaimUpdate: the UPDATE names the row's id only.              *)
ClaimUnguarded(w) ==
    /\ wpc[w] = "claim"
    /\ status' = [status EXCEPT ![wjob[w]] = RUNNING]
    /\ attempts' = [attempts EXCEPT ![wjob[w]] = @ + 1]
    /\ Goto(w, "claimed")
    /\ UNCHANGED <<rows, created, client, crashes, history, races>>

(* UPDATE ... WHERE id = ? AND status = 'queued', and its rowcount.        *)
ClaimUpdate(w) ==
    /\ wpc[w] = "claim"
    /\ \/ /\ status[wjob[w]] = QUEUED
          /\ status' = [status EXCEPT ![wjob[w]] = RUNNING]
          /\ attempts' = [attempts EXCEPT ![wjob[w]] = @ + 1]
          /\ Goto(w, "claimed")
       \/ /\ status[wjob[w]] # QUEUED
          /\ Release(w)
          /\ UNCHANGED <<status, attempts>>
    /\ UNCHANGED <<rows, created, client, crashes, history, races>>

(* Checkpoint 1, and the lookup of the handler. *)
Checkpoint1(w) ==
    /\ wpc[w] = "claimed"
    /\ \/ IsCancelled(wjob[w]) /\ BeginTransition(w, CANCELED)
       \/ /\ ~IsCancelled(wjob[w])
          /\ rows[wjob[w]].kind \notin HandledKinds
          /\ BeginTransition(w, FAILED)
       \/ /\ ~IsCancelled(wjob[w])
          /\ rows[wjob[w]].kind \in HandledKinds
          /\ Goto(w, "handler")
    /\ UNCHANGED <<table, client, crashes, history, races>>

(* The handler's own checkpoint: bail out, or announce "validating".       *)
HandlerCheckpoint(w) ==
    /\ wpc[w] = "handler"
    /\ BeginTransition(w, IF IsCancelled(wjob[w]) THEN CANCELED ELSE VALIDATING)
    /\ UNCHANGED <<table, client, crashes, history, races>>

(* ArtifactService.generate returned a completed outcome. *)
GenerateSucceeds(w) ==
    /\ wpc[w] = "generating"
    /\ Goto(w, "finished")
    /\ produced' = [produced EXCEPT ![wjob[w]] = @ + 1]
    /\ UNCHANGED <<table, client, crashes, lost, stopping, asked, races>>

(* It did not, or the handler raised before it came that far.              *)
HandlerRaises(w) ==
    /\ wpc[w] \in {"handler", "generating"}
    /\ Goto(w, "raised")
    /\ UNCHANGED <<table, client, crashes, history, races>>

(* Mutant of RequeueOrFail: <= instead of <.                               *)
RequeueOffByOne(w) ==
    /\ wpc[w] = "raised"
    /\ IF attempts[wjob[w]] <= AttemptLimit /\ ~IsCancelled(wjob[w])
       THEN BeginTransition(w, QUEUED)
       ELSE Goto(w, "failing")
    /\ UNCHANGED <<table, client, crashes, history, races>>

(* The repair retry: attempts left and no cancel seen. *)
RequeueOrFail(w) ==
    /\ wpc[w] = "raised"
    /\ IF attempts[wjob[w]] < AttemptLimit /\ ~IsCancelled(wjob[w])
       THEN BeginTransition(w, QUEUED)
       ELSE Goto(w, "failing")
    /\ UNCHANGED <<table, client, crashes, history, races>>

(* Mutant of CancelOrFail: a cancelled job that raised is called failed.   *)
FailAlways(w) ==
    /\ wpc[w] = "failing"
    /\ BeginTransition(w, FAILED)
    /\ UNCHANGED <<table, client, crashes, history, races>>

(* Mutant of CancelOrFail: the exception is swallowed, the row left alone. *)
DropSilently(w) ==
    /\ wpc[w] = "failing"
    /\ Release(w)
    /\ UNCHANGED <<table, client, crashes, history, races>>

CancelOrFail(w) ==
    /\ wpc[w] = "failing"
    /\ BeginTransition(w, IF IsCancelled(wjob[w]) THEN CANCELED ELSE FAILED)
    /\ UNCHANGED <<table, client, crashes, history, races>>

Checkpoint2(w) ==
    /\ wpc[w] = "finished"
    /\ BeginTransition(w, IF IsCancelled(wjob[w]) THEN CANCELED ELSE COMPLETED)
    /\ UNCHANGED <<table, client, crashes, history, races>>

(* transition reads the row; a terminal row is left as it is. *)
TransitionRead(w) ==
    /\ wpc[w] = "read"
    /\ IF status[wjob[w]] \in Terminal
       THEN AfterTransition(w)
       ELSE Goto(w, "write")
    /\ UNCHANGED <<table, client, crashes, history, races>>

(* ... and writes it, whatever the row says by now. *)
TransitionWrite(w) ==
    /\ wpc[w] = "write"
    /\ status' = [status EXCEPT ![wjob[w]] = wtarget[w]]
    /\ Revives(wjob[w], wtarget[w])
    /\ AfterTransition(w)
    /\ UNCHANGED <<attempts, rows, created, client, crashes, history, overtaken, doubled>>

(* The worker process is killed in the middle of a job and started again,  *)
(* or a database error leaves run_once: nothing puts the row back.         *)
Crash(w) ==
    /\ crashes < MaxCrashes
    /\ wpc[w] \in ExecutingPcs
    /\ crashes' = crashes + 1
    /\ lost' = lost \cup {wjob[w]}
    /\ Release(w)
    /\ UNCHANGED <<table, client, produced, stopping, asked, races>>

-----------------------------------------------------------------------------
(* The API. *)

(* enqueue, first session step: no in-flight row has this dedup key.       *)
EnqueueCheck(c) ==
    /\ "submit" \in ClientOps /\ Room
    /\ cpc[c] = "ready"
    /\ \E o \in Owners, k \in Kinds, g \in Goals :
         LET r == [owner |-> o, kind |-> k, origin |-> "user", of |-> g] IN
         /\ ~HasActiveTwin(r)
         /\ creq' = [creq EXCEPT ![c] = r]
    /\ cpc' = [cpc EXCEPT ![c] = "insert"]
    /\ UNCHANGED <<table, worker, cjob, cseen, crashes, history, races>>

(* retry reads a failed job, replay reads any job ... *)
RerunRead(c) ==
    /\ Room
    /\ cpc[c] = "ready"
    /\ \E j \in Jobs, origin \in {"retry", "replay"} \cap ClientOps :
         /\ status[j] # Absent
         /\ origin = "retry" => status[j] \in Retryable
         /\ creq' = [creq EXCEPT ![c] = [owner |-> rows[j].owner, kind |-> rows[j].kind,
                                         origin |-> origin, of |-> j]]
    /\ cpc' = [cpc EXCEPT ![c] = "clone"]
    /\ UNCHANGED <<table, worker, cjob, cseen, crashes, history, races>>

(* ... and _enqueue_clone looks for a re-run that is still in flight.      *)
CloneCheck(c) ==
    /\ cpc[c] = "clone"
    /\ IF HasActiveTwin(creq[c])
       THEN /\ cpc' = [cpc EXCEPT ![c] = "ready"]
            /\ creq' = [creq EXCEPT ![c] = NoRow]
       ELSE /\ cpc' = [cpc EXCEPT ![c] = "insert"]
            /\ UNCHANGED creq
    /\ UNCHANGED <<table, worker, cjob, cseen, crashes, history, races>>

(* The INSERT of enqueue and of _enqueue_clone. *)
Insert(c) ==
    /\ cpc[c] = "insert"
    /\ created < MaxJobs               \* the bound: Room has kept a place
    /\ created' = created + 1
    /\ status' = [status EXCEPT ![created + 1] = QUEUED]
    /\ rows' = [rows EXCEPT ![created + 1] = creq[c]]
    /\ cpc' = [cpc EXCEPT ![c] = "ready"]
    /\ creq' = [creq EXCEPT ![c] = NoRow]
    /\ doubled' = IF c \in overtaken THEN doubled \cup {created + 1} ELSE doubled
    /\ overtaken' = (overtaken \cup {d \in Clients : cpc[d] = "insert" /\ creq[d] = creq[c]}) \ {c}
    /\ UNCHANGED <<attempts, worker, cjob, cseen, crashes, history, revived>>

(* request_cancel reads the row; a terminal row or one already asked to    *)
(* stop is answered without a write.                                       *)
CancelRead(c) ==
    /\ "cancel" \in ClientOps
    /\ cpc[c] = "ready"
    /\ \E j \in Jobs :
         /\ status[j] \in {QUEUED} \cup Interruptible
         /\ cjob' = [cjob EXCEPT ![c] = j]
         /\ cseen' = [cseen EXCEPT ![c] = status[j]]
    /\ cpc' = [cpc EXCEPT ![c] = "cancel"]
    /\ UNCHANGED <<table, worker, creq, crashes, history, races>>

(* An executor of j that has not read checkpoint 2 can still stop. *)
CanStillStop(j) ==
    \E w \in Workers :
        /\ Executes(w, j)
        /\ \/ wpc[w] \in {"claimed", "handler", "generating", "finished"}
           \/ wpc[w] \in {"read", "write"} /\ wtarget[w] = VALIDATING

(* Mutant of CancelWrite: the progress text lands in the status column.    *)
CancelWritesProgress(c) ==
    /\ cpc[c] = "cancel"
    /\ status' = [status EXCEPT ![cjob[c]] = "Cancel requested"]
    /\ asked' = asked \cup {cjob[c]}
    /\ cpc' = [cpc EXCEPT ![c] = "ready"]
    /\ cjob' = [cjob EXCEPT ![c] = NoJob]
    /\ cseen' = [cseen EXCEPT ![c] = Absent]
    /\ UNCHANGED <<attempts, rows, created, worker, creq, crashes, produced, lost, stopping, races>>

(* The write decided by the status that was read, and the answer. *)
CancelWrite(c) ==
    /\ cpc[c] = "cancel"
    /\ LET s == IF cseen[c] = QUEUED THEN CANCELED ELSE CANCEL_REQUESTED IN
         /\ status' = [status EXCEPT ![cjob[c]] = s]
         /\ Revives(cjob[c], s)
    /\ asked' = asked \cup {cjob[c]}
    /\ stopping' = IF CanStillStop(cjob[c]) THEN stopping \cup {cjob[c]} ELSE stopping
    /\ cpc' = [cpc EXCEPT ![c] = "ready"]
    /\ cjob' = [cjob EXCEPT ![c] = NoJob]
    /\ cseen' = [cseen EXCEPT ![c] = Absent]
    /\ UNCHANGED <<attempts, rows, created, worker, creq, crashes, produced, lost, overtaken, doubled>>

-----------------------------------------------------------------------------

Init ==
    /\ status = [j \in Jobs |-> Absent]
    /\ attempts = [j \in Jobs |-> 0]
    /\ rows = [j \in Jobs |-> NoRow]
    /\ created = 0
    /\ wpc = [w \in Workers |-> "idle"]
    /\ wjob = [w \in Workers |-> NoJob]
    /\ wtarget = [w \in Workers |-> NoTarget]
    /\ wblocked = [w \in Workers |-> NothingBlocked]
    /\ cpc = [c \in Clients |-> "ready"]
    /\ cjob = [c \in Clients |-> NoJob]
    /\ cseen = [c \in Clients |-> Absent]
    /\ creq = [c \in Clients |-> NoRow]
    /\ crashes = 0
    /\ produced = [j \in Jobs |-> 0]
    /\ lost = {} /\ stopping = {} /\ asked = {}
    /\ overtaken = {} /\ doubled = {} /\ revived = {}

WorkerStep(w) ==
    \/ CountInFlight(w) \/ SelectNext(w) \/ ClaimUpdate(w)
    \/ Checkpoint1(w) \/ HandlerCheckpoint(w)
    \/ GenerateSucceeds(w) \/ HandlerRaises(w)
    \/ RequeueOrFail(w) \/ CancelOrFail(w) \/ Checkpoint2(w)
    \/ TransitionRead(w) \/ TransitionWrite(w)

ClientFinishes(c) == CloneCheck(c) \/ Insert(c) \/ CancelWrite(c)

ClientStep(c) == EnqueueCheck(c) \/ RerunRead(c) \/ CancelRead(c) \/ ClientFinishes(c)

Next ==
    \/ \E w \in Workers : WorkerStep(w) \/ Crash(w)
    \/ \E c \in Clients : ClientStep(c)

Spec == Init /\ [][Next]_vars

(* Worker processes loop forever and a request thread that has begun       *)
(* finishes; nobody has to submit, cancel or retry anything.               *)
Fairness ==
    /\ \A w \in Workers : WF_vars(WorkerStep(w))
    /\ \A c \in Clients : WF_vars(ClientFinishes(c))

FairSpec == Spec /\ Fairness

-----------------------------------------------------------------------------
(* Safety *)

TableTypeOK ==
    /\ status \in [Jobs -> Statuses]
    /\ attempts \in [Jobs -> Nat]
    /\ rows \in [Jobs -> Requests \cup {NoRow}]
    /\ created \in 0 .. MaxJobs

WorkerTypeOK ==
    /\ wpc \in [Workers -> WorkerPcs]
    /\ wjob \in [Workers -> Jobs \cup {NoJob}]
    /\ wtarget \in [Workers -> Statuses \cup {NoTarget}]
    /\ wblocked \in [Workers -> [classes : SUBSET Classes, owners : SUBSET Owners]]

ClientTypeOK ==
    /\ cpc \in [Clients -> {"ready", "clone", "insert", "cancel"}]
    /\ cjob \in [Clients -> Jobs \cup {NoJob}]
    /\ cseen \in [Clients -> Statuses]
    /\ creq \in [Clients -> Requests \cup {NoRow}]

HistoryTypeOK ==
    /\ crashes \in 0 .. MaxCrashes
    /\ produced \in [Jobs -> Nat]
    /\ lost \subseteq Jobs /\ stopping \subseteq Jobs /\ asked \subseteq Jobs

(* Every column and every local variable of a worker or a request thread   *)
(* of execution_queue.py holds a value of its type.                        *)
TypeOK == TableTypeOK /\ WorkerTypeOK /\ ClientTypeOK /\ HistoryTypeOK

(* Two workers never run one job at the same time, whatever cancels,       *)
(* retries and crashes come between: the claim's guarded UPDATE has one    *)
(* winner and a re-queued row has no executor left.                        *)
SingleExecution ==
    \A v, w \in Workers, j \in Jobs : Executes(v, j) /\ Executes(w, j) => v = w

(* A job is claimed at most max(1, job_max_attempts) times, and a row that *)
(* can still be claimed has an attempt left: run_once tests the attempts   *)
(* of its own view, and the row is back in the queue some steps later.     *)
AttemptsBounded ==
    \A j \in Jobs : /\ attempts[j] <= AttemptLimit
                    /\ status[j] = QUEUED => attempts[j] < AttemptLimit

(* A job's artifact is generated successfully at most once over all its    *)
(* attempts, also when its worker dies or its row is written behind the    *)
(* worker's back.                                                          *)
ProducedOnce == \A j \in Jobs : produced[j] <= 1

(* What the row says at the end is what happened: "completed" means a      *)
(* generation succeeded, "failed" that none did and that the attempts are  *)
(* used up or no handler exists, and a row asks to stop or says it was     *)
(* stopped only if somebody asked.                                         *)
HonestOutcome ==
    \A j \in Jobs :
        /\ status[j] = COMPLETED => produced[j] = 1
        /\ status[j] = FAILED =>
             /\ produced[j] = 0
             /\ attempts[j] = AttemptLimit \/ rows[j].kind \notin HandledKinds
        /\ status[j] \in {CANCEL_REQUESTED, CANCELED} => j \in asked

(* A row that counts as in flight, and so takes a slot of its class and    *)
(* its owner, is being executed, unless its worker was killed.             *)
InFlightIsExecuted ==
    \A j \in InFlight : j \in lost \/ \E w \in Workers : Executes(w, j)

(* Two in-flight rows share an owner and a dedup key only after a race:    *)
(* the later one was inserted by a request that had looked before another  *)
(* request inserted the same, or one of the two had ended and a write by   *)
(* id put it back in flight, which takes a cancel.  A re-run or an         *)
(* approval that nobody overtakes is never queued twice, whatever workers, *)
(* retries and kills do between its look-up and its INSERT.                *)
OneActivePerKey ==
    /\ \A i, j \in Jobs :
         /\ status[i] \in Active /\ status[j] \in Active
         /\ rows[i] = rows[j] /\ i < j
         => j \in doubled \/ i \in revived \/ j \in revived
    /\ revived \subseteq asked

(* A job whose cancel was acknowledged while its worker still had          *)
(* checkpoint 2 ahead of it never ends as completed.                       *)
AcknowledgedCancelHonoured == \A j \in stopping : status[j] # COMPLETED

-----------------------------------------------------------------------------
(* The inductive invariant behind the safety properties. *)

(* Ids are used in order; a row that is not inserted is untouched.         *)
RowsInOrder ==
    \A j \in Jobs :
        /\ j > created => /\ status[j] = Absent /\ attempts[j] = 0
                          /\ produced[j] = 0 /\ j \notin asked
        /\ j <= created => status[j] # Absent /\ rows[j] \in Requests

(* A worker past its SELECT has a job, and an executed job is off the      *)
(* queue: its row says running, validating, or what a cancel wrote.        *)
ExecutedIsTaken ==
    \A w \in Workers :
        /\ wpc[w] \in {"idle", "select"} <=> wjob[w] = NoJob
        /\ wpc[w] \in ExecutingPcs =>
              status[wjob[w]] \in {RUNNING, VALIDATING, CANCEL_REQUESTED, CANCELED}

(* What a worker knows about the job j it executes at pc, with the status  *)
(* t to write: why it may give up, why it may write t, and that it is past *)
(* the generation once there is a result.                                  *)
Justified(pc, t, j) ==
    /\ pc = "failing" => attempts[j] = AttemptLimit \/ IsCancelled(j)
    /\ pc = "finished" => produced[j] = 1
    /\ pc \in {"read", "write"} =>
         \/ t = VALIDATING
         \/ t = QUEUED /\ attempts[j] < AttemptLimit
         \/ t = COMPLETED /\ produced[j] = 1
         \/ t = CANCELED /\ j \in asked
         \/ t = FAILED /\ (attempts[j] = AttemptLimit \/ rows[j].kind \notin HandledKinds)
    /\ produced[j] # 0 =>
         pc = "finished" \/ (pc \in {"read", "write"} /\ t \in {COMPLETED, CANCELED})

WorkersJustified ==
    \A w \in Workers : wpc[w] \in ExecutingPcs => Justified(wpc[w], wtarget[w], wjob[w])

(* A job with a result is off the queue, and it has one result.            *)
ResultEndsWork == \A j \in Jobs : produced[j] # 0 => produced[j] = 1 /\ status[j] # QUEUED

(* A request thread about to cancel has read an existing row.              *)
CancelHasRow ==
    \A c \in Clients :
        /\ cpc[c] = "cancel" => cjob[c] \in 1 .. created
        /\ cpc[c] \in {"clone", "insert"} => creq[c] \in Requests

(* What holds of the workers, the request threads and the rows together in *)
(* every state of execution_queue.py; it implies the properties above.     *)
IInv ==
    /\ TypeOK /\ RowsInOrder /\ CancelHasRow
    /\ SingleExecution /\ ExecutedIsTaken /\ WorkersJustified
    /\ AttemptsBounded /\ ResultEndsWork /\ HonestOutcome

-----------------------------------------------------------------------------
(* Liveness *)

(* Every job that was inserted ends: in the end a worker claims it,        *)
(* whatever the caps of its class and owner hold back meanwhile, and its   *)
(* retries run out.                                                        *)
EveryJobEnds == \A j \in Jobs : status[j] # Absent ~> status[j] \in Terminal

-----------------------------------------------------------------------------
(* The queue implements exclusive, bounded leases on the jobs.             *)

holder == [j \in Jobs |-> IF \E w \in Workers : Executes(w, j)
                          THEN CHOOSE w \in Workers : Executes(w, j)
                          ELSE NoWorker]

Lease == INSTANCE JobLease WITH Limit <- AttemptLimit, runs <- attempts

(* Every step of the queue is a step of JobLease or changes no lease.      *)
ImplementsJobLease == Lease!Spec
=============================================================================
