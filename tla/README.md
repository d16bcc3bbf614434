# A TLA+ verification of the AIRA-X backend

AIRA-X (`backend/`, Python, FastAPI over SQLAlchemy) is a chat assistant with a
durable job queue, and an operator product that watches the queue, delivers
alerts to webhooks and exports incidents to external trackers. The state lives
in one SQL database; API request threads, worker processes and operator sweeps
work on it at the same time. This directory holds TLA+ models of the parts
whose correctness depends on the order in which those actors run, the TLC
configurations that check them, and proofs that TLAPS checks.

## How the code is turned into steps

* `SessionLocal` has `autoflush=False` (`app/db/database.py:10`), and on SQLite a
  `SELECT` opens no transaction (on Postgres, read committed gives the same): what
  a service method reads can be changed by another process before it commits. So
  a method is one step per read and one step per commit, and other actors run
  between them. Two reads that follow each other with no effect in between are
  one step where the text of the module says so.
* An ORM write is an `UPDATE` by primary key of the attributes whose value
  differs from the value read. It is unguarded: whatever another actor wrote is
  overwritten. Only an explicit `update(...).where(status == ...)` tests and sets
  in one step.
* A commit is atomic. If one of its statements fails (a duplicate key, an
  `UPDATE` of a deleted row) none of it happens.
* Row ids stand for `created_at` where the code orders by it.
* Remote calls (language models, HTTP) succeed or fail by a nondeterministic choice.

## Inventory

| Part | State | Operations | Interacts with | Hard behaviour | What makes it correct |
|---|---|---|---|---|---|
| **Execution queue** `app/execution_queue.py`, `job_policy.py`, `job_handlers.py`, `worker.py` | table `execution_jobs` (status, attempts, class, owner, dedup key, lineage) | enqueue, claim, transition, run_once, request_cancel, retry, replay | supervisor and routes enqueue, workers claim, ops policy reads | workers racing for a row, cancels against transitions, killed workers, caps counted before the claim | one executor per job, bounded attempts, honest outcomes, no job forgotten |
| **Webhook delivery** `app/webhooks.py` | `webhook_destinations`, `webhook_deliveries`, `alert_occurrences` | route, deliver_pending, redrive, clear_cooldown, destination changes, health and dead-letter views | worker's idle loop and operator sweep both flush; alerts from ops policy; silence from incidents | two flushers on one row, POST before the write, dedup before the insert, failed commits | a delivery settles once, within its budget, honestly; one open per destination and signal |
| **Guided flows** `app/guided_flow_store.py`; quotas `app/usage_limits.py`; replies in `app/assistant_supervisor.py`, `clarification.py` | `guided_flows`, `usage_records`, the last artifact | set, peek, consume, expiry; a message dispatched to a decision, an answer, a request or a revision | supervisor, queue, plan executor | reply peeked and consumed in two steps, quota checked before and recorded after, a turn that dies in between | an approval runs once and only what was approved; overshoot bounded |
| **Plan executor** `app/plan_executor.py`, `startup_validator.py` | files of the plan, report, evidence, a child process | write, read back, repair, validate, derive and run the runtime actions, probe | guided flows approve it, tools write and run | failing steps, repair bounds, startup timeouts, children that do not die | completed means verified; the verdict is what happened; no process left |
| **Operator incidents** `app/incidents.py`; alerts `app/ops_policy.py` | `operator_incidents` | observe, recover_stale, acknowledge, silence, unsilence, resolve, notes | sweeps of the queue's rows; incident sync on each change | concurrent sweeps and operators, silence expiry, recurrence | the incident follows the condition; silence is no black hole |
| **Incident sync** `app/incident_sync.py` | sync records, one link per incident and target | export, attempt, flush_pending, redrive | incidents, external trackers | answers lost after they were taken, two flushes of one record, a kill between commit and POST | synced was taken, given up only after the budget, nothing undecided |
| **Incident targets** `app/incident_sync.py` | targets with evidence of checks, policies and presets | create, edit, rotate, delete, validate, test, revalidate_stale | endpoint, sweep | checks overtaken by changes of what they checked | ready rests on evidence of the present secret; policy never exceeds the adapter; trust comes back |
| **External links** `app/incident_sync.py` | link row, what was observed | refresh, reconcile, detach, relink, apply, push, typed actions | vendor, incidents | observations that arrive after the link changed | only what the vendor said; detached stays detached; the verdict ends on the truth |
| **Documents** `app/rag`, `app/services/document_qa_service.py`, `app/api/routes.py` | files, rows, vectors.json, the collection | upload, chunking, deletion, retrieval | legacy chat, document questions | four stores without a transaction, a file rewritten whole, numbers given out again | what is listed is found, nobody's text under another's name |
| **Agent workflow and approval gate** `graph/*`, `agents/*`, `app/routes/aira_x.py`, `app/routes/assistant.py`, `memory/workflow_store.py` | live workflow objects, one JSON file, a lock per workflow, the git index | run, the legacy engine, approve, reject, reads with stale recovery, delete, bulk delete | planner, decision, execution, validation agents; git | requests between the nodes of a resume, a kill in the middle of one, the retry loop | nothing gated runs without its approval; a resume is not disturbed; the loop ends |
| Observability, inspection, metrics | event log | counters | reads the other tables | – | pure reads |
| Conversation and memory, accounts and workspaces, artifacts, language models, wiring, frontend | rows and text | CRUD, pure functions, remote calls | – | – | outside the models, see the last section |

## Plan

The order was: the queue with its abstract specification and proofs; webhooks;
the agent workflow with the approval gate; guided flows with theirs; the incident
product (incidents composed with ops policy and sync, targets, links); the plan
executor; documents. All of it is done. Left, in order of worth:

1. the rules of a destination or target that change while deliveries or records are
   open (`update_destination`'s policy fields);
2. accounts and workspaces: two owners who leave a workspace together each see
   the other (`app/workspaces.py`), the one race of that part;
3. the second vector store's own rule for what it returns: scores, reranking and the strength of evidence.

## Modules

### `ExecutionQueue`

Variables `status`, `attempts`, `rows` are the columns of `execution_jobs`;
`rows[j]` is the part written once at the insert (owner, kind, lineage), in which
equal values mean equal dedup keys. `wpc`, `wjob`, `wtarget`, `wblocked` are the
program counter and locals of a worker in `run_once`; `cpc`, `cjob`, `cseen`, `creq` those of a
request thread. The rest is history for the properties: generations that
succeeded, jobs whose worker was killed, jobs whose cancel was asked or acknowledged, and, for the dedup
key, the requests that another insert overtook between look-up and insert (`overtaken`), the rows such requests
inserted (`doubled`), and the ended rows that a write by id put back in flight (`revived`).

| Action | Code |
|---|---|
| `CountInFlight`, `SelectNext`, `ClaimUpdate` | `claim`: the count of jobs in flight, the `SELECT` of the next, the guarded `UPDATE` and its rowcount |
| `Checkpoint1`, `Checkpoint2`, `RequeueOrFail`, `CancelOrFail` | the branches of `run_once`, each with its own read of the row |
| `HandlerCheckpoint`, `GenerateSucceeds`, `HandlerRaises` | the artifact handler; it may raise before the generation as in it, and `run_once` catches both |
| `TransitionRead`, `TransitionWrite` | the two halves of `transition` |
| `EnqueueCheck`, `RerunRead`, `CloneCheck`, `Insert` | enqueue, retry, replay and `_enqueue_clone` |
| `CancelRead`, `CancelWrite` | `request_cancel` |
| `Crash` | a worker killed, or a database error that leaves `run_once` |

`JobLease` is what the queue promises its users: a job has at most one holder at a
time and is taken at most `Limit` times. The queue implements it with the holder
of a job being the worker that executes it and the runs being `attempts`.

### `WebhookDelivery`

`status`, `attempts`, `rows` are `webhook_deliveries`; `failures` and `cooldown` the health
columns of a destination (`cooldown_until` is unset, ahead or past);
`occurrences` the escalation counters. `recent` holds the rows younger than their
suppression window, so the clock is reduced to the action `WindowPasses`; likewise
`CooldownEnds`, and a quiet period that resets a counter is a choice in `RouteBegin`.
Flushers, routers and operators are sets: the worker's idle flush and the operator sweep run `deliver_pending` at
once, and sweeps and redrives of several requests overlap. What such a race did is kept as history of the row or
destination it was about, so that a property can exempt these and no others: `again` counts the batches that took a
row another flusher held, `losses` the answers that were never written, `crossed` holds destinations two
flushers wrote from one read, `blind` the rows a sweep opened without having seen another sweep's commit.

| Action | Code |
|---|---|
| `FlushSelect`, `FlushSend`, `FlushRead`, `FlushWrite` | `deliver_pending`: the snapshot, the POST outside any session, the second session's reads, and its commit with `_on_delivery_success` and `_on_delivery_failure` |
| `RouteBegin`, `RouteDecide`, `RouteCommit` | `route_alerts_detailed`: occurrences and destinations, one decision per destination and alert (the silenced ones are dropped), the commit |
| `EventBegin` | `route_observability`: deliveries of an event, without dedup |
| `RedriveCheck`, `RedriveInsert` | `redrive`: the checks and the insert |
| `clear_cooldown`, `create_destination`, `update_destination`, `delete_destination` | the operator's requests; of an update only the switch |
| `_dead_letter_state`, `_health_of` | what the console shows, compared with what `redrive` does and with the streak |
| `Crash` | a process killed between two steps of its batch |

`Written` is the ORM's rule that an attribute set to the value it was read with is
not in the `UPDATE`. It matters: a flusher that read `pending` and writes `pending`
does not undo another's `delivered`, one that read `delivered` does.

### `AgentWorkflow` and `ApprovalGate`

`AssistantRouting` is the legacy engine's choice of a handler from the phrase groups of
a message: only `execution_workflow` runs tools. `AgentWorkflow` has the planner, as the first
intent that matches, and the agents as functions on one workflow state, since LangGraph
hands a node a copy and takes a copy back: `DecisionAgent` with its early returns in
the code's order, and what each node does to the state. A plan is a sequence of
kinds of steps (`stage`, `commit`, a package install, a plain command, a
blocked one, a clarification); the kind stands for the text of the action, from which
the code decides about safety, approval and retries. The goal's own words are part of that text (`Worded`): a
path may need an approval, a commit message may make its step a blocked one.

`ApprovalGate` has the routes. One asyncio process serves them, and a handler keeps
the event loop until its next suspension; the agents and the tools never suspend, the graph
does once per node. So `/run` and `/approve` are one action per node, and every other
route is one action. `store` holds the live objects of `WorkflowStore.runs`, `disk` the file.

| Action | Code |
|---|---|
| `RunGoal`, `RunSaves`, `RunRaises` | `ExecutionService.run`, and `handle_single_assistant_task` of the legacy engine, which holds the event loop throughout (`Alone`); the first save comes after the graph |
| `GraphStep`, `ExecuteStopped`, `ExecuteTool`, `GraphEnds` | the decision node and the node it routes to |
| `ApproveBegin`, `ApproveEnd`, `ResumeRaises` | approve up to `await workflow.resume`, after it, and its exception handler |
| `Reject` | the whole of reject with its cleanup of the git index; the git tool returns its failures, so nothing raises between the two saves |
| `ReadRuns` | the recovery of stale approvals that every read starts with |
| `DeleteRun`, `DeleteSafe` | the two deletions |
| `TimePasses` | ten minutes since the approval began |
| `Crash`, `CrashInReject` | the process killed and started from the file; the second between the two saves of a rejection |

`approve` saves `approval_in_progress` and then puts the approval into the live
object, so the file lags the object until the next save, and any handler's save
writes every object. The module keeps both.

### `GuidedFlow` and `OneShot`

One principal's messages, answered by several server processes. `flows` is the table
(a row past its `expires_at` is `stale`), `used` the usage records of the window, `turn`
the message being answered in each process, with what it peeked at (`seen`) and what it
claimed (`held`). A message is the set of marks that `clarification.py` looks for.

| Action | Code |
|---|---|
| `Start`, `Peek` | `_dispatch`: parse the decision or the answer, ask the stores in order |
| `Check`, `Select`, `Claim`, `Record` | role and quota, the two statements of `consume`, `QuotaService.record` |
| `GenerateArtifact`, `_maybe_enqueue_artifact`, `execute_runtime_validation`, `_execute_approved_plan`, `Offer`, `Resume` | what the reply handlers do with the flow, and the flows they set |
| `Cap`, `PresentClarification`, `PresentPlan` | a new request: pending cap, then a clarification or a proposal |
| `Die`, `Expire` | the process or the turn fails after the claim; the time to live |

A transaction is atomic, as on SQLite, which the store names as its backend (`guided_flow_store.py:17-19`). Re-pointed
at Postgres, under read committed, two `set` calls of one key could each delete before the other's insert and leave two
pending rows: "one flow is pending of a kind" is a statement about SQLite.

`ActedOn` keeps a detail of the code: a plan that runs is the row that was claimed, while an artifact,
an action and a clarification go on with the payload peeked at. `OneShot` is
what a plan is to its user: offered, taken by at most one turn, performed once by the taker, or given up.

### `IncidentSync` and `OpsPolicy`

`OpsPolicy` has the classification of a job as functions of its row and of the retries
made of it. `IncidentSync` composes it with one incident, its sync records, and the vendor's incident:
the queue changes the job, the sweep opens and recovers the incident from the
alerts, operators act, each committed transition is mirrored.

| Action | Code |
|---|---|
| `StartSweep`, `Observe`, `Recover`, `Flush`, `List` | the operator sweep; a listing does all but the flush |
| `Call`, `Apply` | `_apply`: the read and the commit of an operator's action |
| `Export`, `Send`, `SkipSynced`, `Settle` | `_emit_sync`, `export`, `_attempt`: insert, read and POST, commit with the link and the target's health |
| `GiveUp` | `_attempt` without a target: the record fails, no POST is made |
| `RedriveLatest`, `RedriveCheck`, `Redrive` | the two ways to redrive |
| `delete_target` | the operator's deletion, also between a POST and its commit, which then fails when it has to write the target |
| `JobChanges`, `SilenceRunsOut`, `Crash` | the world |

### `TargetPolicy` and `IncidentTargets`

`TargetPolicy` is a layer of functions: capability of the adapter, override of the
target, default of its preset. `IncidentTargets` has one target: readiness is
computed (`Readiness`) from the evidence that `Store` commits, while `Edit` and `EditStore`
change what was checked and wipe the evidence. Time stamps are kept up to
their order, so that the state is finite without a clock. `trust` is a ghost: the
secret the last success was obtained with, and whether a check and a change overtook each other.

| Action | Code |
|---|---|
| `Call`, `Sweep` | the operator's checks; `revalidate_stale` |
| `Validate`, `Probe` | `validate`: time stamp and read, the probe of an adapter that can read back |
| `Test`, `Post`, `Reload` | `test_send`: guard, synthetic event, second session |
| `Store` | the commit of either |
| `Edit`, `EditStore`, `NotFound` | `update_target`, `rotate_secret`, `delete_target` |
| `recommended_action`, `rollup` | the console's guidance and its rollup |

### `ExternalLinks`

One incident, one target, one link row and the vendor's incidents by reference. The row's times are kept
as whether the last check (`checked`) and the last sync (`stale`) are older than a day. `held` and
`found` are ghosts: references the link has had, and what the vendor was found to be.

| Action | Code |
|---|---|
| `Transition`, `Push`, `ExternalAction`, `Mirror` | what is sent, and the POST with its answer |
| `Upsert`, `Renew` | `_upsert_link`: the look-up (with the insert of a first row), the commit of the row it found |
| `Refresh`, `Reconcile`, `Fetch`, `Store` | the observation: read of the link, request, commit; an answer may be empty, an error, or refused with "no such incident" in its body |
| `Detach`, `DetachStore` | `detach`: read, commit |
| `Relink`, `RelinkFind`, `RelinkStore` | `relink`: the reference is asked for, the row looked up, the commit |
| `ApplyOffer`, `AcceptMissing`, `AcceptResolved` | `apply_from_external` |
| `Turn`, `Age`, `GoStale` | the vendor's incidents; a day since the last check, since the last sync |
| `LinkStatus`, `suggestions`, `drifted` | the verdict, the console's advice, the drift backlog (stale links included) |

### `PlanExecutor`

A sequential machine whose inputs (what a model writes, what a command answers, when the
child comes up or dies) are choices. `Write`, `CheckPasses`, `CheckFails`, `Retry`, `Validate` are
`execute_plan`; `OfferActions`, `Approve` the hand-over to a second approval;
`CommandPasses`, `CommandFails`, `Repair`, `Stop` the loop of `execute_runtime_validation`; `Launch`,
`PollCrashed`, `PollAnswered`, `Deadline`, `Drain`, `ProbeSucceeds`, `ReprobeRepaired`, `ProbeFails` the startup
probe with its teardown; `ChildSteps` belongs to the child, which may leave a process behind that keeps its output
open (`left`). A file is absent, empty, bad or good, since the read-back refuses an empty `.py` or `requirements.txt`
and the commands do not.

### `Chunker` and `DocumentStore`

`Chunker` is `chunk_pages` on words: sections, gathering, slicing with overlap,
merging of a short end. `DocumentStore` uses its chunks, so that "found" means found
word for word. `Upload` to `Commit` are one upload (`Load`, `Empty`, `Write` are the
read of `vectors.json`, its truncation and the write), `Delete` to `Unlink` a deletion;
`UploadFails`, `DeleteFails`, `Abandoned`, `Kill` are the failures: each step may raise, the write of
`vectors.json` also after it has truncated the file, and so may the unlink that cleans up; `broken` counts
the requests that were killed or could not remove their file. A request with several files is that many uploads one
after the other by one process, each with its own commit. Both databases are
instances: SQLite holds its write lock from the flush and gives the largest number
plus one, Postgres has a sequence and no lock.

## Runs

A passing run is complete: TLC visits every state of the instance, and each of its
properties is broken by a mutant of a definition the model translates (`PROJECT.json`
lists them). The one violation run is a counterexample to a sentence of
the code's own documentation.

| Run | Instance | Shows |
|---|---|---|
| `queue_safety` | 2 workers, 1 client, 2 jobs, 2 attempts, 1 kill, submit, cancel and retry | the inductive invariant (one executor, bounded attempts, one result, honest outcomes), no row in flight without its executor unless that was killed, two active rows of a dedup key only where a cancel's race revived one, the refinement of `JobLease` |
| `queue_live` | 2 workers, 2 clients, 2 jobs, a handled and an unhandled kind, caps of 1, submit, retry and replay, fairness | a second active row of a dedup key only from a request that another insert overtook; every job ends, so that none waits for ever behind the caps |
| `queue_lost_cancel` | 1 worker, cancel | violation: an acknowledged cancel is overwritten by `validating` |
| `webhook_sweeps` | 1 flusher, 2 routers, 2 operators, 4 rows, 3 sweeps, escalation after 2, redrive, clear_cooldown and the switch | two sweeps and two redrives race: what one of a signal opens beside an open one it opened without seeing the other's commit; redrives exceed their bound by less than the operators; failures, posts, cooldowns, escalations, health and dead letters have their causes |
| `webhook_concurrent` | 2 flushers with batches of 1, 2 rows, 1 kill, creation and deletion of the destination, fairness | a verdict changes only by a flusher that held the row with another when it fell; verdicts of all other rows justified; the budget of attempts, no false `delivered`, every pending row settles |
| `guided_flow` | 2 processes; a vague and a retrieval request, a request and an artifact, two artifacts and a revision; quota and cap of 1; expiry, lost turns; fairness | a plan runs once and only approved, no more runs than claims of each kind, overshoot below the number of turns in flight, approved plans act, every plan row is a `OneShot` |
| `plan_executor` | four manifests (Python service, Node service, file only or container, a refused step), boot validation on, fairness | completed is verified on disk; order, one repair each, honest verdict, no child left; the run ends unless it waits for the output of a live child or of what it left behind |
| `incident_sync` | 2 processes, 2 attempts, 2 redrives; nine budgets of calls, a deletion of the target, kills, lost answers and job changes; fairness | synced was taken, nothing given up early while its target exists, redrives and links bounded, every record decided, the incident follows its condition |
| `targets` | 2 processes, five budgets: secrets overtaking checks, a failing endpoint under a switch, a deletion, every preset, kind and override; fairness | ready rests on the present secret unless check and change overlapped; the button offered leads out of its state; policy is layered; trust comes back |
| `links` | 2 processes, 2 references, five budgets: relinks, detachments and syncs that meet, what is applied, every call once, failing requests, vendor changes; fairness | only what the vendor answered; only a confirmed relink takes up a detached link; verdict, suggestions and backlog, stale links included, end on the truth |
| `documents` | 2 requests, 4 documents (a section that overflows, two pages, one paragraph, a bare heading), 3 numbers, SQLite and Postgres, failing steps, a kill, fairness | listed is found word for word, nobody's text under another's number, files accounted for, requests end |
| `approval_gate` | 2 handlers, 2 workflows of seven goals through either engine, 2 retries, 1 kill, fairness | nothing gated runs unapproved, rejected never runs, git writes once, a resume is not disturbed, verdicts stay, every request ends, no approval hangs in progress |

**Bounds.** `MaxJobs`, `MaxDeliveries`, `MaxSweeps`, `MaxCrashes`, `MaxFlows`, `MaxId` bound rows, sweeps
and kills. `Budgets` is a set of records; a behaviour starts with one of them and spends it, so
that one run covers several mixtures of calls, faults and changes without their
product. Every bound is a conjunct of the guards of the actions it bounds, and `JobChanges`, `Turn`,
faults and kills stop when theirs is spent, which the liveness properties need anyway.
Two processes suffice for every race looked for, since an action involves one actor and
one row and a property relates at most two of each; two attempts let a job or a record fail, be
tried again and fail for good. The theorems do without these bounds. The approval gate has
`MaxRetries` 2 where the code has 3: one retry already goes through every node, and the bound
enters only in a comparison. `ChunkSize` 4, `Overlap` 1 and `MinLen` 2 are the smallest at which a
paragraph overflows, is sliced, and a short end is merged. The webhook's races are split over two runs: one flusher beside racing sweeps and operators, which also has
redrives and escalations, and two flushers with a kill. Four rows are the least for two sweeps that each open one and a
redrive of either; two rows let both flushers hold both. What all of them do together is covered by the theorems.
History counters saturate at the bound they are compared with, or one above.
`CHECK_DEADLOCK FALSE` is set where the system may rest with nothing to do.

**Fairness.** `FairSpec` assumes weak fairness of each worker's next step, which
`run_forever` gives (it loops until the process is told to stop), and of the
steps that end a request already begun. It does not assume that anyone submits,
cancels, approves or redrives, nor that a remote call succeeds. Where it adds something:

* the operator sweep is a scheduled call (`docs/ARCHITECTURE.md:182` and `:190`), so `StartSweep`, `Sweep` and
  `Reconcile` are fair; `Flush` is strongly fair because a listing of the incidents, which ends without a
  flush, can come in between again and again, but does not replace the scheduler's call;
* time passes (`SilenceRunsOut`, `Age` in `ExternalLinks`, `TimePasses`);
* in `ApprovalGate` the event loop serves every handler in progress, and `GET /runs` is called again and
  again: the approvals page polls it (`frontend/app/approvals/page.tsx:854`). That is what
  clears an approval after a kill; the backend alone has no timer for it.

`RunEnds` of `PlanExecutor` assumes nothing of the child and of what it leaves behind, and exempts the one wait that
has no bound.

## What the models say against the texts

The lost cancel is a run of its own. The models also show the following, each a
behaviour a reader of the code's comments would not expect. They are told here and not as runs;
the properties above are stated so that they hold beside them.

Queue (`app/execution_queue.py`)
* `request_cancel` and `transition` write by id after an earlier read, so a job that has
  completed can become canceled, against "Terminal is terminal" (line 249).
* Two retries that check before either inserts are both queued, against "a double click
  can't double-run" (lines 316-317). A row canceled under its worker, which the worker's write revives, stands beside
  the row enqueued in its place. `OneActivePerKey` says that there is no third way.
* A killed worker's row keeps its slot: with its class at the cap the class is never
  served again, against "nothing starves forever" (`job_policy.py:18-20`).
* Workers that count before either claims exceed a cap by one each.

Webhooks (`app/webhooks.py`)
* Of two flushers (the worker's idle loop and an operator sweep) the slower turns a delivered row into pending or
  failed, against "`pending -> delivered | failed`" (lines 15-16). `SettledStaysSettled` says that only a flusher that
  held the row beside another when it was settled can, each once.
* Two sweeps that both read before either commits open two notifications of one signal, against "one open delivery
  per (destination, signal)" (line 21): the dedup look-up (line 388) and the insert are not one step, and the key has no
  constraint. `OneOpenPerSignal` names that case and has no other.
* Two operators who redrive one row pass the open-child check and the cap (line 550) together: two redrives are open, and
  their number passes `webhook_max_redrives` by up to the racing calls less one, against "never duplicated"
  (lines 534-535). `RedrivesBounded` has that bound.
* A destination deleted between an accepted POST and its write makes the commit fail; the row is later called
  failed although it was accepted. So may a kill.
* Four flushers can take one row's attempts beyond its budget: each writes one more than it read. Two cannot.
* A dead letter shown as resolved can be redriven again below the limit: `redrive` does not look for a
  delivered child. A failed redrive can be redriven itself, but is not in the dead-letter
  view, where its original stays exhausted.
* What is pending for a destination that is switched off is still delivered. Routing does not
  ask `escalation_eligible`, so a failing destination is escalated to (comment in `_health_of`).

Guided flows
* An artifact, an action or a clarification acts on the payload it peeked at: if that row was
  consumed and replaced in between, the late turn consumes the new row and acts on the old one
  again, against "a resume runs exactly once" (`guided_flow_store.py:12`). Plans take the claimed payload.
* Runtime actions are stored under the session id (`assistant_supervisor.py:1297`) and looked for under the owner key
  (line 1403): with an account or a workspace the offer is never found.
* "I want …" and "use …" are taken as the answer of a pending clarification even
  when they are requests of their own.
* When the supervisor fails after a tool has run, the legacy engine runs the message again.

Incidents, sync, targets, links (`app/incidents.py`, `app/incident_sync.py`)
* A target deleted under its records fails them without a POST (lines 1120-1124); with an attempt under way whose
  answer was taken and lost, or taken and then not written because the target is gone, the record is called failed
  although the vendor has the transition. Every redrive without a target is given up at once.
* An older pending record is sent after a newer transition was taken: the target ends on the older one, and
  "already up to date" is said of it (line 1787).
* A note on a recovered incident is exported as an action the table lacks, and goes out as a trigger.
* A kill between the commit of a transition and `_emit_sync` loses its mirroring for good.
* A failed redrive that an older flush still holds is sent again and may succeed beside a later redrive: failed
  becomes synced, against "pending -> synced | failed" (`db/models.py:434`).
* "One row per (incident_id, target_id)" (`db/models.py:468`) has no constraint; with three flushers even the
  attempts cap can be passed.
* A check that read the old secret may commit after the rotation and make the target ready on it.
* A late observation of the old reference is written onto a relinked row, and the next sync writes the signal's own
  reference over a relink; reconciliation repairs the verdict. Export keeps updating a link that was detached.
* A link whose vendor incident is open while the local one is recovered is drifted, but `external_state_suggestions` says nothing about it.
* `ops_policy.health` looks at the newest 200 jobs, so an older stuck job drops out and its incident recovers.

Plan executor and documents
* "every wait is bounded" (`startup_validator.py:13`): after the deadline `_drain` reads the output of a live child to
  its end, and the teardown is not reached. After a crash it waits in the same way for a process the child left behind.
* A repair of the runtime validation is not read back: an empty `requirements.txt` or module then passes its commands.
* A deleted document still answers document questions: nobody calls
  `DocumentQnAService.delete_document` (`document_qa_service.py:6-7`, `api/routes.py:634`).
* SQLite gives a number again, and texts left in the stores by a failed upload or a deletion then stand
  under the new document. A kill, or a write that raises, while `vectors.json` is rewritten breaks every later upload, deletion and search.
* The chunker drops a heading that no body follows, so a document of one title-like line has "no readable text".

Approval gate (`app/routes/aira_x.py`)
* "No action was executed during the stale lock" (line 195) is said after a kill also when the tool had run.
* Rejecting the commit of one workflow empties the index another staged into (line 1026).
* The preflight shown for a commit is that of the time it was blocked.

## Proofs

Eight modules hold theorems, each for every value of the constants that the named assumptions of its module
allow. No safety property below is inductive by itself; the invariant that is says why it holds. One theorem assumes
more than its module, `RacesStayBounded` (at most two flushers), and says so in its statement. The others hold for
any numbers: where the code has a race, the property names the rows it happened to by history variables and is proved of all
others.

* `ExecutionQueueProofs`: `InvariantHolds` (`Spec => []IInv`), from it `TypeCorrect`, `OneWorkerPerJob`,
  `RetriesAreBounded`, `OneResultPerJob`, `OutcomesAreHonest`; and `ImplementsLeases`: `Spec => Lease!Spec`.
  `SingleExecution` needs that an executed job is off the queue (`ExecutedIsTaken`), so that a second claim's
  guarded `UPDATE` fails; that needs that a worker only writes what it has grounds for
  (`WorkersJustified`): `queued` only with an attempt left, `completed` only with a
  result. The cancel's unguarded write never puts a row back in the
  queue, which is why the unguarded writes break "terminal is terminal" but not
  single execution. `SlotsAreWorked` (`InFlightIsExecuted`) follows the row from the claim to the write that ends it.
  `KeysStayUnique` (`OneActivePerKey`) holds for any number of requests, with cancels and kills. `KeyInv` says that
  what a request looked up still stands unless an insert overtook it (`LookedStands`), so a second active row of a key is
  from an overtaken request or was revived, and that only a write over a cancel revives a row.
* `WebhookDeliveryProofs`. A flusher writes a row by its id from what it read before its POST, so two of them undo
  each other's verdicts. `BaseInv` (`DeliveryInvariant`) carries the types, the order in which the table fills, and that
  everybody holds only rows that exist. `HandInv` and `LoneInv` say what is left of a single flusher's certainty: a
  flusher that is alone with a row holds it pending and as it stands. On them stand layers:

  | Theorem | Layer |
  |---|---|
  | `RowsStayTrue`: honest `delivered`, no early escalation, true dead letters | `HonestInv`: a good answer in a flusher's hand was given; `EscalationInv`: no counter is ahead of the sweeps |
  | `RacesStayBounded`: `RacesKeepVerdicts`, with at most two flushers | on `VerdictsJustified`, `RaceInv`: of a settled row only one of them still holds a copy, so a pending row has an attempt left |
  | `SettledRowsStay`: `SettledStaysSettled` | a settled row is taken by nobody, so its holders only become fewer |
  | `SignalsOpenInOrder`: `OneOpenPerSignal` | `OpenInv`: an open delivery is the last of its destination and signal, or one after it is blind; what a router is about to open was due when it decided, or others have met it |
  | `RedrivesStayBounded`: `RedrivesBounded` | `RedriveInv`: redrives and the inserts on their way stay below the limit plus the operators |
  | `VerdictsStayJustified`: `VerdictsJustified` | `HealthInv`: a streak of failures has left a dead letter; `AnswersInv`: each POST is counted by an attempt, a loss or an overlap |

  All hold with kills, with destinations deleted at any step and with any number of flushers but the second: four can
  take the attempts beyond the budget, two is the largest number for which they are proved within it.
* `GuidedFlowProofs`: `ApprovalsBound` (`ApprovalsBoundRuns`), `QuotaOvershootBounded` (`QuotaOvershoot`) and
  `PlansImplementOneShot`. `FInv` says that a granted row is consumed, that no two turns hold one row, and that what a
  turn holds has not run; so the `UPDATE` guarded by the status grants a row once, and every step
  on a plan row is a step of `OneShot` or a stutter. `CInv` adds the counts. A turn carries one grant from the claim to
  the run, so the runs started and the grants carried are no more than the grants (`ClaimsCounted`). Against the quota
  the same turn counts twice (`QuotaCounted`): from the check to the record it may exceed what is recorded,
  from the record to the run it is recorded work not yet started. The last turn to pass the check saw room, so at
  most the others overshoot: the number of turns less one.
* `ApprovalGateProofs`: `GateInvariant`, from it `CallsStayGoverned`, `ResumesOwnTheirRun`, `CompletedWasDone`, and
  `VerdictsStay`. What a workflow may still do is written in its state alone, while the tools were called elsewhere.
  `GateInv` says that whoever may go on with a workflow, its one handler or the record that waits for an approval,
  holds a true account of the calls made for it (`Account`, `Parked`); that a record in progress belongs to the
  request that locked it; and that the file differs from the live object only during a resume. The planner's plans
  are one step, or stage and commit, whose message may make it a blocked step (`PlanShapes`). `NoRunAssumption` keeps the absent record apart from the others.
* `IncidentSyncProofs`: `SyncsAreHonest` and `BudgetsAreKept`. A commit overwrites what others have counted,
  so the record alone proves nothing: `RecordsBacked` and `RequestsBacked` tie the counter of a
  record, and what a process in an attempt holds of it, to the POSTs really made. What they say of a record that was
  given up they say while the target exists: a deletion is final, and after it records fail as they stand.
  `BoundsInv` adds the counting:
  a redrive that was checked counts as if it were there, and once a link exists only the attempts that saw
  none can add one, so both bounds grow by the processes that race and no further.
  Its last section is about `ExternalLinks`, whose names differ from those of `IncidentSync` so that one module can
  extend both: `LinksObservedOnly` and `LinksDetachedStay`. The first is inductive because it follows an
  answer from the vendor through the request that holds it to the row; with reads and commits apart it also follows
  the copy of the row in a request's hand, whose reference and observation the link has had. The second rests on it: only a
  relink writes `detached` back, with an answer that confirmed its reference.
* `IncidentTargetsProofs`: `TargetInvariant`, `TrustStaysBacked` and `PolicyStaysLayered`. A commit writes only
  what differs from the row it read, so a rotation takes away only the evidence it has seen. `Backed` says
  that unless a check and a change overtook each other, a process about to store a secret has seen all there is;
  `Dense` and the lemmas on `Rank` say that renumbering the time stamps keeps their order.
* `PlanExecutorProofs`: `CompletedPlansAreVerified` and `ValidationsAreHonest`. A plan is completed only when the steps
  before the one in progress are all written (`StepsWritten`), and a child exists only during a probe (`ChildOfProbe`); the boot setting
  is either. For the validation, `RunInv` says what has passed before the action in progress (`Reached`), that each
  repair was one write (`WritesCounted`), and what the last entries of the run say of it (`InProgress`).
* `DocumentStoreProofs`: `ChunksCover` about `Chunker`; `DocumentsOwnText` (`OwnText`), `FilesFollowRows`
  (`StoresAccounted`) and `ListedFound` (`ListedIsFound`) about `DocumentStore`.

  `ChunksCover` says that chunking loses no word under a heading. The chunker's recursion is written as functions
  on numbers (`Cuts`, `After`). The prover cannot instantiate an induction scheme; that such a function is
  defined everywhere and what holds of each value is shown by the least number at which it would fail
  (`Least`, from the library's theorem that `<` is well founded on `Nat`). `StoreAssumption` requires that each
  body is a run of consecutive word numbers, which is what numbering the words in reading order means.

  No property of the store is inductive; `Inv` (`StoreHolds`) has a part for each:

  | Part | Says |
  |---|---|
  | `DocsHeld` | a document is to come, has a row, or is held by one request that knows it; so no step removes another's file |
  | `OneName` | a number given once names one document in the rows, both vector stores, the requests and in what they have read of `vectors.json` |
  | `OrphansBroken` | the files neither a row nor a request accounts for are at most as many as the requests that were killed or could not remove their file |
  | `IndexComplete` | a rewrite that nobody overlapped starts from all that is in the file, so it neither loses a listed document's chunks nor brings deleted ones back |

  `given` and `raced` are history: the theorems say exactly in which of the races named above they do not speak,
  a number SQLite gave twice and two rewrites of `vectors.json` at once.

Each proof has one step per action; temporal steps only combine. Every invariant and every action property of a
passing run is stated by a theorem. Only model-checked are the liveness properties, since
fairness and `ENABLED` are out of the prover's reach: `EveryJobEnds`, `PendingSettles`,
`ApprovedActs`, `RecordsDecided`, `ClearedRecovers`, `RaisedIsAudible`, `TrustReturns`, `VerdictSettles`,
`RequestsEnd`, `EveryRequestEnds`, `ProcessingClears` and `RunEnds`.

## Not modelled

`PROJECT.json` lists every component with the reason.

* Conversation, context and memory, artifacts, language models, wiring, demo seed and frontend: text, remote
  calls and pure functions; what the models need of them are choices.
* Accounts, auth and workspaces: single-row records; the race of the last owners is in the plan.
* The event log, activity records, metrics and wording in every part: nothing is decided by them.
* The sliding of the quota window, the policy fields of `update_destination`, the
  bounded fields beside a link's status, and the log of target checks.
* Starvation between many rows of one kind where the code takes the first few in table order
  (`revalidate_stale`, `reconcile`): the modules have one target and one link.
* A workflow file torn by a kill in the middle of its write, or whose write fails, and database outages other than as a crash or a failed step.
