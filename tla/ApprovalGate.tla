---------------------------- MODULE ApprovalGate ----------------------------
(***************************************************************************)
(* The workflow routes of backend/app/routes/aira_x.py, and the execution  *)
(* route of backend/app/routes/assistant.py, over                          *)
(* backend/memory/workflow_store.py: a goal is run by the agents until it  *)
(* ends or needs an approval, and an approval resumes it.                  *)
(*                                                                         *)
(* One asyncio process serves the requests.  A handler runs to its next    *)
(* real suspension without interruption, and only the graph suspends, once *)
(* per node; so reject, delete and the reads are one step each, and        *)
(* approve and run are a step per node.  The loop of graph/aira_workflow,  *)
(* which the assistant falls back on, runs the same agents and never       *)
(* suspends: no other handler runs until its request has ended.            *)
(* WorkflowStore.runs holds the live                                       *)
(* objects; every save and delete writes all of them to the file, those    *)
(* that a resume has changed in memory included.                           *)
(***************************************************************************)
EXTENDS AgentWorkflow, AssistantRouting, FiniteSets, Functions

CONSTANTS
    Requests,       \* concurrent POST /run and /approve handlers
    Runs,           \* run ids
    GoalsOf,        \* [Runs -> set of goals], what the user may ask of a run
    MaxCrashes,     \* bound: times the process is killed
    NoRun           \* no record under this run id

ASSUME GateAssumption ==
    /\ GoalsOf \in [Runs -> SUBSET [matches : SUBSET Range(Intents), does : Tools \cup {NoAction},
                                   says : SUBSET Phrases]]
    /\ MaxCrashes \in Nat

PlansOf == [r \in Runs |-> {PlannerAgent(g) : g \in GoalsOf[r]}]

(* The legacy engine makes a run of an execution request only; its other   *)
(* answers change no workflow.                                             *)
LegacyPlansOf ==
    [r \in Runs |-> {PlannerAgent(g) : g \in {h \in GoalsOf[r] : Route(h.says) = "execution_workflow"}}]

VARIABLES
    store,      \* [Runs -> state or NoRun], WorkflowStore.runs
    disk,       \* the same in storage/workflow_runs.json
    reqs,       \* [Requests -> handler], the handlers in progress
    aged,       \* runs whose approval_processing_started_at is ten minutes old
    staged,     \* runs whose stage_all put changes into the git index
    used,       \* run ids given out
    crashes,
    runs,       \* history: [Runs -> [Tools -> Nat]], tool calls
    grants,     \* history: [Runs -> [Tools -> Nat]], approvals accepted
    refused     \* history: <<run, action>> pairs the user rejected

vars == <<store, disk, reqs, aged, staged, used, crashes, runs, grants, refused>>
history == <<runs, grants, refused>>

Idle == [op |-> "idle"]
Handling(q, op, r) == reqs[q].op = op /\ reqs[q].run = r
InGraph(q) == reqs[q].op # "idle" /\ ~reqs[q].ended
AfterGraph(q, op) == reqs[q].op = op /\ reqs[q].ended

-----------------------------------------------------------------------------
(* The guards the routes share. *)

Waiting(st) == st.status = "requires_approval" /\ ~st.in_progress /\ st.pending # NoAction

(* The lock of a run is held exactly while an approval of it resumes.      *)
_approval_lock_is_active(r) == \E q \in Requests : reqs[q].op = "approve" /\ reqs[q].run = r

Stale(r) == store[r] # NoRun /\ store[r].in_progress /\ r \in aged

(* Mutant of Recoverable: the lock is not asked.                           *)
RecoverableLocked(r) == Stale(r)

Recoverable(r) == Stale(r) /\ ~_approval_lock_is_active(r)

Recovered(st) ==
    [st EXCEPT !.steps[st.current] = IF @ \in {"blocked", "pending"} THEN "failed" ELSE @,
               !.status = "failed", !.decision = "approval_processing_stale_recovered",
               !.in_progress = FALSE, !.resolution = "stale_processing_recovered"]

(* Mutant of AfterRecovery: the flag stays set. *)
AfterRecoveryStuck(r) ==
    IF Recoverable(r) THEN [Recovered(store[r]) EXCEPT !.in_progress = TRUE] ELSE store[r]

AfterRecovery(r) == IF Recoverable(r) THEN Recovered(store[r]) ELSE store[r]

CanDelete(r, st) == ~_approval_lock_is_active(r) /\ ~st.in_progress

Save(contents) == store' = contents /\ disk' = contents

-----------------------------------------------------------------------------
(* POST /run: ExecutionService.run, up to the end of the graph; and a task *)
(* of POST /assistant/run on the legacy engine.                            *)

NoLegacy == \A p \in Requests : reqs[p].op # "legacy"
Alone(q) == NoLegacy \/ reqs[q].op = "legacy"

Begins(q, op, r, plan) ==
    /\ r \notin used
    /\ used' = used \cup {r}
    /\ reqs' = [reqs EXCEPT ![q] = [op |-> op, run |-> r, ended |-> FALSE, st |-> Planned(plan)]]

RunGoal(q, op, r, plan) ==
    /\ reqs[q].op = "idle"
    /\ Begins(q, op, r, plan)
    /\ UNCHANGED <<store, disk, aged, staged, crashes, history>>

(* The legacy engine goes on with the next task of its message, whether or *)
(* not this one raised.                                                    *)
EndsTask(q) ==
    \/ reqs' = [reqs EXCEPT ![q] = Idle] /\ UNCHANGED used
    \/ /\ reqs[q].op = "legacy"
       /\ \E r \in Runs : \E plan \in LegacyPlansOf[r] : Begins(q, "legacy", r, plan)

(* The state after DecisionAgent; the node it routes to is the rest of the *)
(* action.  Both work on the request's own copy.                           *)
Decided(q) == DecisionAgent(reqs[q].st)
Routed(q, decisions) == InGraph(q) /\ Decided(q).decision \in decisions
Becomes(q, st) == reqs' = [reqs EXCEPT ![q].st = st]

GraphStep(q) ==
    /\ \/ /\ Routed(q, {"run_planner"})
          /\ Becomes(q, complete_planner_step(Decided(q)))
       \/ /\ Routed(q, {"continue_workflow"})
          /\ Becomes(q, Decided(q))
       \/ /\ Routed(q, {"run_validation"})
          /\ Becomes(q, Validated(Decided(q)))
       \/ /\ Routed(q, {"reflect_and_retry"})
          /\ Becomes(q, Reflected(Decided(q)))
    /\ UNCHANGED <<store, disk, aged, staged, used, crashes, history>>

(* The execution node stopped by SafetyAgent or by ApprovalAgent. *)
ExecuteStopped(q) ==
    /\ Routed(q, {"run_execution"})
    /\ \/ Kind(Decided(q)) \in Unsafe /\ Becomes(q, Refused(Decided(q)))
       \/ /\ Kind(Decided(q)) \notin Unsafe /\ ~MayRun(Decided(q))
          /\ Becomes(q, Blocked(Decided(q)))
    /\ UNCHANGED <<store, disk, aged, staged, used, crashes, history>>

(* git add -A, git commit and the rest; a commit of nothing fails.         *)
Tool(r, kind, ok) ==
    /\ runs' = [runs EXCEPT ![r][kind] = IF @ > MaxRetries THEN @ ELSE @ + 1]
    /\ \/ kind = "stage" /\ staged' = IF ok THEN staged \cup {r} ELSE staged
       \/ kind = "commit" /\ (ok => staged # {}) /\ staged' = IF ok THEN {} ELSE staged
       \/ kind \notin {"stage", "commit"} /\ UNCHANGED staged

ExecuteTool(q) ==
    /\ Routed(q, {"run_execution"})
    /\ Kind(Decided(q)) \notin Unsafe /\ MayRun(Decided(q))
    /\ \E ok \in BOOLEAN :
         /\ Tool(reqs[q].run, Kind(Decided(q)), ok)
         /\ Becomes(q, Executed(Decided(q), ok))
    /\ UNCHANGED <<store, disk, aged, used, crashes, grants, refused>>

(* A terminal node, and the end of the graph. *)
GraphEnds(q) ==
    /\ Routed(q, DOMAIN StopStatus)
    /\ reqs' = [reqs EXCEPT ![q].st = Stopped(Decided(q)), ![q].ended = TRUE]
    /\ UNCHANGED <<store, disk, aged, staged, used, crashes, history>>

RunSaves(q) ==
    /\ AfterGraph(q, "run") \/ AfterGraph(q, "legacy")
    /\ Save([store EXCEPT ![reqs[q].run] = reqs[q].st])
    /\ EndsTask(q)
    /\ UNCHANGED <<aged, staged, crashes, history>>

(* An exception leaves the graph of a goal: nothing is saved. *)
RunRaises(q) ==
    /\ InGraph(q) /\ reqs[q].op \in {"run", "legacy"}
    /\ EndsTask(q)
    /\ UNCHANGED <<store, disk, aged, staged, crashes, history>>

-----------------------------------------------------------------------------
(* POST /approve                                                           *)

Processing(st, verdict) == [st EXCEPT !.in_progress = TRUE, !.resolution = verdict]

Resumable(st) ==
    [st EXCEPT !.approved = @ \cup {st.pending}, !.steps[st.current] = "pending",
               !.status = "retrying", !.decision = "retry_prepared"]

(* Mutant of MayResolve: the status of the run is not asked.               *)
MayResolveAny(r) ==
    /\ store[r] # NoRun /\ ~_approval_lock_is_active(r)
    /\ ~store[r].in_progress /\ store[r].pending # NoAction

MayResolve(r) == store[r] # NoRun /\ ~_approval_lock_is_active(r) /\ Waiting(store[r])

(* Up to the first await: the file has the run in progress, and the live   *)
(* object already carries the approval.                                    *)
ApproveBegin(q, r) ==
    /\ reqs[q].op = "idle" /\ MayResolve(r)
    /\ LET saved == Processing(store[r], "approved") IN
       /\ disk' = [store EXCEPT ![r] = saved]
       /\ store' = [store EXCEPT ![r] = Resumable(saved)]
       /\ reqs' = [reqs EXCEPT ![q] = [op |-> "approve", run |-> r, ended |-> FALSE,
                                       st |-> Resumable(saved)]]
    /\ aged' = aged \ {r}
    /\ grants' = [grants EXCEPT ![r][store[r].pending] = @ + 1]
    /\ UNCHANGED <<staged, used, crashes, runs, refused>>

ApproveEnd(q) ==
    /\ AfterGraph(q, "approve")
    /\ Save([store EXCEPT ![reqs[q].run] = [reqs[q].st EXCEPT !.in_progress = FALSE]])
    /\ reqs' = [reqs EXCEPT ![q] = Idle]
    /\ UNCHANGED <<aged, staged, used, crashes, history>>

ResumeFailed(r) ==
    [store EXCEPT ![r].status = "failed", ![r].decision = "approval_resume_failed",
                  ![r].in_progress = FALSE, ![r].resolution = "approved_but_resume_failed"]

(* Mutant of ResumeRaises: the failure is not saved. *)
ResumeRaisesUnsaved(q) ==
    /\ InGraph(q) /\ reqs[q].op = "approve"
    /\ store' = ResumeFailed(reqs[q].run)
    /\ reqs' = [reqs EXCEPT ![q] = Idle]
    /\ UNCHANGED <<disk, aged, staged, used, crashes, history>>

(* An exception leaves the graph: the object from before the resume fails, *)
(* and what the graph did to its copies is forgotten.                      *)
ResumeRaises(q) ==
    /\ InGraph(q) /\ reqs[q].op = "approve"
    /\ Save(ResumeFailed(reqs[q].run))
    /\ reqs' = [reqs EXCEPT ![q] = Idle]
    /\ UNCHANGED <<aged, staged, used, crashes, history>>

-----------------------------------------------------------------------------
(* POST /reject, with the cleanup of a commit whose changes it staged.     *)
(* Between its two saves it only waits for git and writes the state: the   *)
(* git tool returns its failures, a timeout included, and raises nothing.  *)

_should_cleanup_staged_changes_after_rejection(st) ==
    st.pending = "commit" /\ "stage" \in st.succeeded

Unstaged(st, ok) ==
    IF _should_cleanup_staged_changes_after_rejection(st) /\ ok THEN {} ELSE staged

(* Mutant of Rejected: the run is closed without its verdict.              *)
RejectedOpen(st) ==
    [st EXCEPT !.steps[st.current] = "rejected", !.decision = "approval_rejected",
               !.resolution = "rejected"]

Rejected(st) ==
    [st EXCEPT !.steps[st.current] = "rejected", !.status = "rejected",
               !.decision = "approval_rejected", !.resolution = "rejected"]

Reject(r) ==
    /\ MayResolve(r)
    /\ \E ok \in BOOLEAN : staged' = Unstaged(store[r], ok)
    /\ Save([store EXCEPT ![r] = Rejected(store[r])])
    /\ aged' = aged \ {r}
    /\ refused' = refused \cup {<<r, store[r].pending>>}
    /\ UNCHANGED <<reqs, used, crashes, runs, grants>>

-----------------------------------------------------------------------------
(* GET /runs/{id}, and approve or reject of a stale run: recover one run.  *)
(* GET /runs and /overview recover all.                                    *)

ReadRuns(rs) ==
    /\ \E r \in rs : Recoverable(r)
    /\ Save([r \in Runs |-> IF r \in rs THEN AfterRecovery(r) ELSE store[r]])
    /\ UNCHANGED <<reqs, aged, staged, used, crashes, history>>

(* DELETE /runs/{id} *)
DeleteRun(r) ==
    /\ store[r] # NoRun /\ CanDelete(r, AfterRecovery(r))
    /\ Save([store EXCEPT ![r] = NoRun])
    /\ UNCHANGED <<reqs, aged, staged, used, crashes, history>>

(* DELETE /runs/maintenance/safe *)
DeleteSafe ==
    LET Doomed(r) == /\ store[r] # NoRun
                     /\ AfterRecovery(r).status \in Final
                     /\ CanDelete(r, AfterRecovery(r)) IN
    /\ \E r \in Runs : Doomed(r)
    /\ Save([r \in Runs |-> IF Doomed(r) THEN NoRun ELSE AfterRecovery(r)])
    /\ UNCHANGED <<reqs, aged, staged, used, crashes, history>>

-----------------------------------------------------------------------------

TimePasses(r) ==
    /\ store[r] # NoRun /\ store[r].in_progress /\ r \notin aged
    /\ aged' = aged \cup {r}
    /\ UNCHANGED <<store, disk, reqs, staged, used, crashes, history>>

(* The process is killed and started again: _ensure_loaded reads the file. *)
Restart ==
    /\ crashes < MaxCrashes
    /\ crashes' = crashes + 1
    /\ reqs' = [q \in Requests |-> Idle]

Crash ==
    /\ Restart
    /\ store' = disk
    /\ UNCHANGED <<disk, aged, staged, used, history>>

(* ... while reject waits for git, between its two saves. *)
CrashInReject(r) ==
    /\ Restart
    /\ MayResolve(r)
    /\ Save([store EXCEPT ![r] = Processing(store[r], "rejected")])
    /\ \E ok \in BOOLEAN : staged' = Unstaged(store[r], ok)
    /\ aged' = aged \ {r}
    /\ refused' = refused \cup {<<r, store[r].pending>>}
    /\ UNCHANGED <<used, runs, grants>>

-----------------------------------------------------------------------------

Init ==
    /\ store = [r \in Runs |-> NoRun]
    /\ disk = [r \in Runs |-> NoRun]
    /\ reqs = [q \in Requests |-> Idle]
    /\ aged = {} /\ staged = {} /\ used = {}
    /\ crashes = 0
    /\ runs = [r \in Runs |-> [k \in Tools |-> 0]]
    /\ grants = [r \in Runs |-> [k \in Tools |-> 0]]
    /\ refused = {}

HandlerStep(q) ==
    \/ GraphStep(q) \/ ExecuteStopped(q) \/ ExecuteTool(q) \/ GraphEnds(q)
    \/ RunSaves(q) \/ ApproveEnd(q)

Handle(q) ==
    \/ HandlerStep(q) \/ RunRaises(q) \/ ResumeRaises(q)
    \/ \E r \in Runs :
         \/ ApproveBegin(q, r)
         \/ \E p \in PlansOf[r] : RunGoal(q, "run", r, p)
         \/ \E p \in LegacyPlansOf[r] : RunGoal(q, "legacy", r, p)

(* The handlers that are one step. *)
Answer ==
    \/ \E r \in Runs : Reject(r) \/ ReadRuns({r}) \/ DeleteRun(r) \/ CrashInReject(r)
    \/ ReadRuns(Runs) \/ DeleteSafe

Next ==
    \/ \E q \in Requests : Alone(q) /\ Handle(q)
    \/ NoLegacy /\ Answer
    \/ (\E r \in Runs : TimePasses(r)) \/ Crash

Spec == Init /\ [][Next]_vars

(* The event loop serves every handler; the clock runs; the approvals page *)
(* polls GET /runs every two seconds.                                      *)
Fairness ==
    /\ \A q \in Requests : WF_vars(Alone(q) /\ HandlerStep(q))
    /\ \A r \in Runs : WF_vars(TimePasses(r))
    /\ WF_vars(NoLegacy /\ ReadRuns(Runs))

FairSpec == Spec /\ Fairness

-----------------------------------------------------------------------------
(* Properties *)

Plans == UNION {PlansOf[r] : r \in Runs}

(* The decisions that are seen between two nodes, or are saved. *)
Decisions ==
    {"plan_created", "continue_workflow", "run_planner", "blocked_by_safety_agent", "approval_required",
     "execution_completed", "execution_failed", "retry_prepared", "validation_success", "validation_failed",
     "approval_rejected", "approval_resume_failed", "approval_processing_stale_recovered"} \cup DOMAIN StopStatus

States ==
    [plan : Plans, steps : UNION {[DOMAIN p -> StepStatuses] : p \in Plans}, current : Nat,
     status : Final \cup {"planning", "executing", "reflecting", "validated", "retrying",
                          "requires_approval"},
     decision : Decisions, retries : 0 .. MaxRetries, succeeded : SUBSET Tools,
     approved : SUBSET Tools, pending : Tools \cup {NoAction}, in_progress : BOOLEAN,
     resolution : {"none", "approved", "rejected", "approved_but_resume_failed",
                   "stale_processing_recovered"}]

(* No record is not a record. *)
ASSUME NoRunAssumption == NoRun \notin States

Handlers == {Idle} \cup [op : {"run", "legacy", "approve"}, run : Runs, ended : BOOLEAN, st : States]

(* The dictionary of workflows, its file, and what each request holds have *)
(* their types.                                                            *)
TypeOK ==
    /\ store \in [Runs -> States \cup {NoRun}] /\ disk \in [Runs -> States \cup {NoRun}]
    /\ reqs \in [Requests -> Handlers]
    /\ aged \subseteq Runs /\ staged \subseteq Runs /\ used \subseteq Runs
    /\ crashes \in 0 .. MaxCrashes
    /\ runs \in [Runs -> [Tools -> Nat]] /\ grants \in [Runs -> [Tools -> Nat]]
    /\ refused \subseteq Runs \X Tools

(* A tool that needs an approval never runs for a workflow whose user has  *)
(* not approved that very action, across retries, later steps of the plan, *)
(* restarts and concurrent requests; what the user rejected is never run;  *)
(* an approved git write is attempted once, whether the retry loop or a    *)
(* second approval could repeat it; and no tool is called more often than  *)
(* max_retries.                                                            *)
CallsGoverned ==
    /\ TypeOK
    /\ \A p \in refused : runs[p[1]][p[2]] = 0
    /\ \A r \in Runs, k \in Tools :
         /\ NeedsApproval(k) /\ runs[r][k] > 0 => grants[r][k] > 0
         /\ runs[r][k] <= IF k \in GitWrites THEN 1 ELSE MaxRetries

(* While an approval is being resumed, no other request recovers, deletes  *)
(* or resolves its workflow.                                               *)
ResumeOwnsRun ==
    \A q \in Requests : reqs[q].op = "approve" =>
        LET r == reqs[q].run IN
        /\ store[r] # NoRun /\ store[r].in_progress /\ store[r].status = "retrying"
        /\ \A p \in Requests \ {q} : reqs[p].op = "approve" => reqs[p].run # r

(* A workflow that is called completed has run every tool of its plan with *)
(* success, although the validation agent accepts any earlier success.     *)
CompletedMeansDone ==
    \A r \in Runs : store[r] # NoRun /\ store[r].status = "completed" =>
        \A i \in DOMAIN store[r].plan :
            LET k == store[r].plan[i] IN k # Clarify => k \in store[r].succeeded /\ runs[r][k] > 0

(* A workflow that has ended keeps its verdict until it is deleted, also   *)
(* over a restart.                                                         *)
SettledStays ==
    [][\A r \in Runs : store[r] # NoRun /\ store[r].status \in Final /\ store'[r] # NoRun
            => store'[r].status = store[r].status]_vars

(* The graph comes to an end: every handler answers.                       *)
EveryRequestEnds == \A q \in Requests : reqs[q].op # "idle" ~> reqs[q].op = "idle"

(* A workflow does not stay "approval in progress" for ever, even if the   *)
(* process was killed while it resumed.                                    *)
ProcessingClears ==
    \A r \in Runs : (store[r] # NoRun /\ store[r].in_progress)
                        ~> ~(store[r] # NoRun /\ store[r].in_progress)
=============================================================================
