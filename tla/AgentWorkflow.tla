---------------------------- MODULE AgentWorkflow ----------------------------
(***************************************************************************)
(* The agents of backend/agents/* over one workflow state, and the nodes   *)
(* of backend/graph/langgraph_aira_workflow.py that call them.             *)
(*                                                                         *)
(* LangGraph hands every node a copy of the state and takes back a copy,   *)
(* so a node is a function of the state.  What a tool does is given to the *)
(* execution node as its outcome; ApprovalGate runs the tools.             *)
(***************************************************************************)
EXTENDS Integers, Sequences

CONSTANT MaxRetries         \* AiraXState.max_retries

ASSUME RetriesAssumption == MaxRetries \in Nat \ {0}

(* What a step of a plan does, as far as the agents tell steps apart.      *)
GitWrites == {"stage", "commit", "push"}    \* git_tool: never retried
Installs == {"install"}                     \* matches an approval pattern
Plain == {"plain"}                          \* needs no approval
Unsafe == {"unsafe"}                        \* matches a blocked pattern
Tools == GitWrites \cup Installs \cup Plain \cup Unsafe
Clarify == "clarify"                        \* the planner's own step, no tool
Kinds == Tools \cup {Clarify}
NoAction == "none"

(* ApprovalAgent: by the tool's policy or by a pattern in the action.      *)
NeedsApproval(kind) == kind \in GitWrites \cup Installs

StepStatuses == {"pending", "completed", "failed", "blocked", "rejected"}
Final == {"completed", "failed", "rejected"}

-----------------------------------------------------------------------------
(* PlannerAgent: the first intent that the goal's words match makes the    *)
(* plan.  A goal is the set of intents it matches, with what its own words *)
(* (code, command, path, package, commit message or branch) do in the text *)
(* of an action, NoAction when none can be extracted.                      *)

(* The branches in the order of the code. *)
Intents == <<"list files", "read file", "write file", "python", "shell", "install", "git status",
             "stage and commit", "stage", "commit", "push", "dangerous", "retry demo">>

(* Those that need the goal's own code, command or path. *)
Quoting == {"read file", "python", "shell"}
Quoted(goal) == IF goal.does = NoAction THEN <<Clarify>> ELSE <<goal.does>>

(* The patterns are looked for in the whole action, the goal's words in it *)
(* included: a file may be called deploy.txt, a commit "restart on error". *)
Worded(kind, goal) ==
    CASE goal.does = "unsafe" -> "unsafe"
      [] goal.does = "install" /\ kind = "plain" -> "install"
      [] OTHER -> kind

Pathed == {"list files", "write file"}
Inspecting == {"git status", "retry demo"}
GitIntents == {"stage and commit", "stage", "commit", "push"}

GitPlan(intent, goal) ==
    CASE intent = "stage and commit" -> <<"stage", Worded("commit", goal)>>
      [] intent = "stage" -> <<"stage">>
      [] intent = "commit" -> <<Worded("commit", goal)>>
      [] intent = "push" -> <<Worded("push", goal)>>

PlanFor(intent, goal) ==
    CASE intent \in Quoting -> Quoted(goal)
      [] intent \in Pathed -> <<Worded("plain", goal)>>
      [] intent \in Inspecting -> <<"plain">>
      [] intent \in GitIntents -> GitPlan(intent, goal)
      [] intent = "install" -> <<Worded("install", goal)>>
      [] intent = "dangerous" -> <<"unsafe">>

PlannerAgent(goal) ==
    LET matching == {i \in DOMAIN Intents : Intents[i] \in goal.matches}
    IN  IF matching = {} THEN <<Clarify>>
        ELSE PlanFor(Intents[CHOOSE i \in matching : \A j \in matching : i <= j], goal)

-----------------------------------------------------------------------------

(* run: the state when PlannerAgent has written the plan. *)
Planned(plan) ==
    [plan |-> plan, steps |-> [i \in DOMAIN plan |-> "pending"], current |-> 1,
     status |-> "planning", decision |-> "plan_created", retries |-> 0,
     succeeded |-> {}, approved |-> {}, pending |-> NoAction,
     in_progress |-> FALSE, resolution |-> "none"]

Kind(st) == st.plan[st.current]
Step(st) == st.steps[st.current]

(* SafetyAgent refused this step: its error says "Unsafe action blocked". *)
SafetyBlocked(st) == Kind(st) \in Unsafe /\ Step(st) = "failed"

(* Mutant of Onward: the last step is passed over. *)
OnwardOffByOne(st) ==
    IF st.current + 1 < Len(st.plan)
    THEN [st EXCEPT !.current = @ + 1, !.decision = "continue_workflow"]
    ELSE [st EXCEPT !.decision = "validate_final_result"]

(* The step after this one, or the end of the plan. *)
Onward(st) ==
    IF st.current < Len(st.plan)
    THEN [st EXCEPT !.current = @ + 1, !.decision = "continue_workflow"]
    ELSE [st EXCEPT !.decision = "validate_final_result"]

Assigned(kind) == IF kind = Clarify THEN "run_planner" ELSE "run_execution"

(* The last block of DecisionAgent.run, by the status of the current step. *)
DecideByStep(st) ==
    CASE Step(st) = "pending" -> [st EXCEPT !.decision = Assigned(Kind(st))]
      [] Step(st) = "completed" /\ Kind(st) # Clarify -> [st EXCEPT !.decision = "run_validation"]
      [] Step(st) = "completed" /\ Kind(st) = Clarify -> Onward(st)
      [] Step(st) = "failed" -> [st EXCEPT !.decision = "reflect_and_retry"]
      [] OTHER -> st

(* The early returns in the order of the code, up to a limit of retries.   *)
Decide(st, limit) ==
    IF st.decision = "approval_required" \/ st.status = "requires_approval"
    THEN [st EXCEPT !.decision = "stop_approval_required"]
    ELSE IF SafetyBlocked(st)
    THEN [st EXCEPT !.decision = "stop_safety_block", !.status = "failed"]
    ELSE IF Step(st) = "failed" /\ Kind(st) \in GitWrites
    THEN [st EXCEPT !.decision = "stop_non_retryable_failure", !.status = "failed"]
    ELSE IF st.retries >= limit
    THEN [st EXCEPT !.decision = "stop_max_retries", !.steps[st.current] = "failed"]
    ELSE IF st.decision = "retry_prepared"
    THEN [st EXCEPT !.decision = "run_execution"]
    ELSE IF st.decision = "validation_success" \/ st.status = "validated"
    THEN Onward([st EXCEPT !.status = IF st.current < Len(st.plan) THEN "executing" ELSE @])
    ELSE DecideByStep(st)

(* Mutant of DecisionAgent: > instead of >=. *)
DecisionOffByOne(st) == Decide(st, MaxRetries + 1)

(* DecisionAgent.run *)
DecisionAgent(st) == Decide(st, MaxRetries)

-----------------------------------------------------------------------------
(* The nodes. *)

complete_planner_step(st) == [st EXCEPT !.steps[st.current] = "completed"]

(* ExecutionAgent up to the agents that may stop it. *)
Announced(st) == [st EXCEPT !.pending = Kind(st)]

Refused(st) ==
    [Announced(st) EXCEPT !.steps[st.current] = "failed", !.status = "failed",
                          !.decision = "blocked_by_safety_agent"]

(* Mutant of MayRun: what the user approved last stands for any action.    *)
MayRunOnAnyApproval(st) == ~NeedsApproval(Kind(st)) \/ st.approved # {}

(* ApprovalAgent: approved before, or no approval needed. *)
MayRun(st) == ~NeedsApproval(Kind(st)) \/ Kind(st) \in st.approved

Blocked(st) ==
    [Announced(st) EXCEPT !.steps[st.current] = "blocked", !.status = "requires_approval",
                          !.decision = "approval_required"]

(* ... and after the tool returned. *)
Executed(st, ok) ==
    IF ok
    THEN [Announced(st) EXCEPT !.steps[st.current] = "completed", !.status = "executing",
                               !.decision = "execution_completed", !.succeeded = @ \cup {Kind(st)}]
    ELSE [Announced(st) EXCEPT !.steps[st.current] = "failed", !.status = "failed",
                               !.decision = "execution_failed"]

(* Mutant of Reflected: the retry is not counted.                          *)
ReflectedUncounted(st) ==
    [st EXCEPT !.steps[st.current] = "pending", !.status = "reflecting",
               !.decision = "retry_prepared"]

(* ReflectionAgent *)
Reflected(st) ==
    [st EXCEPT !.retries = @ + 1, !.steps[st.current] = "pending",
               !.status = "reflecting", !.decision = "retry_prepared"]

(* ValidationAgent: any output that succeeded will do, not only the step's *)
Validated(st) ==
    IF st.succeeded # {}
    THEN [st EXCEPT !.steps[st.current] = "completed", !.status = "validated",
                    !.decision = "validation_success"]
    ELSE [st EXCEPT !.steps[st.current] = "failed", !.status = "failed",
                    !.decision = "validation_failed"]

(* The status each terminal node leaves. *)
StopStatus ==
    [validate_final_result |-> "completed", stop_safety_block |-> "failed",
     stop_approval_required |-> "requires_approval",
     stop_non_retryable_failure |-> "failed", stop_max_retries |-> "failed"]

Stopped(st) == [st EXCEPT !.status = StopStatus[st.decision]]
=============================================================================
