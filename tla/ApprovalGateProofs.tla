------------------------- MODULE ApprovalGateProofs -------------------------
(***************************************************************************)
(* Proofs about ApprovalGate for any goals, any number of runs and         *)
(* concurrent requests, and any bound of retries and kills.                *)
(*                                                                         *)
(* What a workflow may still do is written in its state alone: the step    *)
(* it is at, the retries, what was approved.  The tools were called        *)
(* elsewhere.  The invariant is that whoever may go on with a workflow,    *)
(* the one handler of it or the record that waits for an approval, holds   *)
(* a true account of the calls made for it.                                *)
(***************************************************************************)
EXTENDS ApprovalGate, TLAPS

-----------------------------------------------------------------------------
(* The invariant *)

(* The plans that PlannerAgent makes: one step, or stage and commit, whose *)
(* message may be refused.                                                 *)
PlanShapes == {<<k>> : k \in Kinds} \cup {<<"stage", k>> : k \in {"commit", "unsafe"}}

Formed(st) ==
    /\ st \in States
    /\ st.plan \in PlanShapes
    /\ st.steps \in [DOMAIN st.plan -> StepStatuses]
    /\ st.current \in DOMAIN st.plan

(* A state tells which tools were called for it, that those of the steps   *)
(* before succeeded, and that the approvals it carries were given ...      *)
Past(st, calls, given) ==
    /\ \A k \in st.succeeded : calls[k] > 0
    /\ \A k \in st.approved : given[k] > 0
    /\ \A i \in DOMAIN st.plan : i < st.current /\ st.plan[i] # Clarify => st.plan[i] \in st.succeeded
    /\ \A i \in DOMAIN st.plan : i > st.current => st.steps[i] = "pending"
    /\ \A k \in Tools : calls[k] > 0 => \E i \in DOMAIN st.plan : i <= st.current /\ st.plan[i] = k
    /\ \A k \in Tools : calls[k] > 0 /\ NeedsApproval(k) => k \in st.approved

(* ... and how often at most the tool of the step it is at was called.     *)
Present(st, calls) ==
    /\ Step(st) = "pending" /\ Kind(st) # Clarify =>
            calls[Kind(st)] <= IF Kind(st) \in GitWrites THEN 0 ELSE st.retries
    /\ Kind(st) # Clarify /\ Kind(st) \notin GitWrites => calls[Kind(st)] <= st.retries + 1
    /\ Step(st) = "completed" /\ Kind(st) # Clarify => Kind(st) \in st.succeeded
    /\ Kind(st) = Clarify => Step(st) \in {"pending", "completed"} /\ st.retries = 0

Account(st, calls, given) == Past(st, calls, given) /\ Present(st, calls)

(* It waits for the approval of the step it is at, which was never tried.  *)
Parked(st, calls, given) ==
    /\ Account(st, calls, given)
    /\ Step(st) = "blocked" /\ st.pending = Kind(st) /\ NeedsApproval(Kind(st))
    /\ calls[Kind(st)] = 0

(* Every tool of the plan was called and succeeded. *)
Done(st, calls) ==
    \A i \in DOMAIN st.plan :
        st.plan[i] # Clarify => st.plan[i] \in st.succeeded /\ calls[st.plan[i]] > 0

(* Between two nodes of the graph. *)
Flowing(st, calls, given) ==
    /\ Account(st, calls, given)
    /\ st.status # "completed" /\ Step(st) # "rejected"
    /\ st.decision = "retry_prepared" => Step(st) = "pending" /\ Kind(st) # Clarify
    /\ st.decision = "approval_required" \/ st.status = "requires_approval" \/ Step(st) = "blocked"
            => /\ st.decision = "approval_required" /\ st.status = "requires_approval"
               /\ Parked(st, calls, given)
    /\ st.decision = "validation_success" \/ st.status = "validated"
            => Step(st) = "completed"

(* After a terminal node. *)
Concluded(st, calls, given) ==
    /\ st.status \in {"completed", "failed", "requires_approval"}
    /\ st.status = "completed" => Done(st, calls)
    /\ st.status = "requires_approval" => Parked(st, calls, given)

(* A record at rest.  One in progress is not acted on but to recover it.   *)
Rests(st, calls, given) ==
    /\ Formed(st)
    /\ st.status = "completed" => Done(st, calls)
    /\ st.in_progress => st.status \in {"requires_approval", "retrying"}
    /\ st.status = "requires_approval" /\ ~st.in_progress => Parked(st, calls, given)

Serves(q, r) == reqs[q].op # "idle" /\ reqs[q].run = r

(* The records of a run that is resumed, and of one that has not been      *)
(* saved yet.                                                              *)
Locked(r) ==
    /\ store[r] # NoRun /\ store[r].in_progress /\ store[r].status = "retrying"
    /\ disk[r] # NoRun /\ disk[r].in_progress

Unsaved(r) == store[r] = NoRun /\ disk[r] = NoRun

RecordTrue(r) ==
    /\ store[r] # NoRun => Rests(store[r], runs[r], grants[r])
    /\ disk[r] # NoRun => Rests(disk[r], runs[r], grants[r])
    /\ disk[r] # store[r] => \E q \in Requests : Handling(q, "approve", r)
    /\ r \notin used => Unsaved(r) /\ \A k \in Tools : runs[r][k] = 0

Accounted(h) ==
    /\ h.run \in used /\ Formed(h.st) /\ h.st.in_progress = (h.op = "approve")
    /\ IF h.ended THEN Concluded(h.st, runs[h.run], grants[h.run]) ELSE Flowing(h.st, runs[h.run], grants[h.run])
    /\ IF h.op = "approve" THEN Locked(h.run) ELSE Unsaved(h.run)

HandlerTrue(q) == Accounted(reqs[q]) /\ \A p \in Requests \ {q} : ~Serves(p, reqs[q].run)

(* What was rejected was not run, and nobody can go on with its workflow.  *)
RefusalStands(r, k) ==
    /\ r \in used /\ runs[r][k] = 0
    /\ \A q \in Requests : ~Serves(q, r)
    /\ store[r] # NoRun => store[r].in_progress \/ store[r].status # "requires_approval"

RecordsTrue == \A r \in Runs : RecordTrue(r)
HandlersTrue == \A q \in Requests : reqs[q].op # "idle" => HandlerTrue(q)
RefusalsStand == \A p \in refused : RefusalStands(p[1], p[2])

CallsBounded ==
    \A r \in Runs, k \in Tools :
        /\ NeedsApproval(k) /\ runs[r][k] > 0 => grants[r][k] > 0
        /\ runs[r][k] <= IF k \in GitWrites THEN 1 ELSE MaxRetries

GateInv == TypeOK /\ RecordsTrue /\ HandlersTrue /\ RefusalsStand /\ CallsBounded

-----------------------------------------------------------------------------
(* The plans *)

(* A plan has one or two steps; of two, the first is a git write and the   *)
(* other is a tool too.                                                    *)
LEMMA ShapeOfPlans ==
  ASSUME NEW p \in PlanShapes
  PROVE  /\ p \in Seq(Kinds) /\ Len(p) \in {1, 2} /\ DOMAIN p = 1..Len(p)
         /\ \A i \in DOMAIN p : p[i] \in Kinds
         /\ \A i, j \in DOMAIN p : p[i] = p[j] => i = j
         /\ Len(p) = 2 => p[1] \in GitWrites /\ p[2] \in Tools
<1>1. ASSUME NEW k \in {"commit", "unsafe"}, p = <<"stage", k>>
      PROVE  /\ p \in Seq(Kinds) /\ Len(p) = 2 /\ DOMAIN p = 1..2
             /\ p[1] \in GitWrites /\ p[2] \in Tools /\ p[1] # p[2]
  <2>1. "stage" \in Kinds /\ k \in Kinds /\ k \in Tools /\ "stage" \in GitWrites /\ "stage" # k
    BY DEF Kinds, Tools, GitWrites, Unsafe
  <2> QED
    BY <1>1, <2>1
<1>2. CASE \E k \in Kinds : p = <<k>>
  BY <1>2
<1> QED
  BY <1>1, <1>2 DEF PlanShapes

(* The branches of the planner, one by one. *)
LEMMA IntentsKnown ==
  /\ DOMAIN Intents = 1..13
  /\ \A i \in 1..13 : Intents[i] \in Quoting \cup Pathed \cup Inspecting \cup GitIntents \cup {"install", "dangerous"}
<1>1. DOMAIN Intents = 1..13
  BY DEF Intents
<1>2. ASSUME NEW i \in 1..13
      PROVE  Intents[i] \in Quoting \cup Pathed \cup Inspecting \cup GitIntents \cup {"install", "dangerous"}
  <2>1. Intents[i] \in {Intents[1], Intents[2], Intents[3], Intents[4], Intents[5], Intents[6], Intents[7],
                        Intents[8], Intents[9], Intents[10], Intents[11], Intents[12], Intents[13]}
    OBVIOUS
  <2>2. /\ Intents[1] = "list files" /\ Intents[2] = "read file" /\ Intents[3] = "write file"
        /\ Intents[4] = "python" /\ Intents[5] = "shell" /\ Intents[6] = "install" /\ Intents[7] = "git status"
    BY DEF Intents
  <2>3. /\ Intents[8] = "stage and commit" /\ Intents[9] = "stage" /\ Intents[10] = "commit"
        /\ Intents[11] = "push" /\ Intents[12] = "dangerous" /\ Intents[13] = "retry demo"
    BY DEF Intents
  <2> QED
    BY <2>1, <2>2, <2>3, ZenonT(30) DEF Quoting, Pathed, Inspecting, GitIntents
<1> QED
  BY <1>1, <1>2

(* Some intent that matches is the first. *)
LEMMA FirstMatches ==
  ASSUME NEW m \in SUBSET (1..13), m # {}
  PROVE  \E i \in m : \A j \in m : i <= j
<1> SUFFICES ASSUME \A i \in m : \E j \in m : ~(i <= j)
             PROVE  FALSE
  OBVIOUS
<1>0. 1 \notin m
  OBVIOUS
<1>1. 1 \notin m /\ 2 \notin m /\ 3 \notin m
  BY <1>0
<1>2. 4 \notin m /\ 5 \notin m /\ 6 \notin m
  BY <1>1
<1>3. 7 \notin m /\ 8 \notin m /\ 9 \notin m
  BY <1>1, <1>2
<1>4. 10 \notin m /\ 11 \notin m
  BY <1>1, <1>2, <1>3
<1>5. 12 \notin m /\ 13 \notin m
  BY <1>1, <1>2, <1>3, <1>4
<1>6. \A i \in 1..13 : \/ i = 1 \/ i = 2 \/ i = 3 \/ i = 4 \/ i = 5 \/ i = 6 \/ i = 7
                       \/ i = 8 \/ i = 9 \/ i = 10 \/ i = 11 \/ i = 12 \/ i = 13
  OBVIOUS
<1> QED
  BY <1>1, <1>2, <1>3, <1>4, <1>5, <1>6, ZenonT(30)

(* Every branch of the planner makes one of the two shapes. *)
LEMMA PlanForShapes ==
  ASSUME NEW g, g.does \in Tools \cup {NoAction},
         NEW intent \in Quoting \cup Pathed \cup Inspecting \cup GitIntents \cup {"install", "dangerous"}
  PROVE  PlanFor(intent, g) \in PlanShapes
<1>0. \A k \in Kinds : <<k>> \in PlanShapes
  BY DEF PlanShapes
<1>w. \A k \in Tools : Worded(k, g) \in Kinds
  BY DEF Worded, Kinds, Tools, Installs, Unsafe
<1>d. "plain" \in Tools /\ "install" \in Tools /\ "unsafe" \in Tools /\ "stage" \in Tools /\ "commit" \in Tools /\ "push" \in Tools
  BY DEF Tools, Plain, Installs, Unsafe, GitWrites
<1>k. Tools \subseteq Kinds
  BY DEF Kinds
<1>1. CASE intent \in Quoting
  <2>1. /\ intent \notin Pathed /\ intent \notin Inspecting /\ intent \notin GitIntents
        /\ intent # "install" /\ intent # "dangerous"
    BY <1>1 DEF Quoting, Pathed, Inspecting, GitIntents
  <2>2. PlanFor(intent, g) = Quoted(g)
    BY <1>1, <2>1, Zenon DEF PlanFor
  <2> QED
    BY <1>0, <2>2 DEF Quoted, Kinds
<1>2. CASE intent \in Pathed
  <2>1. /\ intent \notin Quoting /\ intent \notin Inspecting /\ intent \notin GitIntents
        /\ intent # "install" /\ intent # "dangerous"
    BY <1>2 DEF Quoting, Pathed, Inspecting, GitIntents
  <2>2. PlanFor(intent, g) = <<Worded("plain", g)>>
    BY <1>2, <2>1, Zenon DEF PlanFor
  <2> QED
    BY <1>0, <1>w, <1>d, <2>2
<1>3. CASE intent \in Inspecting
  <2>1. /\ intent \notin Quoting /\ intent \notin Pathed /\ intent \notin GitIntents
        /\ intent # "install" /\ intent # "dangerous"
    BY <1>3 DEF Quoting, Pathed, Inspecting, GitIntents
  <2>2. PlanFor(intent, g) = <<"plain">>
    BY <1>3, <2>1, Zenon DEF PlanFor
  <2> QED
    BY <1>0, <1>d, <1>k, <2>2
<1>4. CASE intent \in GitIntents
  <2>1. /\ intent \notin Quoting /\ intent \notin Pathed /\ intent \notin Inspecting
        /\ intent # "install" /\ intent # "dangerous"
    BY <1>4 DEF Quoting, Pathed, Inspecting, GitIntents
  <2>2. PlanFor(intent, g) = GitPlan(intent, g)
    BY <1>4, <2>1, Zenon DEF PlanFor
  <2>3. Worded("commit", g) \in {"commit", "unsafe"}
    BY DEF Worded
  <2>4. <<"stage", Worded("commit", g)>> \in PlanShapes
    BY <2>3 DEF PlanShapes
  <2>5. CASE intent = "stage and commit"
    BY <2>2, <2>4, <2>5 DEF GitPlan
  <2>6. CASE intent = "stage"
    BY <1>0, <1>d, <1>k, <2>2, <2>6 DEF GitPlan
  <2>7. CASE intent = "commit"
    BY <1>0, <1>d, <1>w, <2>2, <2>7 DEF GitPlan
  <2>8. CASE intent = "push"
    BY <1>0, <1>d, <1>w, <2>2, <2>8 DEF GitPlan
  <2> QED
    BY <1>4, <2>5, <2>6, <2>7, <2>8 DEF GitIntents
<1>5. CASE intent = "install"
  <2>1. intent \notin Quoting /\ intent \notin Pathed /\ intent \notin Inspecting /\ intent \notin GitIntents
    BY <1>5 DEF Quoting, Pathed, Inspecting, GitIntents
  <2>2. PlanFor(intent, g) = <<Worded("install", g)>>
    BY <1>5, <2>1, Zenon DEF PlanFor
  <2> QED
    BY <1>0, <1>w, <1>d, <2>2
<1>6. CASE intent = "dangerous"
  <2>1. /\ intent \notin Quoting /\ intent \notin Pathed /\ intent \notin Inspecting /\ intent \notin GitIntents
        /\ intent # "install"
    BY <1>6 DEF Quoting, Pathed, Inspecting, GitIntents
  <2>2. PlanFor(intent, g) = <<"unsafe">>
    BY <1>6, <2>1, Zenon DEF PlanFor
  <2> QED
    BY <1>0, <1>d, <1>k, <2>2
<1> QED
  BY <1>1, <1>2, <1>3, <1>4, <1>5, <1>6

LEMMA PlannerShapes ==
  ASSUME NEW g, g.matches \subseteq Range(Intents), g.does \in Tools \cup {NoAction}
  PROVE  PlannerAgent(g) \in PlanShapes
<1> DEFINE matching == {i \in DOMAIN Intents : Intents[i] \in g.matches}
           first == CHOOSE i \in matching : \A j \in matching : i <= j
<1>1. \A k \in Kinds : <<k>> \in PlanShapes
  BY DEF PlanShapes
<1>2. CASE matching = {}
  BY <1>1, <1>2 DEF PlannerAgent, Kinds
<1>3. CASE matching # {}
  <2>1. matching \in SUBSET (1..13)
    BY IntentsKnown
  <2>2. first \in matching
    BY <1>3, <2>1, FirstMatches
  <2>3. Intents[first] \in Quoting \cup Pathed \cup Inspecting \cup GitIntents \cup {"install", "dangerous"}
    BY <2>1, <2>2, IntentsKnown
  <2>4. PlanFor(Intents[first], g) \in PlanShapes
    BY <2>3, PlanForShapes
  <2> QED
    BY <1>3, <2>4 DEF PlannerAgent
<1> QED
  BY <1>2, <1>3

-----------------------------------------------------------------------------
(* The agents *)

(* What the decision agent writes of a state: its decision, and with some  *)
(* of them the status, the step it is at or the place in the plan.         *)
Deciding(st, decision) == [st EXCEPT !.decision = decision]
Failing(st, decision) == [st EXCEPT !.decision = decision, !.status = "failed"]
Exhausted(st) == [st EXCEPT !.decision = "stop_max_retries", !.steps[st.current] = "failed"]
MovedOn(st) == [st EXCEPT !.current = @ + 1, !.decision = "continue_workflow", !.status = "executing"]

(* The decisions on a state between two nodes, with what each rests on.    *)
Outcomes(st, calls, given) ==
    \/ DecisionAgent(st) = Deciding(st, "stop_approval_required")
       /\ st.status = "requires_approval" /\ Parked(st, calls, given)
    \/ /\ st.status # "requires_approval" /\ Step(st) # "blocked" /\ st.decision # "approval_required"
       /\ \/ DecisionAgent(st) = Failing(st, "stop_safety_block")
          \/ DecisionAgent(st) = Failing(st, "stop_non_retryable_failure")
          \/ DecisionAgent(st) = Exhausted(st)
          \/ /\ DecisionAgent(st) = Deciding(st, "run_execution")
             /\ Step(st) = "pending" /\ Kind(st) # Clarify /\ st.retries < MaxRetries
          \/ DecisionAgent(st) = Deciding(st, "run_planner") /\ Step(st) = "pending" /\ Kind(st) = Clarify
          \/ DecisionAgent(st) = Deciding(st, "run_validation") /\ Step(st) = "completed" /\ Kind(st) # Clarify
          \/ /\ DecisionAgent(st) = Deciding(st, "reflect_and_retry")
             /\ Step(st) = "failed" /\ Kind(st) \notin GitWrites /\ st.retries < MaxRetries
          \/ DecisionAgent(st) = MovedOn(st) /\ Step(st) = "completed" /\ st.current < Len(st.plan)
          \/ /\ DecisionAgent(st) = Deciding(st, "validate_final_result")
             /\ Step(st) = "completed" /\ st.current = Len(st.plan)

(* The components of a state that is formed. *)
LEMMA FormedParts ==
  ASSUME NEW st, Formed(st)
  PROVE  /\ DOMAIN st = {"plan", "steps", "current", "status", "decision", "retries", "succeeded", "approved",
                         "pending", "in_progress", "resolution"}
         /\ st.current \in 1..Len(st.plan) /\ Len(st.plan) \in {1, 2} /\ DOMAIN st.plan = 1..Len(st.plan)
         /\ Kind(st) = st.plan[st.current] /\ Step(st) = st.steps[st.current]
         /\ Kind(st) \in Kinds /\ Step(st) \in StepStatuses /\ DOMAIN st.steps = DOMAIN st.plan
         /\ Len(st.plan) = 2 => st.plan[1] \in GitWrites /\ st.plan[2] \in Tools
         /\ \A i, j \in DOMAIN st.plan : st.plan[i] = st.plan[j] => i = j
         /\ \A i \in DOMAIN st.plan : st.plan[i] \in Kinds
         /\ st.retries \in 0..MaxRetries
         /\ st.succeeded \subseteq Tools /\ st.approved \subseteq Tools
BY ShapeOfPlans DEF Formed, States, Kind, Step

LEMMA DecisionOutcomes ==
  ASSUME NEW st, NEW calls, NEW given, Formed(st), Flowing(st, calls, given)
  PROVE  Outcomes(st, calls, given)
<1>1. /\ st.retries \in Nat /\ MaxRetries \in Nat \ {0}
      /\ Step(st) \in StepStatuses /\ Kind(st) \in Kinds
  BY FormedParts, RetriesAssumption
<1>2. CASE st.decision = "approval_required" \/ st.status = "requires_approval" \/ Step(st) = "blocked"
  BY <1>2 DEF Outcomes, DecisionAgent, Decide, Deciding, Failing, Exhausted, Flowing
<1>3. CASE ~(st.decision = "approval_required" \/ st.status = "requires_approval" \/ Step(st) = "blocked")
  <2>1. CASE SafetyBlocked(st)
    BY <1>3, <2>1 DEF Outcomes, DecisionAgent, Decide, Deciding, Failing, Exhausted
  <2>2. CASE ~SafetyBlocked(st) /\ Step(st) = "failed" /\ Kind(st) \in GitWrites
    BY <1>3, <2>2 DEF Outcomes, DecisionAgent, Decide, Deciding, Failing, Exhausted
  <2> DEFINE passed == ~SafetyBlocked(st) /\ ~(Step(st) = "failed" /\ Kind(st) \in GitWrites)
  <2>3. CASE passed /\ st.retries >= MaxRetries
    BY <1>3, <2>3 DEF Outcomes, DecisionAgent, Decide, Deciding, Failing, Exhausted
  <2>4. CASE passed /\ ~(st.retries >= MaxRetries) /\ st.decision = "retry_prepared"
    BY <1>1, <1>3, <2>4 DEF Outcomes, DecisionAgent, Decide, Deciding, Failing, Exhausted, Flowing
  <2> DEFINE fresh == passed /\ ~(st.retries >= MaxRetries) /\ st.decision # "retry_prepared"
             validated == st.decision = "validation_success" \/ st.status = "validated"
  <2>5. CASE fresh /\ validated
    <3>1. Step(st) = "completed"
      BY <2>5 DEF Flowing
    <3>2. DecisionAgent(st) = Onward([st EXCEPT !.status = IF st.current < Len(st.plan) THEN "executing" ELSE @])
      BY <1>3, <2>5 DEF DecisionAgent, Decide
    <3>3. st.current \in Nat /\ Len(st.plan) \in Nat /\ st.current <= Len(st.plan)
      BY FormedParts
    <3>4. CASE st.current < Len(st.plan)
      <4>1. DecisionAgent(st) = MovedOn(st)
        BY <3>2, <3>4, FormedParts DEF Onward, MovedOn, Deciding
      <4> QED
        BY <1>3, <3>1, <3>4, <4>1 DEF Outcomes
    <3>5. CASE ~(st.current < Len(st.plan))
      <4>1. DecisionAgent(st) = Deciding(st, "validate_final_result")
        BY <3>2, <3>5, FormedParts, ZenonT(30) DEF Onward, MovedOn, Deciding
      <4> QED
        BY <1>3, <3>1, <3>3, <3>5, <4>1 DEF Outcomes
    <3> QED
      BY <3>4, <3>5
  <2>6. CASE fresh /\ ~validated
    <3>1. DecisionAgent(st) = DecideByStep(st)
      BY <1>3, <2>6 DEF DecisionAgent, Decide
    <3>2. Step(st) \in {"pending", "completed", "failed"}
      BY <1>1, <1>3 DEF StepStatuses, Flowing
    <3>3. CASE Step(st) = "pending"
      BY <1>1, <1>3, <2>6, <3>1, <3>3 DEF Outcomes, Deciding, DecideByStep, Assigned
    <3>4. CASE Step(st) = "completed" /\ Kind(st) # Clarify
      BY <1>3, <3>1, <3>4 DEF Outcomes, Deciding, DecideByStep
    <3>5. CASE Step(st) = "completed" /\ Kind(st) = Clarify
      <4>1. Len(st.plan) = 1 /\ st.current = 1
        <5>1. Clarify \notin Tools /\ Clarify \notin GitWrites
          BY DEF Clarify, Tools, GitWrites, Installs, Plain, Unsafe
        <5> QED
          BY <3>5, <5>1, FormedParts
      <4> QED
        BY <1>3, <3>1, <3>5, <4>1 DEF Outcomes, Deciding, DecideByStep, Onward
    <3>6. CASE Step(st) = "failed"
      BY <1>1, <1>3, <2>6, <3>1, <3>6 DEF Outcomes, Deciding, DecideByStep
    <3> QED
      BY <3>2, <3>3, <3>4, <3>5, <3>6
  <2> QED
    BY <2>1, <2>2, <2>3, <2>4, <2>5, <2>6
<1> QED
  BY <1>2, <1>3

(* What a node writes of a state; plan, approvals and lock stay.           *)
Rewritten(st, current, steps, status, decision, pending, succeeded, retries) ==
    [st EXCEPT !.current = current, !.steps = steps, !.status = status, !.decision = decision,
               !.pending = pending, !.succeeded = succeeded, !.retries = retries]

(* ... and what is then read in it. *)
Reads(n, st, current, steps, status, decision, pending, succeeded, retries) ==
    /\ n.plan = st.plan /\ n.current = current /\ n.steps = steps /\ n.status = status
    /\ n.decision = decision /\ n.pending = pending /\ n.succeeded = succeeded /\ n.retries = retries
    /\ n.approved = st.approved /\ n.in_progress = st.in_progress
    /\ Kind(n) = st.plan[current] /\ Step(n) = steps[current]

Statuses == Final \cup {"planning", "executing", "reflecting", "validated", "retrying", "requires_approval"}

LEMMA RewrittenParts ==
  ASSUME NEW st, Formed(st), NEW current \in DOMAIN st.plan, NEW steps \in [DOMAIN st.plan -> StepStatuses],
         NEW status \in Statuses, NEW decision \in Decisions, NEW pending \in Tools \cup {NoAction},
         NEW succeeded \in SUBSET Tools, NEW retries \in 0..MaxRetries,
         NEW n, n = Rewritten(st, current, steps, status, decision, pending, succeeded, retries)
  PROVE  Formed(n) /\ Reads(n, st, current, steps, status, decision, pending, succeeded, retries)
<1>1. /\ n.plan = st.plan /\ n.current = current /\ n.steps = steps /\ n.status = status
      /\ n.decision = decision /\ n.pending = pending /\ n.succeeded = succeeded
      /\ n.retries = retries /\ n.approved = st.approved /\ n.in_progress = st.in_progress
      /\ n.resolution = st.resolution
  BY FormedParts DEF Rewritten
<1>2. st.plan \in Plans /\ st.plan \in PlanShapes /\ current \in Nat
  BY FormedParts DEF Formed, States
<1>3. steps \in UNION {[DOMAIN p -> StepStatuses] : p \in Plans}
  BY <1>2
<1>4. n \in States
  BY <1>2, <1>3 DEF Formed, States, Statuses, Rewritten
<1>5. Formed(n)
  BY <1>1, <1>2, <1>4 DEF Formed
<1> QED
  BY <1>1, <1>5 DEF Reads, Kind, Step

(* One step of the plan gets another status. *)
Stepped(st, v) == [st.steps EXCEPT ![st.current] = v]

LEMMA StepWritten ==
  ASSUME NEW st, Formed(st), NEW v \in StepStatuses
  PROVE  /\ Stepped(st, v) \in [DOMAIN st.plan -> StepStatuses] /\ Stepped(st, v)[st.current] = v
         /\ \A i \in DOMAIN st.plan : i # st.current => Stepped(st, v)[i] = st.steps[i]
BY DEF Formed, Stepped

(* What is past stays so as long as the node leaves it alone. *)
LEMMA PastKept ==
  ASSUME NEW st, NEW calls, NEW given, Formed(st), Past(st, calls, given),
         NEW n, n.plan = st.plan, n.current = st.current, n.succeeded = st.succeeded, n.approved = st.approved,
         \A i \in DOMAIN st.plan : i # st.current => n.steps[i] = st.steps[i]
  PROVE  Past(n, calls, given)
<1>1. \A i \in DOMAIN st.plan : i > st.current => i # st.current
  BY FormedParts
<1> QED
  BY <1>1 DEF Past

(* A node that gives the step another status. *)
Noted(n, st, v, status, decision, pending, retries) ==
    /\ Kind(n) = Kind(st) /\ Step(n) = v /\ n.status = status /\ n.decision = decision
    /\ n.pending = pending /\ n.retries = retries
    /\ n.succeeded = st.succeeded /\ n.approved = st.approved /\ n.in_progress = st.in_progress

LEMMA NodeNotes ==
  ASSUME NEW st, NEW calls, NEW given, Formed(st), Past(st, calls, given),
         NEW v \in StepStatuses, NEW status \in Statuses, NEW decision \in Decisions,
         NEW pending \in Tools \cup {NoAction}, NEW retries \in 0..MaxRetries,
         NEW n, n = Rewritten(st, st.current, Stepped(st, v), status, decision, pending, st.succeeded, retries)
  PROVE  Formed(n) /\ Past(n, calls, given) /\ Noted(n, st, v, status, decision, pending, retries)
<1>1. /\ st.current \in DOMAIN st.plan /\ st.succeeded \in SUBSET Tools /\ Kind(st) = st.plan[st.current]
  BY FormedParts
<1>2. /\ Stepped(st, v) \in [DOMAIN st.plan -> StepStatuses] /\ Stepped(st, v)[st.current] = v
      /\ \A i \in DOMAIN st.plan : i # st.current => Stepped(st, v)[i] = st.steps[i]
  BY StepWritten
<1>3. /\ Formed(n)
      /\ Reads(n, st, st.current, Stepped(st, v), status, decision, pending, st.succeeded, retries)
  BY <1>1, <1>2, RewrittenParts
<1>4. Past(n, calls, given)
  BY <1>2, <1>3, PastKept DEF Reads
<1> QED
  BY <1>1, <1>2, <1>3, <1>4 DEF Noted, Reads

(* What is written is of its type. *)
LEMMA Words ==
  /\ {"pending", "completed", "failed", "blocked", "rejected"} \subseteq StepStatuses
  /\ {"completed", "failed", "rejected", "planning", "executing", "reflecting", "validated", "retrying",
      "requires_approval"} \subseteq Statuses
  /\ {"plan_created", "continue_workflow", "run_planner", "blocked_by_safety_agent", "approval_required",
      "execution_completed", "execution_failed", "retry_prepared", "validation_success", "validation_failed",
      "approval_rejected", "approval_resume_failed", "approval_processing_stale_recovered",
      "validate_final_result", "stop_safety_block", "stop_approval_required", "stop_non_retryable_failure",
      "stop_max_retries"} \subseteq Decisions
BY DEF StepStatuses, Statuses, Final, Decisions, StopStatus

(* The nodes that write the step, on the state that the decision leaves.   *)
LEMMA NodesWrite ==
  ASSUME NEW st, Formed(st), NEW decision, NEW d, d = Deciding(st, decision)
  PROVE  /\ Refused(d) = Rewritten(st, st.current, Stepped(st, "failed"), "failed", "blocked_by_safety_agent",
                                   Kind(st), st.succeeded, st.retries)
         /\ Blocked(d) = Rewritten(st, st.current, Stepped(st, "blocked"), "requires_approval",
                                   "approval_required", Kind(st), st.succeeded, st.retries)
         /\ Reflected(d) = Rewritten(st, st.current, Stepped(st, "pending"), "reflecting", "retry_prepared",
                                     st.pending, st.succeeded, st.retries + 1)
         /\ Kind(d) = Kind(st) /\ d.approved = st.approved
<1>1. Refused(d) = Rewritten(st, st.current, Stepped(st, "failed"), "failed", "blocked_by_safety_agent",
                             Kind(st), st.succeeded, st.retries)
  BY FormedParts DEF Refused, Announced, Kind, Rewritten, Stepped, Deciding
<1>2. Blocked(d) = Rewritten(st, st.current, Stepped(st, "blocked"), "requires_approval",
                             "approval_required", Kind(st), st.succeeded, st.retries)
  BY FormedParts DEF Blocked, Announced, Kind, Rewritten, Stepped, Deciding
<1>3. Reflected(d) = Rewritten(st, st.current, Stepped(st, "pending"), "reflecting", "retry_prepared",
                               st.pending, st.succeeded, st.retries + 1)
  BY FormedParts DEF Reflected, Rewritten, Stepped, Deciding
<1>4. Kind(d) = Kind(st) /\ d.approved = st.approved
  BY FormedParts DEF Deciding, Kind
<1> QED
  BY <1>1, <1>2, <1>3, <1>4

(* The safety agent refuses the step. *)
LEMMA RefusedFlows ==
  ASSUME NEW st, NEW calls, NEW given, Formed(st), Flowing(st, calls, given),
         DecisionAgent(st) = Deciding(st, "run_execution"), Kind(st) \in Unsafe,
         NEW n, n = Refused(DecisionAgent(st))
  PROVE  Formed(n) /\ Flowing(n, calls, given) /\ n.in_progress = st.in_progress
<1>1. n = Rewritten(st, st.current, Stepped(st, "failed"), "failed", "blocked_by_safety_agent", Kind(st),
                    st.succeeded, st.retries)
  BY NodesWrite
<1>2. Kind(st) \in Tools \cup {NoAction} /\ st.retries \in 0..MaxRetries
  BY FormedParts DEF Tools
<1>3. Past(st, calls, given)
  BY DEF Flowing, Account
<1>4. /\ Formed(n) /\ Past(n, calls, given)
      /\ Noted(n, st, "failed", "failed", "blocked_by_safety_agent", Kind(st), st.retries)
  BY <1>1, <1>2, <1>3, NodeNotes, Words
<1> QED
  BY <1>4 DEF Flowing, Account, Present, Noted, Unsafe, Clarify

(* The approval agent stops it. *)
LEMMA BlockedFlows ==
  ASSUME NEW st, NEW calls, NEW given, Formed(st), Flowing(st, calls, given),
         DecisionAgent(st) = Deciding(st, "run_execution"), Step(st) = "pending",
         Kind(st) # Clarify, ~MayRun(DecisionAgent(st)), calls \in [Tools -> Nat],
         NEW n, n = Blocked(DecisionAgent(st))
  PROVE  Formed(n) /\ Flowing(n, calls, given) /\ n.in_progress = st.in_progress
<1>1. n = Rewritten(st, st.current, Stepped(st, "blocked"), "requires_approval", "approval_required", Kind(st),
                    st.succeeded, st.retries)
  BY NodesWrite
<1>2. Kind(st) \in Tools /\ st.retries \in 0..MaxRetries
  BY FormedParts DEF Kinds
<1>3. Past(st, calls, given)
  BY DEF Flowing, Account
<1>4. /\ Formed(n) /\ Past(n, calls, given)
      /\ Noted(n, st, "blocked", "requires_approval", "approval_required", Kind(st), st.retries)
  BY <1>1, <1>2, <1>3, NodeNotes, Words
<1>5. Kind(DecisionAgent(st)) = Kind(st) /\ DecisionAgent(st).approved = st.approved
  BY NodesWrite
<1>6. NeedsApproval(Kind(st)) /\ Kind(st) \notin st.approved
  BY <1>5 DEF MayRun
<1>7. calls[Kind(st)] = 0
  BY <1>2, <1>3, <1>6 DEF Past
<1>8. Parked(n, calls, given)
  <2>1. 0 <= st.retries + 1
    BY <1>2, RetriesAssumption
  <2> QED
    BY <1>2, <1>4, <1>6, <1>7, <2>1 DEF Parked, Account, Present, Noted, Clarify
<1> QED
  BY <1>4, <1>8 DEF Flowing, Noted, Parked

(* A plan step of the planner itself. *)
LEMMA PlannerFlows ==
  ASSUME NEW st, NEW calls, NEW given, Formed(st), Flowing(st, calls, given),
         DecisionAgent(st) = Deciding(st, "run_planner"), Kind(st) = Clarify,
         st.status # "requires_approval",
         NEW n, n = complete_planner_step(DecisionAgent(st))
  PROVE  Formed(n) /\ Flowing(n, calls, given) /\ n.in_progress = st.in_progress
<1>1. n = Rewritten(st, st.current, Stepped(st, "completed"), st.status, "run_planner", st.pending,
                    st.succeeded, st.retries)
  BY FormedParts DEF complete_planner_step, Kind, Rewritten, Stepped, Deciding
<1>2. st.pending \in Tools \cup {NoAction} /\ st.retries \in 0..MaxRetries /\ st.status \in Statuses
  BY FormedParts DEF Formed, States, Statuses
<1>3. Past(st, calls, given)
  BY DEF Flowing, Account
<1>4. /\ Formed(n) /\ Past(n, calls, given)
      /\ Noted(n, st, "completed", st.status, "run_planner", st.pending, st.retries)
  BY <1>1, <1>2, <1>3, NodeNotes, Words
<1> QED
  BY <1>4 DEF Flowing, Account, Present, Noted

(* The validation agent finds the output that the step has left.           *)
LEMMA ValidatedFlows ==
  ASSUME NEW st, NEW calls, NEW given, Formed(st), Flowing(st, calls, given),
         DecisionAgent(st) = Deciding(st, "run_validation"), Step(st) = "completed", Kind(st) # Clarify,
         NEW n, n = Validated(DecisionAgent(st))
  PROVE  Formed(n) /\ Flowing(n, calls, given) /\ n.in_progress = st.in_progress
<1>1. Kind(st) \in st.succeeded
  BY DEF Flowing, Account, Present
<1>2. n = Rewritten(st, st.current, Stepped(st, "completed"), "validated", "validation_success", st.pending,
                    st.succeeded, st.retries)
  BY <1>1, FormedParts DEF Validated, Rewritten, Stepped, Deciding
<1>3. st.pending \in Tools \cup {NoAction} /\ st.retries \in 0..MaxRetries
  BY FormedParts DEF Formed, States
<1>4. Past(st, calls, given)
  BY DEF Flowing, Account
<1>5. /\ Formed(n) /\ Past(n, calls, given)
      /\ Noted(n, st, "completed", "validated", "validation_success", st.pending, st.retries)
  BY <1>2, <1>3, <1>4, NodeNotes, Words
<1> QED
  BY <1>1, <1>5 DEF Flowing, Account, Present, Noted

(* The reflection agent prepares a retry, which git writes never get.      *)
LEMMA ReflectedFlows ==
  ASSUME NEW st, NEW calls, NEW given, Formed(st), Flowing(st, calls, given),
         DecisionAgent(st) = Deciding(st, "reflect_and_retry"), Step(st) = "failed",
         Kind(st) \notin GitWrites, st.retries < MaxRetries,
         calls \in [Tools -> Nat], NEW n, n = Reflected(DecisionAgent(st))
  PROVE  Formed(n) /\ Flowing(n, calls, given) /\ n.in_progress = st.in_progress
<1>1. n = Rewritten(st, st.current, Stepped(st, "pending"), "reflecting", "retry_prepared", st.pending,
                    st.succeeded, st.retries + 1)
  BY NodesWrite
<1>2. st.pending \in Tools \cup {NoAction} /\ st.retries + 1 \in 0..MaxRetries
  BY FormedParts, RetriesAssumption DEF Formed, States
<1>3. Past(st, calls, given) /\ Kind(st) # Clarify
  BY DEF Flowing, Account, Present
<1>4. /\ Formed(n) /\ Past(n, calls, given)
      /\ Noted(n, st, "pending", "reflecting", "retry_prepared", st.pending, st.retries + 1)
  BY <1>1, <1>2, <1>3, NodeNotes, Words
<1>5. Kind(st) \in Tools /\ calls[Kind(st)] \in Nat /\ st.retries \in Nat
  BY <1>3, FormedParts, RetriesAssumption DEF Kinds
<1>6. calls[Kind(st)] <= st.retries + 1
  BY <1>3 DEF Flowing, Account, Present
<1>7. Present(n, calls)
  BY <1>3, <1>4, <1>5, <1>6 DEF Present, Noted
<1> QED
  BY <1>3, <1>4, <1>7 DEF Flowing, Account, Noted

(* The plan goes on, with a step that nobody tried.                        *)
LEMMA MovedOnFlows ==
  ASSUME NEW st, NEW calls, NEW given, Formed(st), Flowing(st, calls, given),
         Step(st) = "completed", st.current < Len(st.plan), calls \in [Tools -> Nat],
         NEW n, n = MovedOn(st)
  PROVE  Formed(n) /\ Flowing(n, calls, given) /\ n.in_progress = st.in_progress
<1>1. /\ st.current \in Nat /\ st.current + 1 \in DOMAIN st.plan /\ st.current \in DOMAIN st.plan
      /\ Len(st.plan) = 2 /\ DOMAIN st.plan = 1..2 /\ st.current = 1
  <2>1. st.current \in 1..Len(st.plan) /\ Len(st.plan) \in {1, 2} /\ DOMAIN st.plan = 1..Len(st.plan)
    BY FormedParts
  <2>2. Len(st.plan) = 2
    BY <2>1
  <2> QED
    BY <2>1, <2>2
<1>2. Kind(st) \in GitWrites /\ st.plan[st.current + 1] \in Tools
  BY <1>1, FormedParts
<1>3. /\ st.pending \in Tools \cup {NoAction} /\ st.retries \in 0..MaxRetries /\ st.succeeded \in SUBSET Tools
      /\ st.steps \in [DOMAIN st.plan -> StepStatuses]
  BY FormedParts DEF Formed, States
<1>4. n = Rewritten(st, st.current + 1, st.steps, "executing", "continue_workflow", st.pending, st.succeeded,
                    st.retries)
  BY FormedParts DEF MovedOn, Rewritten
<1>5. /\ Formed(n)
      /\ Reads(n, st, st.current + 1, st.steps, "executing", "continue_workflow", st.pending, st.succeeded,
               st.retries)
  BY <1>1, <1>3, <1>4, RewrittenParts, Words
<1>6. Past(st, calls, given)
  BY DEF Flowing, Account
<1>7. Kind(st) \in st.succeeded /\ Kind(st) = st.plan[st.current]
  BY <1>2, FormedParts DEF Flowing, Account, Present, Clarify, GitWrites
<1>8. st.steps[st.current + 1] = "pending"
  BY <1>1, <1>6 DEF Past
<1>9. calls[st.plan[st.current + 1]] = 0
  <2>1. st.plan[st.current + 1] \in Tools
    BY <1>2 DEF Tools
  <2>2. \A i \in DOMAIN st.plan : i <= st.current => st.plan[i] # st.plan[st.current + 1]
    BY <1>1, FormedParts
  <2> QED
    BY <1>6, <2>1, <2>2 DEF Past
<1>10. Past(n, calls, given)
  <2>1. /\ n.plan = st.plan /\ n.current = st.current + 1 /\ n.steps = st.steps
        /\ n.succeeded = st.succeeded /\ n.approved = st.approved
    BY <1>5 DEF Reads
  <2>2. \A i \in DOMAIN st.plan : i < st.current + 1 => i = st.current \/ i < st.current
    BY <1>1
  <2>3. \A i \in DOMAIN st.plan : i > st.current + 1 => i > st.current
    BY <1>1
  <2>4. \A i \in DOMAIN st.plan : i <= st.current => i <= st.current + 1
    BY <1>1
  <2>5. \A i \in DOMAIN n.plan : i < n.current /\ n.plan[i] # Clarify => n.plan[i] \in n.succeeded
    BY <1>6, <1>7, <2>1, <2>2 DEF Past
  <2>6. \A k \in Tools : calls[k] > 0 => \E i \in DOMAIN n.plan : i <= n.current /\ n.plan[i] = k
    BY <1>6, <2>1, <2>4 DEF Past
  <2> QED
    BY <1>6, <2>1, <2>3, <2>5, <2>6 DEF Past
<1>11. Present(n, calls)
  <2>1. /\ Kind(n) = st.plan[st.current + 1] /\ Step(n) = "pending" /\ Kind(n) \in Tools
        /\ calls[Kind(n)] = 0 /\ n.retries \in Nat
    BY <1>2, <1>3, <1>5, <1>8, <1>9, RetriesAssumption DEF Reads
  <2>2. Kind(n) # Clarify
    BY <2>1 DEF Tools, GitWrites, Installs, Plain, Unsafe, Clarify
  <2> QED
    BY <2>1, <2>2 DEF Present
<1> QED
  BY <1>5, <1>8, <1>10, <1>11 DEF Flowing, Account, Reads

(* What the execution node writes when the tool has returned. *)
LEMMA ToolWrites ==
  ASSUME NEW st, Formed(st), NEW decision, NEW d, d = Deciding(st, decision)
  PROVE  /\ Executed(d, TRUE) = Rewritten(st, st.current, Stepped(st, "completed"), "executing",
                                          "execution_completed", Kind(st), st.succeeded \cup {Kind(st)},
                                          st.retries)
         /\ Executed(d, FALSE) = Rewritten(st, st.current, Stepped(st, "failed"), "failed", "execution_failed",
                                           Kind(st), st.succeeded, st.retries)
<1>1. Executed(d, TRUE) = Rewritten(st, st.current, Stepped(st, "completed"), "executing",
                                    "execution_completed", Kind(st), st.succeeded \cup {Kind(st)}, st.retries)
  BY FormedParts DEF Executed, Announced, Kind, Rewritten, Stepped, Deciding
<1>2. Executed(d, FALSE) = Rewritten(st, st.current, Stepped(st, "failed"), "failed", "execution_failed",
                                     Kind(st), st.succeeded, st.retries)
  BY FormedParts DEF Executed, Announced, Kind, Rewritten, Stepped, Deciding
<1> QED
  BY <1>1, <1>2

(* One more call of a tool. *)
Called(calls, k) == [calls EXCEPT ![k] = IF @ > MaxRetries THEN @ ELSE @ + 1]

(* The tool is called: only for a step that is pending, so as often as it  *)
(* may be, and only with its approval.                                     *)
LEMMA ExecutedFlows ==
  ASSUME NEW st, NEW calls, NEW given, Formed(st), Flowing(st, calls, given),
         DecisionAgent(st) = Deciding(st, "run_execution"), Step(st) = "pending",
         Kind(st) # Clarify, MayRun(DecisionAgent(st)), st.retries < MaxRetries,
         calls \in [Tools -> Nat], NEW ok \in BOOLEAN,
         NEW n, n = Executed(DecisionAgent(st), ok),
         NEW after, after = Called(calls, Kind(st))
  PROVE  /\ Formed(n) /\ Flowing(n, after, given) /\ n.in_progress = st.in_progress
         /\ NeedsApproval(Kind(st)) => given[Kind(st)] > 0
         /\ after[Kind(st)] \in Nat /\ after[Kind(st)] <= IF Kind(st) \in GitWrites THEN 1 ELSE MaxRetries
         /\ \A k \in Tools \ {Kind(st)} : after[k] = calls[k]
<1>1. Kind(DecisionAgent(st)) = Kind(st) /\ DecisionAgent(st).approved = st.approved
  BY NodesWrite
<1>2. /\ Kind(st) \in Tools /\ st.retries \in Nat /\ st.succeeded \in SUBSET Tools
      /\ MaxRetries \in Nat \ {0} /\ st.retries \in 0..MaxRetries
      /\ st.current \in DOMAIN st.plan /\ Kind(st) = st.plan[st.current] /\ st.current \in Nat
  BY FormedParts, RetriesAssumption DEF Kinds
<1>3. Past(st, calls, given) /\ Present(st, calls)
  BY DEF Flowing, Account
<1>4. calls[Kind(st)] <= IF Kind(st) \in GitWrites THEN 0 ELSE st.retries
  BY <1>3 DEF Present
<1>5. calls[Kind(st)] \in Nat /\ calls[Kind(st)] < MaxRetries
  BY <1>2, <1>4
<1>6. /\ after[Kind(st)] = calls[Kind(st)] + 1
      /\ \A k \in Tools \ {Kind(st)} : after[k] = calls[k]
  BY <1>2, <1>5 DEF Called
<1>7. NeedsApproval(Kind(st)) => Kind(st) \in st.approved
  BY <1>1 DEF MayRun
<1>8. /\ after[Kind(st)] <= IF Kind(st) \in GitWrites THEN 1 ELSE st.retries + 1
      /\ after[Kind(st)] \in Nat /\ after[Kind(st)] > 0
  BY <1>2, <1>4, <1>5, <1>6
<1>9. Past(st, after, given)
  <2>1. \A k \in Tools : after[k] > 0 => \E i \in DOMAIN st.plan : i <= st.current /\ st.plan[i] = k
    BY <1>2, <1>3, <1>6 DEF Past
  <2>2. \A k \in Tools : calls[k] > 0 => after[k] > 0
    BY <1>6, <1>8
  <2>3. \A k \in st.succeeded : after[k] > 0
    BY <1>2, <1>3, <2>2 DEF Past
  <2>4. \A k \in Tools : after[k] > 0 /\ NeedsApproval(k) => k \in st.approved
    BY <1>3, <1>6, <1>7 DEF Past
  <2> QED
    BY <1>3, <2>1, <2>3, <2>4 DEF Past
<1>12. /\ NeedsApproval(Kind(st)) => given[Kind(st)] > 0
       /\ after[Kind(st)] \in Nat /\ after[Kind(st)] <= IF Kind(st) \in GitWrites THEN 1 ELSE MaxRetries
  <2>1. NeedsApproval(Kind(st)) => given[Kind(st)] > 0
    BY <1>3, <1>7 DEF Past
  <2> QED
    BY <1>2, <1>8, <2>1
<1>10. CASE ok
  <2>1. n = Rewritten(st, st.current, Stepped(st, "completed"), "executing", "execution_completed", Kind(st),
                      st.succeeded \cup {Kind(st)}, st.retries)
    BY <1>10, ToolWrites
  <2>2. /\ Stepped(st, "completed") \in [DOMAIN st.plan -> StepStatuses]
        /\ Stepped(st, "completed")[st.current] = "completed"
        /\ \A i \in DOMAIN st.plan : i # st.current => Stepped(st, "completed")[i] = st.steps[i]
    BY StepWritten, Words
  <2>3. /\ Formed(n)
        /\ Reads(n, st, st.current, Stepped(st, "completed"), "executing", "execution_completed", Kind(st),
                 st.succeeded \cup {Kind(st)}, st.retries)
    <3>1. st.succeeded \cup {Kind(st)} \in SUBSET Tools /\ Kind(st) \in Tools \cup {NoAction}
      BY <1>2
    <3> QED
      BY <1>2, <2>1, <2>2, <3>1, RewrittenParts, Words
  <2>4. Past(n, after, given)
    <3>1. /\ n.plan = st.plan /\ n.current = st.current /\ n.steps = Stepped(st, "completed")
          /\ n.succeeded = st.succeeded \cup {Kind(st)} /\ n.approved = st.approved
      BY <2>3 DEF Reads
    <3>2. \A i \in DOMAIN st.plan : i > st.current => i # st.current
      BY FormedParts
    <3>3. \A i \in DOMAIN n.plan : i > n.current => n.steps[i] = "pending"
      BY <1>9, <2>2, <3>1, <3>2 DEF Past
    <3> QED
      BY <1>8, <1>9, <3>1, <3>3 DEF Past
  <2>5. /\ Kind(n) = Kind(st) /\ Step(n) = "completed" /\ Kind(n) \in n.succeeded /\ n.retries = st.retries
        /\ n.status = "executing" /\ n.decision = "execution_completed" /\ n.in_progress = st.in_progress
    BY <1>2, <2>2, <2>3 DEF Reads
  <2>6. Present(n, after)
    BY <1>8, <2>5 DEF Present
  <2>7. Flowing(n, after, given)
    BY <2>4, <2>5, <2>6 DEF Flowing, Account
  <2> QED
    BY <1>6, <1>12, <2>3, <2>5, <2>7
<1>11. CASE ~ok
  <2>1. n = Rewritten(st, st.current, Stepped(st, "failed"), "failed", "execution_failed", Kind(st),
                      st.succeeded, st.retries)
    BY <1>11, ToolWrites
  <2>2. /\ Formed(n) /\ Past(n, after, given)
        /\ Noted(n, st, "failed", "failed", "execution_failed", Kind(st), st.retries)
    BY <1>2, <1>9, <2>1, NodeNotes, Words
  <2>3. Present(n, after)
    BY <1>8, <2>2 DEF Present, Noted
  <2>4. Flowing(n, after, given) /\ n.in_progress = st.in_progress
    BY <2>2, <2>3 DEF Flowing, Account, Noted
  <2> QED
    BY <1>6, <1>12, <2>2, <2>4
<1> QED
  BY <1>10, <1>11

(* What each terminal node writes of the status. *)
Ending(st, steps, status, decision) ==
    Rewritten(st, st.current, steps, status, decision, st.pending, st.succeeded, st.retries)

LEMMA StopWrites ==
  ASSUME NEW st, Formed(st)
  PROVE  /\ Stopped(Deciding(st, "stop_approval_required"))
                = Ending(st, st.steps, "requires_approval", "stop_approval_required")
         /\ Stopped(Deciding(st, "validate_final_result"))
                = Ending(st, st.steps, "completed", "validate_final_result")
         /\ Stopped(Failing(st, "stop_safety_block")) = Ending(st, st.steps, "failed", "stop_safety_block")
         /\ Stopped(Failing(st, "stop_non_retryable_failure"))
                = Ending(st, st.steps, "failed", "stop_non_retryable_failure")
         /\ Stopped(Exhausted(st)) = Ending(st, Stepped(st, "failed"), "failed", "stop_max_retries")
<1>1. Stopped(Deciding(st, "stop_approval_required"))
        = Ending(st, st.steps, "requires_approval", "stop_approval_required")
  BY FormedParts DEF Stopped, StopStatus, Deciding, Ending, Rewritten
<1>2. Stopped(Deciding(st, "validate_final_result"))
        = Ending(st, st.steps, "completed", "validate_final_result")
  BY FormedParts DEF Stopped, StopStatus, Deciding, Ending, Rewritten
<1>3. Stopped(Failing(st, "stop_safety_block")) = Ending(st, st.steps, "failed", "stop_safety_block")
  BY FormedParts DEF Stopped, StopStatus, Failing, Ending, Rewritten
<1>4. Stopped(Failing(st, "stop_non_retryable_failure"))
        = Ending(st, st.steps, "failed", "stop_non_retryable_failure")
  BY FormedParts DEF Stopped, StopStatus, Failing, Ending, Rewritten
<1>5. Stopped(Exhausted(st)) = Ending(st, Stepped(st, "failed"), "failed", "stop_max_retries")
  BY FormedParts DEF Stopped, StopStatus, Exhausted, Ending, Rewritten, Stepped
<1> QED
  BY <1>1, <1>2, <1>3, <1>4, <1>5

LEMMA EndingParts ==
  ASSUME NEW st, Formed(st), NEW steps \in [DOMAIN st.plan -> StepStatuses],
         NEW status \in Statuses, NEW decision \in Decisions, NEW n, n = Ending(st, steps, status, decision)
  PROVE  /\ Formed(n) /\ n.in_progress = st.in_progress /\ n.status = status /\ n.plan = st.plan
         /\ n.steps = steps /\ n.current = st.current /\ n.succeeded = st.succeeded
         /\ n.approved = st.approved /\ n.pending = st.pending /\ n.retries = st.retries
         /\ Kind(n) = Kind(st) /\ Step(n) = steps[st.current]
<1>1. /\ st.current \in DOMAIN st.plan /\ st.pending \in Tools \cup {NoAction}
      /\ st.succeeded \in SUBSET Tools /\ st.retries \in 0..MaxRetries /\ Kind(st) = st.plan[st.current]
  BY FormedParts DEF Formed, States
<1>2. Formed(n) /\ Reads(n, st, st.current, steps, status, decision, st.pending, st.succeeded, st.retries)
  BY <1>1, RewrittenParts DEF Ending
<1> QED
  BY <1>1, <1>2 DEF Reads

(* At the end of the graph a workflow has failed, waits with a true        *)
(* account of its calls, or has done all that was planned.                 *)
LEMMA StoppedConcludes ==
  ASSUME NEW st, NEW calls, NEW given, Formed(st), Flowing(st, calls, given),
         DecisionAgent(st).decision \in DOMAIN StopStatus,
         NEW n, n = Stopped(DecisionAgent(st))
  PROVE  Formed(n) /\ Concluded(n, calls, given) /\ n.in_progress = st.in_progress
<1>0. Outcomes(st, calls, given)
  BY DecisionOutcomes
<1>1. st.steps \in [DOMAIN st.plan -> StepStatuses] /\ Stepped(st, "failed") \in [DOMAIN st.plan -> StepStatuses]
  BY StepWritten, Words DEF Formed
<1>2. Step(st) = st.steps[st.current] /\ st.current \in DOMAIN st.plan
  BY FormedParts
<1> DEFINE decisions == {"stop_approval_required", "validate_final_result", "stop_safety_block",
                         "stop_non_retryable_failure", "stop_max_retries"}
<1>3. {"requires_approval", "completed", "failed"} \subseteq Statuses /\ decisions \subseteq Decisions
  BY Words
<1>4. CASE DecisionAgent(st) = Deciding(st, "stop_approval_required") /\ Parked(st, calls, given)
  <2>1. n = Ending(st, st.steps, "requires_approval", "stop_approval_required")
    BY <1>4, StopWrites
  <2>2. /\ Formed(n) /\ n.in_progress = st.in_progress /\ n.status = "requires_approval" /\ n.plan = st.plan
        /\ n.steps = st.steps /\ n.current = st.current /\ n.succeeded = st.succeeded
        /\ n.approved = st.approved /\ n.pending = st.pending /\ n.retries = st.retries
        /\ Kind(n) = Kind(st) /\ Step(n) = Step(st)
    BY <1>1, <1>2, <1>3, <2>1, EndingParts
  <2>3. Past(n, calls, given) /\ Present(n, calls)
    BY <1>4, <2>2 DEF Parked, Account, Past, Present
  <2>4. Parked(n, calls, given)
    BY <1>4, <2>2, <2>3 DEF Parked, Account
  <2> QED
    BY <2>2, <2>4 DEF Concluded
<1>5. CASE /\ DecisionAgent(st) = Deciding(st, "validate_final_result")
           /\ Step(st) = "completed" /\ st.current = Len(st.plan)
  <2>1. n = Ending(st, st.steps, "completed", "validate_final_result")
    BY <1>5, StopWrites
  <2>2. Formed(n) /\ n.in_progress = st.in_progress /\ n.status = "completed" /\ n.plan = st.plan
        /\ n.succeeded = st.succeeded
    <3>1. "completed" \in Statuses /\ "validate_final_result" \in Decisions
      BY <1>3
    <3> QED
      BY <1>1, <2>1, <3>1, EndingParts
  <2>3. Past(st, calls, given) /\ Present(st, calls)
    BY DEF Flowing, Account
  <2>4. \A i \in DOMAIN st.plan : i = st.current \/ i < st.current
    BY <1>5, FormedParts
  <2>5. \A i \in DOMAIN st.plan : st.plan[i] # Clarify => st.plan[i] \in st.succeeded
    BY <1>5, <2>3, <2>4, FormedParts DEF Past, Present
  <2>6. Done(st, calls)
    BY <2>3, <2>5 DEF Done, Past
  <2> QED
    BY <2>2, <2>6 DEF Concluded, Done
<1>6. CASE \/ DecisionAgent(st) = Failing(st, "stop_safety_block")
           \/ DecisionAgent(st) = Failing(st, "stop_non_retryable_failure")
           \/ DecisionAgent(st) = Exhausted(st)
  <2>1. PICK steps \in [DOMAIN st.plan -> StepStatuses], decision \in decisions :
            n = Ending(st, steps, "failed", decision)
    BY <1>1, <1>6, StopWrites
  <2>2. Formed(n) /\ n.in_progress = st.in_progress /\ n.status = "failed"
    BY <1>3, <2>1, EndingParts
  <2> QED
    BY <2>2 DEF Concluded
<1>7. /\ Deciding(st, "run_execution").decision = "run_execution"
      /\ Deciding(st, "run_planner").decision = "run_planner"
      /\ Deciding(st, "run_validation").decision = "run_validation"
      /\ Deciding(st, "reflect_and_retry").decision = "reflect_and_retry"
      /\ MovedOn(st).decision = "continue_workflow"
  BY FormedParts DEF Deciding, MovedOn
<1>8. {"run_execution", "run_planner", "run_validation", "reflect_and_retry", "continue_workflow"}
        \cap DOMAIN StopStatus = {}
  BY DEF StopStatus
<1> QED
  BY <1>0, <1>4, <1>5, <1>6, <1>7, <1>8 DEF Outcomes

-----------------------------------------------------------------------------
(* The routes *)

(* The planner's state: nothing was tried yet. *)
LEMMA PlannedFlows ==
  ASSUME NEW plan \in Plans, plan \in PlanShapes, NEW calls, \A k \in Tools : calls[k] = 0,
         NEW given, NEW n, n = Planned(plan)
  PROVE  Formed(n) /\ Flowing(n, calls, given) /\ n.in_progress = FALSE
<1>1. /\ n.plan = plan /\ n.current = 1 /\ n.status = "planning" /\ n.decision = "plan_created"
      /\ n.steps = [i \in DOMAIN plan |-> "pending"] /\ n.retries = 0
      /\ n.succeeded = {} /\ n.approved = {} /\ n.in_progress = FALSE
  BY DEF Planned
<1>2. n.steps \in [DOMAIN plan -> StepStatuses] /\ 1 \in DOMAIN plan /\ plan[1] \in Kinds
  <2>1. [i \in DOMAIN plan |-> "pending"] \in [DOMAIN plan -> StepStatuses]
    BY Words
  <2> QED
    BY <1>1, <2>1, ShapeOfPlans
<1>3. n \in States
  <2>1. n.steps \in UNION {[DOMAIN p -> StepStatuses] : p \in Plans}
    BY <1>2
  <2>2. n.steps = [i \in DOMAIN plan |-> "pending"]
    BY <1>1
  <2>3. "plan_created" \in Decisions /\ 0 \in 0..MaxRetries
    BY Words, RetriesAssumption
  <2> QED
    BY <2>1, <2>2, <2>3 DEF States, Planned
<1>4. Formed(n)
  BY <1>1, <1>2, <1>3 DEF Formed
<1>5. Kind(n) = plan[1] /\ Step(n) = "pending"
  BY <1>1, <1>2 DEF Kind, Step
<1>6. Past(n, calls, given)
  <2>1. \A i \in DOMAIN plan : ~(i < 1)
    BY ShapeOfPlans
  <2> QED
    BY <1>1, <2>1 DEF Past
<1>7. Present(n, calls)
  <2>1. Kind(n) # Clarify => calls[Kind(n)] = 0
    BY <1>2, <1>5 DEF Kinds
  <2> QED
    BY <1>1, <1>5, <2>1 DEF Present
<1> QED
  BY <1>1, <1>4, <1>5, <1>6, <1>7 DEF Flowing, Account

(* What a route writes of a record; the work that was done stays.          *)
Filed(st, steps, status, decision, approved, in_progress, resolution) ==
    [st EXCEPT !.steps = steps, !.status = status, !.decision = decision, !.approved = approved,
               !.in_progress = in_progress, !.resolution = resolution]

Resolutions == {"none", "approved", "rejected", "approved_but_resume_failed", "stale_processing_recovered"}

LEMMA FiledParts ==
  ASSUME NEW st, Formed(st), NEW steps \in [DOMAIN st.plan -> StepStatuses], NEW status \in Statuses,
         NEW decision \in Decisions, NEW approved \in SUBSET Tools, NEW in_progress \in BOOLEAN,
         NEW resolution \in Resolutions,
         NEW n, n = Filed(st, steps, status, decision, approved, in_progress, resolution)
  PROVE  /\ Formed(n) /\ n.plan = st.plan /\ n.current = st.current /\ n.steps = steps
         /\ n.status = status /\ n.decision = decision /\ n.approved = approved
         /\ n.in_progress = in_progress /\ n.succeeded = st.succeeded /\ n.pending = st.pending
         /\ n.retries = st.retries /\ Kind(n) = Kind(st) /\ Step(n) = steps[st.current]
<1>1. /\ n.plan = st.plan /\ n.current = st.current /\ n.steps = steps
      /\ n.status = status /\ n.decision = decision /\ n.approved = approved
      /\ n.in_progress = in_progress /\ n.succeeded = st.succeeded /\ n.pending = st.pending
      /\ n.retries = st.retries
  BY FormedParts DEF Filed
<1>2. st.plan \in Plans /\ st.plan \in PlanShapes /\ st.current \in Nat
  BY FormedParts DEF Formed, States
<1>3. steps \in UNION {[DOMAIN p -> StepStatuses] : p \in Plans}
  BY <1>2
<1>4. n \in States
  BY <1>2, <1>3 DEF Formed, States, Statuses, Resolutions, Filed
<1> QED
  BY <1>1, <1>2, <1>4 DEF Formed, Kind, Step

(* The routes' writes. *)
Released(st) == [st EXCEPT !.in_progress = FALSE]
Ended(st) == [st.steps EXCEPT ![st.current] = IF @ \in {"blocked", "pending"} THEN "failed" ELSE @]

LEMMA RoutesWrite ==
  ASSUME NEW st, Formed(st)
  PROVE  /\ Recovered(st)
                = Filed(st, Ended(st), "failed", "approval_processing_stale_recovered", st.approved, FALSE,
                        "stale_processing_recovered")
         /\ Rejected(st) = Filed(st, Stepped(st, "rejected"), "rejected", "approval_rejected", st.approved,
                                 st.in_progress, "rejected")
         /\ \A verdict \in {"approved", "rejected"} :
                Processing(st, verdict) = Filed(st, st.steps, st.status, st.decision, st.approved, TRUE, verdict)
         /\ Released(st)
                = Filed(st, st.steps, st.status, st.decision, st.approved, FALSE, st.resolution)
         /\ Resumable(st) = Filed(st, Stepped(st, "pending"), "retrying", "retry_prepared",
                                  st.approved \cup {st.pending}, st.in_progress, st.resolution)
<1>1. Recovered(st)
        = Filed(st, Ended(st), "failed", "approval_processing_stale_recovered", st.approved, FALSE, "stale_processing_recovered")
  BY FormedParts DEF Recovered, Filed, Ended
<1>2. Rejected(st) = Filed(st, Stepped(st, "rejected"), "rejected", "approval_rejected", st.approved,
                           st.in_progress, "rejected")
  BY FormedParts DEF Rejected, Filed, Stepped
<1>3. ASSUME NEW verdict \in {"approved", "rejected"}
      PROVE  Processing(st, verdict) = Filed(st, st.steps, st.status, st.decision, st.approved, TRUE, verdict)
  BY FormedParts DEF Processing, Filed
<1>4. Released(st) = Filed(st, st.steps, st.status, st.decision, st.approved, FALSE, st.resolution)
  BY FormedParts DEF Released, Filed
<1>5. Resumable(st) = Filed(st, Stepped(st, "pending"), "retrying", "retry_prepared",
                            st.approved \cup {st.pending}, st.in_progress, st.resolution)
  BY FormedParts DEF Resumable, Filed, Stepped
<1> QED
  BY <1>1, <1>2, <1>3, <1>4, <1>5

(* A request that was interrupted is recovered as failed. *)
LEMMA RecoveredRests ==
  ASSUME NEW st, Formed(st), NEW n, n = Recovered(st)
  PROVE  Formed(n) /\ n.status = "failed" /\ n.in_progress = FALSE
<1>1. Ended(st) \in [DOMAIN st.plan -> StepStatuses]
  BY Words DEF Formed, Ended
<1>2. PICK b \in BOOLEAN : b = FALSE
            /\ n = Filed(st, Ended(st), "failed", "approval_processing_stale_recovered", st.approved, b,
                         "stale_processing_recovered")
  BY RoutesWrite
<1>3. /\ "failed" \in Statuses /\ "approval_processing_stale_recovered" \in Decisions
      /\ st.approved \in SUBSET Tools /\ "stale_processing_recovered" \in Resolutions
  BY Words, FormedParts DEF Resolutions
<1> QED
  BY <1>1, <1>2, <1>3, FiledParts

LEMMA RejectedRests ==
  ASSUME NEW st, Formed(st), st.in_progress = FALSE, NEW n, n = Rejected(st)
  PROVE  Formed(n) /\ n.status = "rejected" /\ n.in_progress = FALSE
<1>1. Stepped(st, "rejected") \in [DOMAIN st.plan -> StepStatuses]
  BY Words, StepWritten
<1>2. PICK b \in BOOLEAN : b = FALSE
            /\ n = Filed(st, Stepped(st, "rejected"), "rejected", "approval_rejected", st.approved, b, "rejected")
  BY RoutesWrite
<1>3. /\ "rejected" \in Statuses /\ "approval_rejected" \in Decisions
      /\ st.approved \in SUBSET Tools /\ "rejected" \in Resolutions
  BY Words, FormedParts DEF Resolutions
<1> QED
  BY <1>1, <1>2, <1>3, FiledParts

(* What the file holds while an approval is resumed or a rejection cleans up. *)
LEMMA ProcessingRests ==
  ASSUME NEW st, Formed(st), st.status = "requires_approval", NEW verdict \in {"approved", "rejected"},
         NEW calls, NEW given, NEW n, n = Processing(st, verdict)
  PROVE  /\ Formed(n) /\ Rests(n, calls, given) /\ n.in_progress = TRUE /\ n.status = "requires_approval"
         /\ n.plan = st.plan /\ n.steps = st.steps /\ n.current = st.current /\ n.succeeded = st.succeeded
         /\ n.approved = st.approved /\ n.pending = st.pending /\ n.retries = st.retries
<1>1. /\ st.steps \in [DOMAIN st.plan -> StepStatuses] /\ st.decision \in Decisions
      /\ st.approved \in SUBSET Tools /\ verdict \in Resolutions /\ st.status \in Statuses
  BY FormedParts DEF Resolutions, Formed, States, Statuses
<1>2. PICK b \in BOOLEAN : b # FALSE /\ n = Filed(st, st.steps, st.status, st.decision, st.approved, b, verdict)
  BY RoutesWrite
<1>3. /\ Formed(n) /\ n.in_progress = b /\ n.status = st.status
      /\ n.plan = st.plan /\ n.steps = st.steps /\ n.current = st.current /\ n.succeeded = st.succeeded
      /\ n.approved = st.approved /\ n.pending = st.pending /\ n.retries = st.retries
  BY <1>1, <1>2, FiledParts
<1> QED
  BY <1>2, <1>3 DEF Rests

(* The graph has ended with a resumed workflow. *)
LEMMA EndedRests ==
  ASSUME NEW st, NEW calls, NEW given, Formed(st), Concluded(st, calls, given),
         NEW n, n = Released(st)
  PROVE  Formed(n) /\ Rests(n, calls, given) /\ n.in_progress = FALSE /\ n.status = st.status
<1>1. /\ st.steps \in [DOMAIN st.plan -> StepStatuses] /\ st.decision \in Decisions
      /\ st.approved \in SUBSET Tools /\ st.resolution \in Resolutions /\ st.status \in Statuses
      /\ Step(st) = st.steps[st.current]
  BY FormedParts DEF Resolutions, Formed, States, Statuses
<1>2. PICK b \in BOOLEAN :
            b = FALSE /\ n = Filed(st, st.steps, st.status, st.decision, st.approved, b, st.resolution)
  BY RoutesWrite
<1>3. /\ Formed(n) /\ n.in_progress = FALSE /\ n.status = st.status
      /\ n.plan = st.plan /\ n.steps = st.steps /\ n.current = st.current /\ n.succeeded = st.succeeded
      /\ n.approved = st.approved /\ n.pending = st.pending /\ n.retries = st.retries
      /\ Kind(n) = Kind(st) /\ Step(n) = Step(st)
  BY <1>1, <1>2, FiledParts
<1>4. Done(st, calls) => Done(n, calls)
  BY <1>3 DEF Done
<1>5. Parked(st, calls, given) => Parked(n, calls, given)
  BY <1>3 DEF Parked, Account, Past, Present
<1> QED
  BY <1>3, <1>4, <1>5 DEF Concluded, Rests

(* One more approval of an action. *)
Granted(given, k) == [given EXCEPT ![k] = @ + 1]

(* An approval puts the workflow back into the graph with its step to run, *)
(* which was never tried, and with the approval of that very action.       *)
Resumed(n, calls, given, k) ==
    /\ Formed(n) /\ Flowing(n, calls, Granted(given, k)) /\ Rests(n, calls, given)
    /\ n.in_progress = TRUE /\ n.status = "retrying"

LEMMA ResumedFlows ==
  ASSUME NEW st, NEW calls, NEW given \in [Tools -> Nat], Formed(st), Parked(st, calls, given),
         st.status = "requires_approval", NEW m, m = Processing(st, "approved"), NEW n, n = Resumable(m)
  PROVE  Resumed(n, calls, given, st.pending) /\ Formed(m)
<1>1. /\ Formed(m) /\ m.in_progress = TRUE /\ m.plan = st.plan /\ m.steps = st.steps /\ m.current = st.current
      /\ m.succeeded = st.succeeded /\ m.approved = st.approved /\ m.pending = st.pending /\ m.retries = st.retries
  BY ProcessingRests, ZenonT(30)
<1>2. /\ Kind(st) \in Tools /\ st.pending = Kind(st) /\ st.retries \in 0..MaxRetries
      /\ st.current \in DOMAIN st.plan /\ Kind(st) # Clarify
      /\ Kind(m) = Kind(st) /\ Kind(st) = st.plan[st.current] /\ st.succeeded \subseteq Tools
  BY <1>1, FormedParts DEF Parked, NeedsApproval, Tools, Clarify, GitWrites, Installs, Kind
<1>3. /\ Stepped(m, "pending") \in [DOMAIN m.plan -> StepStatuses] /\ Stepped(m, "pending")[m.current] = "pending"
      /\ \A i \in DOMAIN m.plan : i # m.current => Stepped(m, "pending")[i] = m.steps[i]
  BY <1>1, StepWritten, Words
<1>4. /\ m.approved \cup {m.pending} \in SUBSET Tools /\ m.resolution \in Resolutions
      /\ "retrying" \in Statuses /\ "retry_prepared" \in Decisions
  BY <1>1, <1>2, Words, FormedParts DEF Formed, States, Resolutions
<1>5. PICK b \in BOOLEAN : b # FALSE
            /\ n = Filed(m, Stepped(m, "pending"), "retrying", "retry_prepared", m.approved \cup {m.pending}, b,
                         m.resolution)
  BY <1>1, RoutesWrite
<1>6. /\ Formed(n) /\ n.plan = m.plan /\ n.current = m.current /\ n.steps = Stepped(m, "pending")
      /\ n.status = "retrying" /\ n.decision = "retry_prepared" /\ n.approved = m.approved \cup {m.pending}
      /\ n.in_progress = b /\ n.succeeded = m.succeeded /\ n.retries = m.retries
      /\ Kind(n) = Kind(m) /\ Step(n) = "pending"
  BY <1>1, <1>3, <1>4, <1>5, FiledParts
<1>7. Past(n, calls, Granted(given, st.pending))
  <2>1. Past(st, calls, given)
    BY DEF Parked, Account
  <2>2. \A k \in n.approved : Granted(given, st.pending)[k] > 0
    <3>1. st.approved \subseteq Tools
      BY FormedParts
    <3> QED
      BY <1>1, <1>2, <1>6, <2>1, <3>1 DEF Past, Granted
  <2>3. \A i \in DOMAIN n.plan : i > n.current => n.steps[i] = "pending"
    <3>1. \A i \in DOMAIN st.plan : i > st.current => i # st.current
      BY FormedParts
    <3> QED
      BY <1>1, <1>3, <1>6, <2>1, <3>1 DEF Past
  <2> QED
    BY <1>1, <1>6, <2>1, <2>2, <2>3 DEF Past
<1>8. Present(n, calls)
  BY <1>1, <1>2, <1>6, RetriesAssumption DEF Present, Parked
<1>9. Rests(n, calls, given) /\ n.in_progress = TRUE
  BY <1>5, <1>6 DEF Rests
<1> QED
  BY <1>1, <1>2, <1>6, <1>7, <1>8, <1>9 DEF Flowing, Account, Resumed

-----------------------------------------------------------------------------
(* The invariant *)

Handler(op, r, ended, st) == [op |-> op, run |-> r, ended |-> ended, st |-> st]

LEMMA HandlerTyped ==
  ASSUME NEW op \in {"run", "legacy", "approve"}, NEW r \in Runs, NEW ended \in BOOLEAN, NEW st, Formed(st),
         NEW h, h = Handler(op, r, ended, st)
  PROVE  /\ h \in Handlers /\ h.op = op /\ h.run = r /\ h.ended = ended /\ h.st = st /\ h.op # "idle"
BY DEF Handlers, Handler, Formed

LEMMA Serving ==
  ASSUME TypeOK, NEW q \in Requests, reqs[q].op # "idle"
  PROVE  /\ reqs[q].op \in {"run", "legacy", "approve"} /\ reqs[q].run \in Runs
         /\ reqs[q].ended \in BOOLEAN /\ reqs[q].st \in States
         /\ reqs[q] = Handler(reqs[q].op, reqs[q].run, reqs[q].ended, reqs[q].st)
<1>1. reqs[q] \in Handlers /\ reqs[q] # Idle
  BY DEF TypeOK, Idle
<1> QED
  BY <1>1 DEF Handlers, Handler

(* Its handler has a workflow to itself. *)
LEMMA ServedAlone ==
  ASSUME TypeOK, HandlersTrue, NEW q \in Requests, NEW r \in Runs, Serves(q, r)
  PROVE  /\ ~MayResolve(r) /\ ~Recoverable(r) /\ AfterRecovery(r) = store[r]
         /\ store[r] = NoRun \/ ~CanDelete(r, store[r])
         /\ \A p \in Requests : Serves(p, r) => p = q
         /\ r \in used
<1>1. /\ r \in used /\ \A p \in Requests \ {q} : ~Serves(p, r)
      /\ IF reqs[q].op = "approve" THEN Locked(r) ELSE Unsaved(r)
  BY DEF HandlersTrue, HandlerTrue, Accounted, Serves
<1>2. CASE reqs[q].op = "approve"
  <2>1. _approval_lock_is_active(r)
    BY <1>2 DEF _approval_lock_is_active, Serves
  <2> QED
    BY <1>1, <2>1 DEF MayResolve, Recoverable, AfterRecovery, CanDelete
<1>3. CASE reqs[q].op # "approve"
  BY <1>1, <1>3 DEF MayResolve, Recoverable, AfterRecovery, Stale, Unsaved
<1> QED
  BY <1>1, <1>2, <1>3

(* A record that is in progress stands whatever is called. *)
LEMMA LockedRests ==
  ASSUME NEW st, NEW calls, NEW given, NEW calls2, NEW given2, Rests(st, calls, given), st.in_progress
  PROVE  Rests(st, calls2, given2)
BY DEF Rests

(* A workflow that the step does not concern. *)
LEMMA RecordKept ==
  ASSUME NEW r \in Runs, RecordTrue(r), store'[r] = store[r], disk'[r] = disk[r],
         runs'[r] = runs[r], grants'[r] = grants[r], used \subseteq used',
         \A q \in Requests : Handling(q, "approve", r) => Handling(q, "approve", r)'
  PROVE  RecordTrue(r)'
BY DEF RecordTrue, Unsaved

(* A workflow when all of them are written to the file. *)
LEMMA RecordSaved ==
  ASSUME NEW r \in Runs, disk'[r] = store'[r],
         store'[r] # NoRun => Rests(store'[r], runs'[r], grants'[r]),
         r \notin used' => store'[r] = NoRun /\ \A k \in Tools : runs'[r][k] = 0
  PROVE  RecordTrue(r)'
BY DEF RecordTrue, Unsaved

(* A handler that the step does not concern. *)
LEMMA HandlerKept ==
  ASSUME TypeOK, HandlersTrue, NEW q \in Requests, reqs[q].op # "idle", reqs'[q] = reqs[q],
         runs'[reqs[q].run] = runs[reqs[q].run], grants'[reqs[q].run] = grants[reqs[q].run],
         used \subseteq used', store'[reqs[q].run] = store[reqs[q].run],
         disk'[reqs[q].run] \in {disk[reqs[q].run], store[reqs[q].run]},
         \A p \in Requests \ {q} : ~Serves(p, reqs[q].run)'
  PROVE  HandlerTrue(q)'
<1>1. HandlerTrue(q)
  BY DEF HandlersTrue
<1>2. Accounted(reqs[q])
  BY <1>1 DEF HandlerTrue
<1>3. Accounted(reqs[q])'
  BY <1>2 DEF Accounted, Locked, Unsaved
<1> QED
  BY <1>3 DEF HandlerTrue

LEMMA RefusalKept ==
  ASSUME NEW r \in Runs, NEW k \in Tools, RefusalStands(r, k), used \subseteq used', runs'[r][k] = runs[r][k],
         \A q \in Requests : ~Serves(q, r)',
         store'[r] # NoRun => store'[r].in_progress \/ store'[r].status # "requires_approval"
  PROVE  RefusalStands(r, k)'
BY DEF RefusalStands

(* A handler is moved by its own graph. *)
LEMMA HandlerMoves ==
  ASSUME GateInv, NEW q \in Requests, reqs[q].op # "idle", NEW ended \in BOOLEAN, NEW n, Formed(n),
         n.in_progress = reqs[q].st.in_progress, NEW h, h = Handler(reqs[q].op, reqs[q].run, ended, n),
         reqs' = [reqs EXCEPT ![q] = h],
         IF ended THEN Concluded(n, runs'[reqs[q].run], grants[reqs[q].run])
                  ELSE Flowing(n, runs'[reqs[q].run], grants[reqs[q].run]),
         UNCHANGED <<store, disk, aged, used, crashes, grants, refused>>, staged' \subseteq Runs,
         runs' \in [Runs -> [Tools -> Nat]], \A r \in Runs \ {reqs[q].run} : runs'[r] = runs[r],
         CallsBounded'
  PROVE  GateInv'
<1>1. TypeOK /\ RecordsTrue /\ HandlersTrue /\ RefusalsStand
  BY DEF GateInv
<1> DEFINE run == reqs[q].run
<1>2. /\ run \in Runs /\ Serves(q, run) /\ h \in Handlers /\ h.op = reqs[q].op /\ h.run = run
      /\ h.ended = ended /\ h.st = n
  BY <1>1, Serving, HandlerTyped DEF Serves
<1>3. Accounted(reqs[q]) /\ \A p \in Requests \ {q} : ~Serves(p, run)
  BY <1>1 DEF HandlersTrue, HandlerTrue
<1>4. reqs'[q] = h /\ \A p \in Requests \ {q} : reqs'[p] = reqs[p]
  BY <1>1 DEF TypeOK
<1>5. TypeOK'
  BY <1>1, <1>2 DEF TypeOK
<1>6. \A p \in Requests, r \in Runs : Serves(p, r)' = Serves(p, r)
  BY <1>2, <1>4 DEF Serves
<1>7. RecordsTrue'
  <2> SUFFICES ASSUME NEW r \in Runs PROVE RecordTrue(r)'
    BY DEF RecordsTrue
  <2>1. RecordTrue(r)
    BY <1>1 DEF RecordsTrue
  <2>2. \A p \in Requests : Handling(p, "approve", r) => Handling(p, "approve", r)'
    BY <1>2, <1>4 DEF Handling
  <2>3. CASE r # run
    BY <2>1, <2>2, <2>3, RecordKept
  <2>4. CASE r = run
    <3>1. IF reqs[q].op = "approve" THEN Locked(r) ELSE Unsaved(r)
      BY <1>3, <2>4 DEF Accounted
    <3>2. store[r] # NoRun => Rests(store[r], runs'[r], grants[r])
      BY <2>1, <3>1, LockedRests DEF RecordTrue, Locked, Unsaved
    <3>3. disk[r] # NoRun => Rests(disk[r], runs'[r], grants[r])
      BY <2>1, <3>1, LockedRests DEF RecordTrue, Locked, Unsaved
    <3>4. r \in used
      BY <1>3, <2>4 DEF Accounted
    <3> QED
      BY <2>1, <2>2, <3>2, <3>3, <3>4 DEF RecordTrue
  <2> QED
    BY <2>3, <2>4
<1>8. HandlersTrue'
  <2> SUFFICES ASSUME NEW p \in Requests, reqs'[p].op # "idle" PROVE HandlerTrue(p)'
    BY DEF HandlersTrue
  <2>1. CASE p = q
    <3>1. Accounted(h)'
      BY <1>2, <1>3 DEF Accounted, Locked, Unsaved
    <3> QED
      BY <1>2, <1>3, <1>4, <1>6, <2>1, <3>1 DEF HandlerTrue
  <2>2. CASE p # q
    <3>1. reqs[p].op # "idle" /\ reqs'[p] = reqs[p] /\ reqs[p].run \in Runs
      BY <1>1, <1>4, <2>2, Serving
    <3>2. \A o \in Requests \ {p} : ~Serves(o, reqs[p].run)
      BY <1>1, <3>1 DEF HandlersTrue, HandlerTrue
    <3>3. reqs[p].run # run
      BY <1>2, <2>2, <3>2
    <3> QED
      BY <1>1, <1>6, <3>1, <3>2, <3>3, HandlerKept
  <2> QED
    BY <2>1, <2>2
<1>9. RefusalsStand'
  <2> SUFFICES ASSUME NEW p \in refused PROVE RefusalStands(p[1], p[2])'
    BY DEF RefusalsStand
  <2>1. p[1] \in Runs /\ p[2] \in Tools /\ RefusalStands(p[1], p[2])
    BY <1>1 DEF TypeOK, RefusalsStand
  <2>2. p[1] # run
    BY <1>2, <2>1 DEF RefusalStands
  <2>3. \A o \in Requests : ~Serves(o, p[1])'
    BY <1>6, <2>1 DEF RefusalStands
  <2> QED
    BY <2>1, <2>2, <2>3, RefusalKept DEF RefusalStands
<1> QED
  BY <1>5, <1>7, <1>8, <1>9 DEF GateInv

(* What the decision tells of the state. *)
LEMMA DecisionTells ==
  ASSUME NEW st, NEW calls, NEW given, Formed(st), Flowing(st, calls, given), NEW d, d = DecisionAgent(st)
  PROVE  /\ d.decision = "run_execution" =>
                /\ d = Deciding(st, "run_execution") /\ Step(st) = "pending" /\ Kind(st) # Clarify
                /\ st.retries < MaxRetries
         /\ d.decision = "run_planner" =>
                d = Deciding(st, "run_planner") /\ Kind(st) = Clarify /\ st.status # "requires_approval"
         /\ d.decision = "run_validation" =>
                d = Deciding(st, "run_validation") /\ Step(st) = "completed" /\ Kind(st) # Clarify
         /\ d.decision = "reflect_and_retry" =>
                /\ d = Deciding(st, "reflect_and_retry") /\ Step(st) = "failed"
                /\ Kind(st) \notin GitWrites /\ st.retries < MaxRetries
         /\ d.decision = "continue_workflow" =>
                d = MovedOn(st) /\ Step(st) = "completed" /\ st.current < Len(st.plan)
<1>1. Outcomes(st, calls, given)
  BY DecisionOutcomes
<1>2. \A x : Deciding(st, x).decision = x /\ Failing(st, x).decision = x
  BY FormedParts DEF Deciding, Failing
<1>3. Exhausted(st).decision = "stop_max_retries" /\ MovedOn(st).decision = "continue_workflow"
  BY FormedParts DEF Exhausted, MovedOn
<1> QED
  BY <1>1, <1>2, <1>3 DEF Outcomes

LEMMA Becoming ==
  ASSUME TypeOK, NEW q \in Requests, reqs[q].op # "idle", NEW n, Becomes(q, n)
  PROVE  reqs' = [reqs EXCEPT ![q] = Handler(reqs[q].op, reqs[q].run, reqs[q].ended, n)]
<1>1. /\ reqs[q] = Handler(reqs[q].op, reqs[q].run, reqs[q].ended, reqs[q].st)
      /\ DOMAIN reqs = Requests
  BY Serving DEF TypeOK
<1>2. [reqs[q] EXCEPT !.st = n] = Handler(reqs[q].op, reqs[q].run, reqs[q].ended, n)
  BY <1>1 DEF Handler
<1>3. reqs' = [reqs EXCEPT ![q] = [reqs[q] EXCEPT !.st = n]]
  BY <1>1 DEF Becomes
<1> QED
  BY <1>2, <1>3

(* A handler in the graph holds a workflow that may go on. *)
LEMMA InGraphFlows ==
  ASSUME GateInv, NEW q \in Requests, InGraph(q)
  PROVE  /\ reqs[q].op # "idle" /\ reqs[q].ended = FALSE /\ Formed(reqs[q].st) /\ reqs[q].run \in Runs
         /\ Flowing(reqs[q].st, runs[reqs[q].run], grants[reqs[q].run])
         /\ runs[reqs[q].run] \in [Tools -> Nat] /\ grants[reqs[q].run] \in [Tools -> Nat]
<1>1. TypeOK /\ HandlersTrue /\ reqs[q].op # "idle" /\ ~reqs[q].ended
  BY DEF GateInv, InGraph
<1>2. reqs[q].run \in Runs /\ reqs[q].ended \in BOOLEAN
  BY <1>1, Serving
<1>3. Accounted(reqs[q])
  BY <1>1 DEF HandlersTrue, HandlerTrue
<1>4. Formed(reqs[q].st) /\ Flowing(reqs[q].st, runs[reqs[q].run], grants[reqs[q].run])
  BY <1>1, <1>3 DEF Accounted
<1>5. runs[reqs[q].run] \in [Tools -> Nat] /\ grants[reqs[q].run] \in [Tools -> Nat]
  BY <1>1, <1>2 DEF TypeOK
<1> QED
  BY <1>1, <1>2, <1>4, <1>5

(* A node that calls no tool. *)
LEMMA NodeKeeps ==
  ASSUME GateInv, NEW q \in Requests, InGraph(q), NEW n, Becomes(q, n), Formed(n),
         Flowing(n, runs[reqs[q].run], grants[reqs[q].run]), n.in_progress = reqs[q].st.in_progress,
         UNCHANGED <<store, disk, aged, staged, used, crashes, history>>
  PROVE  GateInv'
<1>1. TypeOK /\ CallsBounded /\ UNCHANGED <<runs, grants, refused>>
  BY DEF GateInv, history
<1>2. reqs[q].op # "idle" /\ reqs[q].ended = FALSE
  BY InGraphFlows
<1>3. PICK ended \in BOOLEAN : ended = reqs[q].ended /\ ~ended
  BY <1>2
<1>4. PICK h : h = Handler(reqs[q].op, reqs[q].run, ended, n) /\ reqs' = [reqs EXCEPT ![q] = h]
  BY <1>1, <1>2, <1>3, Becoming
<1>5. CallsBounded' /\ runs' \in [Runs -> [Tools -> Nat]] /\ staged' \subseteq Runs
  BY <1>1 DEF CallsBounded, TypeOK
<1> QED
  BY <1>1, <1>2, <1>3, <1>4, <1>5, HandlerMoves

LEMMA GraphStepKeeps ==
  ASSUME GateInv, NEW q \in Requests, GraphStep(q)
  PROVE  GateInv'
<1> DEFINE st == reqs[q].st
           calls == runs[reqs[q].run]
           given == grants[reqs[q].run]
<1>1. UNCHANGED <<store, disk, aged, staged, used, crashes, history>> /\ InGraph(q)
  BY DEF GraphStep, Routed
<1>2. Formed(st) /\ Flowing(st, calls, given) /\ calls \in [Tools -> Nat]
  BY <1>1, InGraphFlows
<1>3. CASE Routed(q, {"run_planner"}) /\ Becomes(q, complete_planner_step(Decided(q)))
  <2>1. PICK n : n = complete_planner_step(DecisionAgent(st)) /\ Becomes(q, n)
    BY <1>3 DEF Decided
  <2>2. DecisionAgent(st).decision = "run_planner"
    BY <1>3 DEF Routed, Decided
  <2>3. Kind(st) = Clarify /\ st.status # "requires_approval"
        /\ DecisionAgent(st) = Deciding(st, "run_planner")
    BY <1>2, <2>2, DecisionTells
  <2>4. Formed(n) /\ Flowing(n, calls, given) /\ n.in_progress = st.in_progress
    BY <1>2, <2>1, <2>3, PlannerFlows
  <2> QED
    BY <1>1, <2>1, <2>4, NodeKeeps
<1>4. CASE Routed(q, {"continue_workflow"}) /\ Becomes(q, Decided(q))
  <2>1. PICK n : n = DecisionAgent(st) /\ Becomes(q, n)
    BY <1>4 DEF Decided
  <2>2. DecisionAgent(st).decision = "continue_workflow"
    BY <1>4 DEF Routed, Decided
  <2>3. Step(st) = "completed" /\ st.current < Len(st.plan) /\ DecisionAgent(st) = MovedOn(st)
    BY <1>2, <2>2, DecisionTells
  <2>4. Formed(n) /\ Flowing(n, calls, given) /\ n.in_progress = st.in_progress
    <3>1. n = MovedOn(st)
      BY <2>1, <2>3
    <3> HIDE DEF st, calls, given
    <3> QED
      BY <1>2, <2>3, <3>1, MovedOnFlows
  <2> QED
    BY <1>1, <2>1, <2>4, NodeKeeps
<1>5. CASE Routed(q, {"run_validation"}) /\ Becomes(q, Validated(Decided(q)))
  <2>1. PICK n : n = Validated(DecisionAgent(st)) /\ Becomes(q, n)
    BY <1>5 DEF Decided
  <2>2. DecisionAgent(st).decision = "run_validation"
    BY <1>5 DEF Routed, Decided
  <2>3. Step(st) = "completed" /\ Kind(st) # Clarify /\ DecisionAgent(st) = Deciding(st, "run_validation")
    BY <1>2, <2>2, DecisionTells
  <2>4. Formed(n) /\ Flowing(n, calls, given) /\ n.in_progress = st.in_progress
    BY <1>2, <2>1, <2>3, ValidatedFlows
  <2> QED
    BY <1>1, <2>1, <2>4, NodeKeeps
<1>6. CASE Routed(q, {"reflect_and_retry"}) /\ Becomes(q, Reflected(Decided(q)))
  <2>1. PICK n : n = Reflected(DecisionAgent(st)) /\ Becomes(q, n)
    BY <1>6 DEF Decided
  <2>2. DecisionAgent(st).decision = "reflect_and_retry"
    BY <1>6 DEF Routed, Decided
  <2>3. Step(st) = "failed" /\ Kind(st) \notin GitWrites /\ st.retries < MaxRetries
        /\ DecisionAgent(st) = Deciding(st, "reflect_and_retry")
    BY <1>2, <2>2, DecisionTells
  <2>4. Formed(n) /\ Flowing(n, calls, given) /\ n.in_progress = st.in_progress
    BY <1>2, <2>1, <2>3, ReflectedFlows, SMTT(30)
  <2> QED
    BY <1>1, <2>1, <2>4, NodeKeeps
<1> QED
  BY <1>3, <1>4, <1>5, <1>6 DEF GraphStep

LEMMA ExecuteStoppedKeeps ==
  ASSUME GateInv, NEW q \in Requests, ExecuteStopped(q)
  PROVE  GateInv'
<1> DEFINE st == reqs[q].st
           calls == runs[reqs[q].run]
           given == grants[reqs[q].run]
<1>1. /\ UNCHANGED <<store, disk, aged, staged, used, crashes, history>> /\ InGraph(q)
      /\ DecisionAgent(st).decision = "run_execution"
  BY DEF ExecuteStopped, Routed, Decided
<1>2. Formed(st) /\ Flowing(st, calls, given) /\ calls \in [Tools -> Nat]
  BY <1>1, InGraphFlows
<1>3. DecisionAgent(st) = Deciding(st, "run_execution") /\ Step(st) = "pending" /\ Kind(st) # Clarify
  BY <1>1, <1>2, DecisionTells
<1>4. Kind(DecisionAgent(st)) = Kind(st)
  BY <1>2, <1>3, NodesWrite
<1>5. CASE Kind(Decided(q)) \in Unsafe /\ Becomes(q, Refused(Decided(q)))
  <2>1. PICK n : n = Refused(DecisionAgent(st)) /\ Becomes(q, n)
    BY <1>5 DEF Decided
  <2>2. Formed(n) /\ Flowing(n, calls, given) /\ n.in_progress = st.in_progress
    BY <1>2, <1>3, <1>4, <1>5, <2>1, RefusedFlows DEF Decided
  <2> QED
    BY <1>1, <2>1, <2>2, NodeKeeps
<1>6. CASE ~MayRun(Decided(q)) /\ Becomes(q, Blocked(Decided(q)))
  <2>1. PICK n : n = Blocked(DecisionAgent(st)) /\ Becomes(q, n)
    BY <1>6 DEF Decided
  <2>2. ~MayRun(DecisionAgent(st))
    BY <1>6 DEF Decided
  <2>3. Formed(n) /\ Flowing(n, calls, given) /\ n.in_progress = st.in_progress
    BY <1>2, <1>3, <2>1, <2>2, BlockedFlows, SMTT(30)
  <2> QED
    BY <1>1, <2>1, <2>3, NodeKeeps
<1> QED
  BY <1>5, <1>6 DEF ExecuteStopped

LEMMA ExecuteToolKeeps ==
  ASSUME GateInv, NEW q \in Requests, ExecuteTool(q)
  PROVE  GateInv'
<1> DEFINE st == reqs[q].st
           run == reqs[q].run
           calls == runs[run]
           given == grants[run]
<1>1. /\ UNCHANGED <<store, disk, aged, used, crashes, grants, refused>> /\ InGraph(q)
      /\ DecisionAgent(st).decision = "run_execution" /\ MayRun(DecisionAgent(st))
  BY DEF ExecuteTool, Routed, Decided
<1>2. /\ Formed(st) /\ Flowing(st, calls, given) /\ calls \in [Tools -> Nat] /\ run \in Runs
      /\ reqs[q].op # "idle" /\ reqs[q].ended = FALSE
  BY <1>1, InGraphFlows
<1>3. /\ DecisionAgent(st) = Deciding(st, "run_execution") /\ Step(st) = "pending" /\ Kind(st) # Clarify
      /\ st.retries < MaxRetries
  BY <1>1, <1>2, DecisionTells
<1>4. Kind(DecisionAgent(st)) = Kind(st) /\ Kind(st) \in Tools
  BY <1>2, <1>3, NodesWrite, FormedParts DEF Kinds
<1>5. PICK ok \in BOOLEAN : Tool(run, Kind(st), ok) /\ Becomes(q, Executed(DecisionAgent(st), ok))
  BY <1>4 DEF ExecuteTool, Decided
<1>6. PICK n : n = Executed(DecisionAgent(st), ok) /\ Becomes(q, n)
  BY <1>5
<1>7. PICK after : after = Called(calls, Kind(st))
  OBVIOUS
<1>8. /\ Formed(n) /\ Flowing(n, after, given) /\ n.in_progress = st.in_progress
      /\ NeedsApproval(Kind(st)) => given[Kind(st)] > 0
      /\ after[Kind(st)] \in Nat /\ after[Kind(st)] <= IF Kind(st) \in GitWrites THEN 1 ELSE MaxRetries
      /\ \A k \in Tools \ {Kind(st)} : after[k] = calls[k]
  BY <1>1, <1>2, <1>3, <1>6, <1>7, ExecutedFlows
<1>9. TypeOK /\ CallsBounded
  BY DEF GateInv
<1>10. runs' = [runs EXCEPT ![run] = Called(@, Kind(st))]
  BY <1>5 DEF Tool, Called
<1>11. runs'[run] = after /\ \A r \in Runs \ {run} : runs'[r] = runs[r]
  BY <1>2, <1>7, <1>9, <1>10 DEF TypeOK
<1>12. after \in [Tools -> Nat]
  BY <1>2, <1>7, <1>8 DEF Called
<1>13. runs' \in [Runs -> [Tools -> Nat]]
  BY <1>2, <1>7, <1>9, <1>10, <1>12 DEF TypeOK
<1>14. staged' \subseteq Runs
  BY <1>2, <1>5, <1>9 DEF Tool, TypeOK
<1>15. CallsBounded'
  BY <1>1, <1>4, <1>8, <1>9, <1>11 DEF CallsBounded
<1>16. PICK ended \in BOOLEAN : ended = reqs[q].ended /\ ~ended
  BY <1>2
<1>17. PICK h : h = Handler(reqs[q].op, run, ended, n) /\ reqs' = [reqs EXCEPT ![q] = h]
  BY <1>2, <1>6, <1>9, <1>16, Becoming
<1> QED
  BY <1>1, <1>2, <1>8, <1>11, <1>13, <1>14, <1>15, <1>16, <1>17, HandlerMoves

LEMMA GraphEndsKeeps ==
  ASSUME GateInv, NEW q \in Requests, GraphEnds(q)
  PROVE  GateInv'
<1> DEFINE st == reqs[q].st
           calls == runs[reqs[q].run]
           given == grants[reqs[q].run]
<1>1. /\ UNCHANGED <<store, disk, aged, staged, used, crashes, runs, grants, refused>> /\ InGraph(q)
      /\ DecisionAgent(st).decision \in DOMAIN StopStatus
  BY DEF GraphEnds, Routed, Decided, history
<1>2. Formed(st) /\ Flowing(st, calls, given) /\ reqs[q].op # "idle"
  BY <1>1, InGraphFlows
<1>3. PICK n : n = Stopped(DecisionAgent(st))
  OBVIOUS
<1>4. Formed(n) /\ Concluded(n, calls, given) /\ n.in_progress = st.in_progress
  BY <1>1, <1>2, <1>3, StoppedConcludes
<1>5. TypeOK /\ CallsBounded
  BY DEF GateInv
<1>6. /\ reqs[q] = Handler(reqs[q].op, reqs[q].run, reqs[q].ended, st) /\ DOMAIN reqs = Requests
  BY <1>2, <1>5, Serving DEF TypeOK
<1>7. reqs' = [reqs EXCEPT ![q] = [reqs[q] EXCEPT !.st = n, !.ended = TRUE]]
  BY <1>3, <1>6 DEF GraphEnds, Decided
<1>8. PICK ended \in BOOLEAN : ended # FALSE
  OBVIOUS
<1>9. PICK h : h = Handler(reqs[q].op, reqs[q].run, ended, n) /\ reqs' = [reqs EXCEPT ![q] = h]
  <2>1. PICK h : h = [reqs[q] EXCEPT !.st = n, !.ended = TRUE] /\ reqs' = [reqs EXCEPT ![q] = h]
    BY <1>7
  <2>2. h = Handler(reqs[q].op, reqs[q].run, ended, n)
    BY <1>6, <1>8, <2>1 DEF Handler
  <2> QED
    BY <2>1, <2>2
<1>10. CallsBounded' /\ runs' \in [Runs -> [Tools -> Nat]] /\ staged' \subseteq Runs
  BY <1>1, <1>5 DEF CallsBounded, TypeOK
<1> QED
  BY <1>1, <1>2, <1>4, <1>8, <1>9, <1>10, HandlerMoves

(* Every plan is the planner's. *)
LEMMA PlansShaped ==
  ASSUME NEW r \in Runs
  PROVE  /\ PlansOf[r] \subseteq Plans /\ PlansOf[r] \subseteq PlanShapes
         /\ LegacyPlansOf[r] \subseteq PlansOf[r]
<1>1. /\ PlansOf[r] = {PlannerAgent(g) : g \in GoalsOf[r]}
      /\ LegacyPlansOf[r] = {PlannerAgent(g) : g \in {h \in GoalsOf[r] : Route(h.says) = "execution_workflow"}}
  BY DEF PlansOf, LegacyPlansOf
<1>2. ASSUME NEW g \in GoalsOf[r] PROVE PlannerAgent(g) \in PlanShapes
  <2>1. g \in [matches : SUBSET Range(Intents), does : Tools \cup {NoAction}, says : SUBSET Phrases]
    BY GateAssumption
  <2>2. g.matches \subseteq Range(Intents) /\ g.does \in Tools \cup {NoAction}
    BY <2>1
  <2> QED
    BY <2>2, PlannerShapes
<1> QED
  BY <1>1, <1>2 DEF Plans

(* A run that no request was given yet begins. *)
Fresh(op, r, plan) == [op |-> op, run |-> r, ended |-> FALSE, st |-> Planned(plan)]

Starts(h, op, r) ==
    /\ h \in Handlers /\ h.op = op /\ h.run = r /\ ~h.ended /\ Formed(h.st) /\ Unsaved(r)
    /\ Flowing(h.st, runs[r], grants[r]) /\ h.st.in_progress = FALSE

LEMMA BeginsFlows ==
  ASSUME TypeOK, RecordsTrue, NEW r \in Runs, r \notin used, NEW plan \in PlansOf[r],
         NEW op \in {"run", "legacy"}, NEW h, h = Fresh(op, r, plan)
  PROVE  Starts(h, op, r)
<1>1. Unsaved(r) /\ \A k \in Tools : runs[r][k] = 0
  BY DEF RecordsTrue, RecordTrue
<1>2. PICK n : n = Planned(plan)
  OBVIOUS
<1>3. plan \in Plans /\ plan \in PlanShapes
  BY PlansShaped
<1>4. Formed(n) /\ Flowing(n, runs[r], grants[r]) /\ n.in_progress = FALSE
  BY <1>1, <1>2, <1>3, PlannedFlows
<1>5. h \in Handlers /\ h.op = op /\ h.run = r /\ h.ended = FALSE /\ h.st = n
  BY <1>2, <1>4 DEF Handlers, Formed, Fresh
<1> QED
  BY <1>1, <1>4, <1>5 DEF Starts

(* A request ends, or goes on with a run of its own. *)
TurnsOver(q) ==
    \/ reqs' = [reqs EXCEPT ![q] = Idle] /\ UNCHANGED used
    \/ \E op \in {"run", "legacy"}, r \in Runs : \E plan \in PlansOf[r] : Begins(q, op, r, plan)

LEMMA EndsTaskTurnsOver ==
  ASSUME NEW q \in Requests, EndsTask(q)
  PROVE  TurnsOver(q)
BY PlansShaped DEF EndsTask, TurnsOver

(* The records after a request: as they were, or all written to the file   *)
(* with only its own changed.                                              *)
LeavesAsTheyWere(q) == UNCHANGED <<store, disk>> /\ reqs[q].op # "approve"
SavesItsOwn(q) ==
    /\ reqs[q].op # "idle" /\ disk' = store'
    /\ \E rec \in States : /\ store' = [store EXCEPT ![reqs[q].run] = rec]
                           /\ Rests(rec, runs[reqs[q].run], grants[reqs[q].run])

LEMMA TurningOver ==
  ASSUME GateInv, NEW q \in Requests, TurnsOver(q), LeavesAsTheyWere(q) \/ SavesItsOwn(q),
         UNCHANGED <<aged, staged, crashes, history>>
  PROVE  GateInv'
<1>1. TypeOK /\ RecordsTrue /\ HandlersTrue /\ RefusalsStand /\ CallsBounded
  BY DEF GateInv
<1>2. UNCHANGED <<runs, grants, refused>>
  BY DEF history
<1>3. /\ used \subseteq used' /\ \A p \in Requests \ {q} : reqs'[p] = reqs[p]
      /\ reqs' \in [Requests -> Handlers] /\ used' \subseteq Runs
      /\ \/ reqs'[q].op = "idle"
         \/ /\ reqs'[q].run \in used' \ used /\ ~reqs'[q].ended /\ Formed(reqs'[q].st) /\ Unsaved(reqs'[q].run)
            /\ Flowing(reqs'[q].st, runs[reqs'[q].run], grants[reqs'[q].run])
            /\ reqs'[q].st.in_progress = FALSE /\ reqs'[q].op \in {"run", "legacy"}
  <2>1. CASE reqs' = [reqs EXCEPT ![q] = Idle] /\ UNCHANGED used
    <3>1. Idle \in Handlers /\ Idle.op = "idle"
      BY DEF Handlers, Idle
    <3> QED
      BY <1>1, <2>1, <3>1 DEF TypeOK
  <2>2. ASSUME NEW op \in {"run", "legacy"}, NEW r \in Runs, NEW plan \in PlansOf[r], Begins(q, op, r, plan)
        PROVE  /\ used \subseteq used' /\ \A p \in Requests \ {q} : reqs'[p] = reqs[p]
               /\ reqs' \in [Requests -> Handlers] /\ used' \subseteq Runs
               /\ reqs'[q].run \in used' \ used /\ ~reqs'[q].ended /\ Formed(reqs'[q].st)
               /\ Unsaved(reqs'[q].run)
               /\ Flowing(reqs'[q].st, runs[reqs'[q].run], grants[reqs'[q].run])
               /\ reqs'[q].st.in_progress = FALSE /\ reqs'[q].op \in {"run", "legacy"}
    <3>1. PICK h : h = Fresh(op, r, plan)
      OBVIOUS
    <3>2. r \notin used /\ used' = used \cup {r} /\ reqs' = [reqs EXCEPT ![q] = h]
      BY <2>2, <3>1 DEF Begins, Fresh
    <3>3. r \notin used
      BY <3>2
    <3>4. Starts(h, op, r)
      BY <1>1, <3>1, <3>3, BeginsFlows
    <3>5. reqs'[q] = h /\ \A p \in Requests \ {q} : reqs'[p] = reqs[p]
      BY <1>1, <3>2 DEF TypeOK
    <3>6. reqs' \in [Requests -> Handlers] /\ used' \subseteq Runs
      BY <1>1, <3>2, <3>4 DEF TypeOK, Starts
    <3> QED
      BY <3>2, <3>4, <3>5, <3>6 DEF Starts
  <2> QED
    BY <2>1, <2>2 DEF TurnsOver
<1>4. ASSUME NEW p \in Requests, reqs[p].op # "idle"
      PROVE  reqs[p].run \in Runs /\ reqs[p].run \in used /\ Accounted(reqs[p]) /\ Serves(p, reqs[p].run)
  BY <1>1, <1>4, Serving DEF HandlersTrue, HandlerTrue, Accounted, Serves
<1>5. ASSUME NEW r \in Runs, ~Serves(q, r)
      PROVE  store'[r] = store[r] /\ disk'[r] \in {disk[r], store[r]}
  BY <1>1, <1>5 DEF LeavesAsTheyWere, SavesItsOwn, Serves, TypeOK
<1>6. store' \in [Runs -> States \cup {NoRun}] /\ disk' \in [Runs -> States \cup {NoRun}]
  <2>1. CASE LeavesAsTheyWere(q)
    BY <1>1, <2>1 DEF LeavesAsTheyWere, TypeOK
  <2>2. CASE SavesItsOwn(q)
    <3>1. PICK rec \in States : store' = [store EXCEPT ![reqs[q].run] = rec]
      BY <2>2 DEF SavesItsOwn
    <3>2. store' \in [Runs -> States \cup {NoRun}]
      BY <1>1, <3>1 DEF TypeOK
    <3> QED
      BY <2>2, <3>2 DEF SavesItsOwn
  <2> QED
    BY <2>1, <2>2
<1>7. TypeOK'
  BY <1>1, <1>2, <1>3, <1>6 DEF TypeOK
<1>8. RecordsTrue'
  <2> SUFFICES ASSUME NEW r \in Runs PROVE RecordTrue(r)'
    BY DEF RecordsTrue
  <2>1. RecordTrue(r)
    BY <1>1 DEF RecordsTrue
  <2>2. CASE LeavesAsTheyWere(q)
    <3>1. \A p \in Requests : Handling(p, "approve", r) => Handling(p, "approve", r)'
      BY <1>3, <2>2 DEF Handling, LeavesAsTheyWere
    <3> QED
      BY <1>2, <1>3, <2>1, <2>2, <3>1, RecordKept DEF LeavesAsTheyWere
  <2>3. CASE SavesItsOwn(q)
    <3>1. disk'[r] = store'[r]
      BY <2>3 DEF SavesItsOwn
    <3>2. CASE Serves(q, r)
      <4>1. r \in used /\ Rests(store'[r], runs[r], grants[r])
        BY <1>1, <1>4, <2>3, <3>2 DEF SavesItsOwn, Serves, TypeOK
      <4> QED
        BY <1>2, <1>3, <3>1, <4>1, RecordSaved
    <3>3. CASE ~Serves(q, r)
      BY <1>2, <1>3, <1>5, <2>1, <3>1, <3>3, RecordSaved DEF RecordTrue, Unsaved
    <3> QED
      BY <3>2, <3>3
  <2> QED
    BY <2>2, <2>3
<1>9. HandlersTrue'
  <2> SUFFICES ASSUME NEW p \in Requests, reqs'[p].op # "idle" PROVE HandlerTrue(p)'
    BY DEF HandlersTrue
  <2>1. CASE p = q
    <3>1. PICK r : r = reqs'[q].run
      OBVIOUS
    <3>2. r \in used' \ used /\ r \in Runs
      BY <1>3, <2>1, <3>1
    <3>3. \A o \in Requests : ~Serves(o, r)
      BY <1>4, <3>2 DEF Serves
    <3>4. \A o \in Requests \ {q} : ~Serves(o, r)'
      BY <1>3, <3>3 DEF Serves
    <3>5. Unsaved(r)'
      <4>1. Unsaved(r)
        BY <1>3, <2>1, <3>1
      <4> QED
        BY <1>5, <3>2, <3>3, <4>1 DEF Unsaved
    <3>6. Accounted(reqs[q])'
      BY <1>2, <1>3, <2>1, <3>1, <3>5 DEF Accounted
    <3> QED
      BY <2>1, <3>1, <3>4, <3>6 DEF HandlerTrue
  <2>2. CASE p # q
    <3>1. reqs'[p] = reqs[p] /\ reqs[p].op # "idle"
      BY <1>3, <2>2
    <3>2. reqs[p].run \in Runs /\ reqs[p].run \in used /\ ~Serves(q, reqs[p].run)
      BY <1>1, <1>4, <2>2, <3>1 DEF HandlersTrue, HandlerTrue
    <3>3. \A o \in Requests \ {p} : ~Serves(o, reqs[p].run)
      BY <1>1, <3>1 DEF HandlersTrue, HandlerTrue
    <3>4. \A o \in Requests \ {p} : ~Serves(o, reqs[p].run)'
      BY <1>3, <3>1, <3>2, <3>3 DEF Serves
    <3> QED
      BY <1>1, <1>2, <1>3, <1>5, <3>1, <3>2, <3>4, HandlerKept
  <2> QED
    BY <2>1, <2>2
<1>10. RefusalsStand'
  <2> SUFFICES ASSUME NEW p \in refused PROVE RefusalStands(p[1], p[2])'
    BY <1>2 DEF RefusalsStand
  <2>1. p[1] \in Runs /\ p[2] \in Tools /\ RefusalStands(p[1], p[2])
    BY <1>1 DEF TypeOK, RefusalsStand
  <2>2. p[1] \in used /\ store'[p[1]] = store[p[1]]
    BY <1>5, <2>1 DEF RefusalStands
  <2>3. \A o \in Requests : ~Serves(o, p[1])'
    BY <1>3, <2>1, <2>2 DEF RefusalStands, Serves
  <2> QED
    BY <1>2, <1>3, <2>1, <2>2, <2>3, RefusalKept DEF RefusalStands
<1>11. CallsBounded'
  BY <1>1, <1>2 DEF CallsBounded
<1> QED
  BY <1>7, <1>8, <1>9, <1>10, <1>11 DEF GateInv

LEMMA RunGoalKeeps ==
  ASSUME GateInv, NEW q \in Requests, NEW r \in Runs, NEW op \in {"run", "legacy"}, NEW plan \in PlansOf[r],
         RunGoal(q, op, r, plan)
  PROVE  GateInv'
<1>1. TurnsOver(q) /\ UNCHANGED <<aged, staged, crashes, history>> /\ LeavesAsTheyWere(q)
  BY DEF RunGoal, TurnsOver, LeavesAsTheyWere
<1> QED
  BY <1>1, TurningOver

LEMMA RunRaisesKeeps ==
  ASSUME GateInv, NEW q \in Requests, RunRaises(q)
  PROVE  GateInv'
<1>1. TurnsOver(q) /\ UNCHANGED <<aged, staged, crashes, history>> /\ LeavesAsTheyWere(q)
  BY EndsTaskTurnsOver DEF RunRaises, LeavesAsTheyWere
<1> QED
  BY <1>1, TurningOver

(* A handler whose graph has ended. *)
LEMMA ConcludedHandler ==
  ASSUME GateInv, NEW q \in Requests, NEW op \in {"run", "legacy", "approve"}, AfterGraph(q, op)
  PROVE  /\ reqs[q].op # "idle" /\ Formed(reqs[q].st) /\ reqs[q].run \in Runs
         /\ Concluded(reqs[q].st, runs[reqs[q].run], grants[reqs[q].run])
         /\ op # "approve" => reqs[q].st.in_progress = FALSE
<1>1. TypeOK /\ HandlersTrue /\ reqs[q].op # "idle" /\ reqs[q].ended
  BY DEF GateInv, AfterGraph
<1>2. Accounted(reqs[q]) /\ reqs[q].run \in Runs
  BY <1>1, Serving DEF HandlersTrue, HandlerTrue
<1> QED
  BY <1>1, <1>2 DEF Accounted, AfterGraph

LEMMA RunSavesKeeps ==
  ASSUME GateInv, NEW q \in Requests, RunSaves(q)
  PROVE  GateInv'
<1>1. TurnsOver(q) /\ UNCHANGED <<aged, staged, crashes, history>>
  BY EndsTaskTurnsOver DEF RunSaves
<1>2. PICK op \in {"run", "legacy"} : AfterGraph(q, op)
  BY DEF RunSaves
<1>3. /\ reqs[q].op # "idle" /\ Formed(reqs[q].st) /\ reqs[q].st.in_progress = FALSE
      /\ Concluded(reqs[q].st, runs[reqs[q].run], grants[reqs[q].run])
  BY <1>2, ConcludedHandler
<1>4. Rests(reqs[q].st, runs[reqs[q].run], grants[reqs[q].run]) /\ reqs[q].st \in States
  BY <1>3 DEF Rests, Concluded, Formed
<1>5. SavesItsOwn(q)
  BY <1>3, <1>4 DEF RunSaves, Save, SavesItsOwn
<1> QED
  BY <1>1, <1>5, TurningOver

LEMMA ApproveEndKeeps ==
  ASSUME GateInv, NEW q \in Requests, ApproveEnd(q)
  PROVE  GateInv'
<1>1. TurnsOver(q) /\ UNCHANGED <<aged, staged, crashes, history>> /\ AfterGraph(q, "approve")
  BY DEF ApproveEnd, TurnsOver
<1>2. /\ reqs[q].op # "idle" /\ Formed(reqs[q].st)
      /\ Concluded(reqs[q].st, runs[reqs[q].run], grants[reqs[q].run])
  BY <1>1, ConcludedHandler
<1>3. PICK n : n = Released(reqs[q].st)
  OBVIOUS
<1>4. Rests(n, runs[reqs[q].run], grants[reqs[q].run]) /\ Formed(n)
  BY <1>2, <1>3, EndedRests
<1>5. disk' = store' /\ store' = [store EXCEPT ![reqs[q].run] = n]
  BY <1>3 DEF ApproveEnd, Save, Released
<1>6. SavesItsOwn(q)
  BY <1>2, <1>4, <1>5 DEF SavesItsOwn, Formed
<1> QED
  BY <1>1, <1>6, TurningOver

LEMMA ResumeRaisesKeeps ==
  ASSUME GateInv, NEW q \in Requests, ResumeRaises(q)
  PROVE  GateInv'
<1> DEFINE r == reqs[q].run
<1>1. /\ TurnsOver(q) /\ UNCHANGED <<aged, staged, crashes, history>> /\ reqs[q].op = "approve"
      /\ disk' = store' /\ store' = ResumeFailed(r) /\ reqs[q].op # "idle"
  BY DEF ResumeRaises, TurnsOver, Save
<1>2. TypeOK /\ HandlersTrue /\ RecordsTrue
  BY DEF GateInv
<1>3. Accounted(reqs[q]) /\ r \in Runs
  BY <1>1, <1>2, Serving DEF HandlersTrue, HandlerTrue
<1>4. Formed(store[r])
  BY <1>1, <1>2, <1>3 DEF Accounted, Locked, RecordsTrue, RecordTrue, Rests
<1>5. PICK n : n = Filed(store[r], store[r].steps, "failed", "approval_resume_failed", store[r].approved, FALSE,
                         "approved_but_resume_failed")
  OBVIOUS
<1>6. ResumeFailed(r) = [store EXCEPT ![r] = n]
  <2>1. /\ r \in DOMAIN store
        /\ DOMAIN store[r] = {"plan", "steps", "current", "status", "decision", "retries", "succeeded", "approved",
                              "pending", "in_progress", "resolution"}
    BY <1>2, <1>3, <1>4, FormedParts DEF TypeOK
  <2>2. ResumeFailed(r)
          = [store EXCEPT ![r] = [store[r] EXCEPT !.status = "failed", !.decision = "approval_resume_failed",
                                                  !.in_progress = FALSE,
                                                  !.resolution = "approved_but_resume_failed"]]
    BY <2>1 DEF ResumeFailed
  <2>3. n = [store[r] EXCEPT !.status = "failed", !.decision = "approval_resume_failed", !.in_progress = FALSE,
                             !.resolution = "approved_but_resume_failed"]
    BY <1>5, <2>1 DEF Filed
  <2> QED
    BY <2>2, <2>3
<1>7. Formed(n) /\ n.status = "failed" /\ n.in_progress = FALSE
  <2>1. PICK b \in BOOLEAN : b = FALSE
            /\ n = Filed(store[r], store[r].steps, "failed", "approval_resume_failed", store[r].approved, b,
                         "approved_but_resume_failed")
    BY <1>5
  <2>2. /\ store[r].steps \in [DOMAIN store[r].plan -> StepStatuses] /\ store[r].approved \in SUBSET Tools
        /\ "failed" \in Statuses /\ "approval_resume_failed" \in Decisions
        /\ "approved_but_resume_failed" \in Resolutions
    BY <1>4, FormedParts, Words DEF Formed, Resolutions
  <2> QED
    BY <1>4, <2>1, <2>2, FiledParts
<1>8. Rests(n, runs[r], grants[r])
  BY <1>7 DEF Rests
<1>9. SavesItsOwn(q)
  <2>1. n \in States
    BY <1>7 DEF Formed
  <2>2. store' = [store EXCEPT ![r] = n]
    BY <1>1, <1>6, Zenon
  <2> QED
    BY <1>1, <1>8, <2>1, <2>2, Zenon DEF SavesItsOwn
<1> QED
  BY <1>1, <1>9, TurningOver

Unserved(r) == \A q \in Requests : ~Serves(q, r)

(* All records are written, and only those of workflows without a handler  *)
(* were changed.                                                           *)
LEMMA RecordsSaved ==
  ASSUME GateInv, UNCHANGED <<runs, grants, used>>, aged' \subseteq Runs, staged' \subseteq Runs,
         crashes' \in 0..MaxCrashes, disk' = store', store' \in [Runs -> States \cup {NoRun}],
         reqs' = reqs \/ reqs' = [q \in Requests |-> Idle],
         \A r \in Runs : \/ store'[r] = store[r]
                         \/ /\ Unserved(r)' /\ r \in used
                            /\ store'[r] # NoRun => Rests(store'[r], runs[r], grants[r]),
         refused' \subseteq Runs \X Tools, \A p \in refused' : RefusalStands(p[1], p[2])'
  PROVE  GateInv'
<1>1. TypeOK /\ RecordsTrue /\ HandlersTrue /\ CallsBounded
  BY DEF GateInv
<1>2. reqs' \in [Requests -> Handlers] /\ \A q \in Requests : reqs'[q] = reqs[q] \/ reqs'[q].op = "idle"
  BY <1>1 DEF TypeOK, Handlers, Idle
<1>3. TypeOK'
  BY <1>1, <1>2 DEF TypeOK
<1>4. RecordsTrue'
  <2> SUFFICES ASSUME NEW r \in Runs PROVE RecordTrue(r)'
    BY DEF RecordsTrue
  <2>1. RecordTrue(r)
    BY <1>1 DEF RecordsTrue
  <2>2. CASE store'[r] = store[r]
    BY <2>1, <2>2, RecordSaved DEF RecordTrue, Unsaved
  <2>3. CASE r \in used /\ (store'[r] # NoRun => Rests(store'[r], runs[r], grants[r]))
    BY <2>3, RecordSaved
  <2> QED
    BY <2>2, <2>3
<1>5. HandlersTrue'
  <2> SUFFICES ASSUME NEW q \in Requests, reqs'[q].op # "idle" PROVE HandlerTrue(q)'
    BY DEF HandlersTrue
  <2>1. reqs' = reqs
    BY DEF Idle
  <2>2. reqs[q].run \in Runs /\ Serves(q, reqs[q].run)
    BY <1>1, <2>1, Serving DEF Serves
  <2>3. store'[reqs[q].run] = store[reqs[q].run]
    BY <2>1, <2>2 DEF Unserved, Serves
  <2>4. \A p \in Requests \ {q} : ~Serves(p, reqs[q].run)
    BY <1>1, <2>1 DEF HandlersTrue, HandlerTrue
  <2>5. \A p \in Requests \ {q} : ~Serves(p, reqs[q].run)'
    BY <2>1, <2>4 DEF Serves
  <2> QED
    BY <1>1, <2>1, <2>3, <2>5, HandlerKept
<1>6. RefusalsStand' /\ CallsBounded'
  BY <1>1 DEF RefusalsStand, CallsBounded
<1> QED
  BY <1>3, <1>4, <1>5, <1>6 DEF GateInv

(* A refusal stands while its record is left alone. *)
LEMMA RefusalLeft ==
  ASSUME GateInv, NEW p \in refused, UNCHANGED <<runs, used>>,
         reqs' = reqs \/ reqs' = [q \in Requests |-> Idle],
         \/ store'[p[1]] = store[p[1]]
         \/ store'[p[1]] # NoRun => store'[p[1]].status # "requires_approval"
  PROVE  RefusalStands(p[1], p[2])'
<1>1. p[1] \in Runs /\ p[2] \in Tools /\ RefusalStands(p[1], p[2])
  BY DEF GateInv, TypeOK, RefusalsStand
<1>2. \A q \in Requests : reqs'[q] = reqs[q] \/ reqs'[q].op = "idle"
  BY DEF Idle
<1>3. \A q \in Requests : ~Serves(q, p[1])'
  BY <1>1, <1>2 DEF RefusalStands, Serves
<1> QED
  BY <1>1, <1>3, RefusalKept DEF RefusalStands

(* What a user may still resolve. *)
LEMMA ResolvableParked ==
  ASSUME GateInv, NEW r \in Runs, MayResolve(r)
  PROVE  /\ Formed(store[r]) /\ store[r].status = "requires_approval" /\ store[r].in_progress = FALSE
         /\ Parked(store[r], runs[r], grants[r]) /\ Unserved(r) /\ r \in used
         /\ store[r].pending \in Tools /\ runs[r][store[r].pending] = 0
         /\ \A p \in refused : p[1] # r
<1>1. TypeOK /\ RecordTrue(r) /\ HandlersTrue /\ RefusalsStand
  BY DEF GateInv, RecordsTrue
<1>2. store[r] # NoRun /\ store[r].status = "requires_approval" /\ ~store[r].in_progress
  BY DEF MayResolve, Waiting
<1>3. Formed(store[r]) /\ Parked(store[r], runs[r], grants[r]) /\ r \in used
  BY <1>1, <1>2 DEF RecordTrue, Rests, Unsaved
<1>4. store[r].in_progress \in BOOLEAN
  BY <1>3 DEF Formed, States
<1>5. Unserved(r)
  BY <1>1, ServedAlone DEF Unserved
<1>6. store[r].pending \in Tools /\ runs[r][store[r].pending] = 0
  BY <1>3 DEF Parked, NeedsApproval, Tools
<1>7. \A p \in refused : p[1] # r
  BY <1>1, <1>2 DEF RefusalsStand, RefusalStands
<1> QED
  BY <1>2, <1>3, <1>4, <1>5, <1>6, <1>7

LEMMA RejectKeeps ==
  ASSUME GateInv, NEW r \in Runs, Reject(r)
  PROVE  GateInv'
<1>1. /\ Formed(store[r]) /\ store[r].in_progress = FALSE /\ Unserved(r) /\ r \in used
      /\ store[r].pending \in Tools /\ runs[r][store[r].pending] = 0
      /\ \A p \in refused : p[1] # r
  BY ResolvableParked DEF Reject
<1>2. PICK n : n = Rejected(store[r])
  OBVIOUS
<1>3. Formed(n) /\ n.status = "rejected" /\ n.in_progress = FALSE
  BY <1>1, <1>2, RejectedRests
<1>4. TypeOK
  BY DEF GateInv
<1>5. /\ store' = [store EXCEPT ![r] = n] /\ disk' = store' /\ UNCHANGED <<reqs, used, crashes, runs, grants>>
      /\ refused' = refused \cup {<<r, store[r].pending>>} /\ aged' \subseteq Runs /\ staged' \subseteq Runs
  BY <1>2, <1>4 DEF Reject, Save, TypeOK, Unstaged
<1>6. n \in States /\ n # NoRun
  BY <1>3, NoRunAssumption DEF Formed
<1>7. store' \in [Runs -> States \cup {NoRun}] /\ store'[r] = n /\ \A x \in Runs \ {r} : store'[x] = store[x]
  BY <1>4, <1>5, <1>6 DEF TypeOK
<1>8. Unserved(r)' /\ Rests(n, runs[r], grants[r])
  BY <1>1, <1>3, <1>5 DEF Unserved, Serves, Rests
<1>9. refused' \subseteq Runs \X Tools
  BY <1>1, <1>4, <1>5 DEF TypeOK
<1>10. ASSUME NEW p \in refused' PROVE RefusalStands(p[1], p[2])'
  <2>1. CASE p \in refused
    <3>1. p[1] \in Runs \ {r}
      BY <1>1, <1>4, <2>1 DEF TypeOK
    <3> QED
      BY <1>5, <1>7, <2>1, <3>1, RefusalLeft
  <2>2. CASE p[1] = r /\ p[2] = store[r].pending
    BY <1>1, <1>3, <1>5, <1>7, <1>8, <2>2 DEF RefusalStands, Unserved
  <2> QED
    BY <1>5, <2>1, <2>2
<1>11. crashes' \in 0..MaxCrashes
  BY <1>4, <1>5 DEF TypeOK
<1> QED
  BY <1>1, <1>5, <1>7, <1>8, <1>9, <1>10, <1>11, RecordsSaved

LEMMA CrashInRejectKeeps ==
  ASSUME GateInv, NEW r \in Runs, CrashInReject(r)
  PROVE  GateInv'
<1>1. /\ Formed(store[r]) /\ store[r].status = "requires_approval" /\ Unserved(r) /\ r \in used
      /\ store[r].pending \in Tools /\ runs[r][store[r].pending] = 0
      /\ \A p \in refused : p[1] # r
  BY ResolvableParked DEF CrashInReject
<1>2. PICK n : n = Processing(store[r], "rejected")
  OBVIOUS
<1>3. Formed(n) /\ Rests(n, runs[r], grants[r]) /\ n.in_progress = TRUE
  BY <1>1, <1>2, ProcessingRests
<1>4. TypeOK
  BY DEF GateInv
<1>5. /\ store' = [store EXCEPT ![r] = n] /\ disk' = store' /\ UNCHANGED <<used, runs, grants>>
      /\ refused' = refused \cup {<<r, store[r].pending>>} /\ aged' \subseteq Runs /\ staged' \subseteq Runs
  BY <1>2, <1>4 DEF CrashInReject, Save, TypeOK, Unstaged
<1>6. n \in States /\ n # NoRun
  BY <1>3, NoRunAssumption DEF Formed
<1>7. store' \in [Runs -> States \cup {NoRun}] /\ store'[r] = n /\ \A x \in Runs \ {r} : store'[x] = store[x]
  BY <1>4, <1>5, <1>6 DEF TypeOK
<1>8. /\ reqs' = [q \in Requests |-> Idle] /\ \A x \in Runs : Unserved(x)'
      /\ crashes' \in 0..MaxCrashes
  BY <1>4, GateAssumption DEF CrashInReject, Restart, Unserved, Serves, Idle, TypeOK
<1>9. refused' \subseteq Runs \X Tools
  BY <1>1, <1>4, <1>5 DEF TypeOK
<1>10. ASSUME NEW p \in refused' PROVE RefusalStands(p[1], p[2])'
  <2>1. CASE p \in refused
    <3>1. p[1] \in Runs \ {r}
      BY <1>1, <1>4, <2>1 DEF TypeOK
    <3> QED
      BY <1>5, <1>7, <1>8, <2>1, <3>1, RefusalLeft
  <2>2. CASE p[1] = r /\ p[2] = store[r].pending
    BY <1>1, <1>3, <1>5, <1>7, <1>8, <2>2 DEF RefusalStands, Unserved
  <2> QED
    BY <1>5, <2>1, <2>2
<1> QED
  BY <1>1, <1>3, <1>5, <1>7, <1>8, <1>9, <1>10, RecordsSaved

LEMMA CrashKeeps ==
  ASSUME GateInv, Crash
  PROVE  GateInv'
<1>1. TypeOK /\ RecordsTrue /\ RefusalsStand
  BY DEF GateInv
<1>2. UNCHANGED <<disk, aged, staged, used, runs, grants, refused>> /\ store' = disk
  BY DEF Crash, history
<1>3. /\ reqs' = [q \in Requests |-> Idle] /\ \A x \in Runs : Unserved(x)'
      /\ crashes' \in 0..MaxCrashes
  BY <1>1, GateAssumption DEF Crash, Restart, Unserved, Serves, Idle, TypeOK
<1>4. ASSUME NEW r \in Runs
      PROVE  \/ store'[r] = store[r]
             \/ /\ Unserved(r)' /\ r \in used
                /\ store'[r] # NoRun => Rests(store'[r], runs[r], grants[r])
  <2>1. RecordTrue(r)
    BY <1>1 DEF RecordsTrue
  <2> QED
    BY <1>2, <1>3, <2>1 DEF RecordTrue, Unsaved
<1>5. ASSUME NEW p \in refused' PROVE RefusalStands(p[1], p[2])'
  <2>1. p \in refused /\ p[1] \in Runs
    BY <1>1, <1>2 DEF TypeOK
  <2>2. Unserved(p[1]) /\ RecordTrue(p[1])
    BY <1>1, <2>1 DEF RefusalsStand, RefusalStands, Unserved, RecordsTrue
  <2>3. disk[p[1]] = store[p[1]]
    BY <2>2 DEF RecordTrue, Unserved, Serves, Handling
  <2> QED
    BY <1>2, <1>3, <2>1, <2>3, RefusalLeft
<1>6. aged' \subseteq Runs /\ staged' \subseteq Runs /\ refused' \subseteq Runs \X Tools
      /\ store' \in [Runs -> States \cup {NoRun}] /\ disk' = store'
  BY <1>1, <1>2 DEF TypeOK
<1> QED
  BY <1>2, <1>3, <1>4, <1>5, <1>6, RecordsSaved

(* What is recovered is closed, and nobody served it. *)
LEMMA RecoveryRests ==
  ASSUME GateInv, NEW r \in Runs, store[r] # NoRun
  PROVE  /\ AfterRecovery(r) \in States /\ r \in used
         /\ Rests(AfterRecovery(r), runs[r], grants[r])
         /\ \/ AfterRecovery(r) = store[r]
            \/ /\ Unserved(r) /\ store[r].in_progress /\ AfterRecovery(r).status = "failed"
               /\ store[r].status \in {"requires_approval", "retrying"}
<1>1. TypeOK /\ HandlersTrue /\ RecordTrue(r)
  BY DEF GateInv, RecordsTrue
<1>2. Rests(store[r], runs[r], grants[r]) /\ Formed(store[r]) /\ r \in used
  BY <1>1 DEF RecordTrue, Rests, Unsaved
<1>3. CASE Recoverable(r)
  <2>1. PICK n : n = Recovered(store[r])
    OBVIOUS
  <2>2. Formed(n) /\ n.status = "failed" /\ n.in_progress = FALSE
    BY <1>2, <2>1, RecoveredRests
  <2>3. Rests(n, runs[r], grants[r]) /\ n \in States
    BY <2>2 DEF Rests, Formed
  <2>4. AfterRecovery(r) = n
    BY <1>3, <2>1 DEF AfterRecovery
  <2>5. store[r].in_progress /\ store[r].status \in {"requires_approval", "retrying"}
    BY <1>2, <1>3 DEF Recoverable, Stale, Rests
  <2>6. Unserved(r)
    BY <1>1, <1>3, ServedAlone DEF Unserved
  <2> QED
    BY <1>2, <2>2, <2>3, <2>4, <2>5, <2>6
<1>4. CASE ~Recoverable(r)
  <2>1. AfterRecovery(r) = store[r]
    BY <1>4 DEF AfterRecovery
  <2> QED
    BY <1>2, <2>1 DEF Formed
<1> QED
  BY <1>3, <1>4

(* Records are recovered or removed. *)
LEMMA RecordsCleared ==
  ASSUME GateInv, disk' = store', DOMAIN store' = Runs, store' = [r \in Runs |-> store'[r]],
         \A r \in Runs : \/ store'[r] = store[r]
                         \/ store[r] # NoRun /\ store'[r] = AfterRecovery(r)
                         \/ store[r] # NoRun /\ Unserved(r) /\ store'[r] = NoRun,
         UNCHANGED <<reqs, aged, staged, used, crashes, history>>
  PROVE  GateInv'
<1>1. TypeOK /\ RefusalsStand /\ UNCHANGED <<runs, grants, refused>>
  BY DEF GateInv, history
<1>2. \A r \in Runs : Unserved(r)' = Unserved(r)
  BY DEF Unserved, Serves
<1>3. ASSUME NEW r \in Runs
      PROVE  /\ store'[r] \in States \cup {NoRun}
             /\ \/ store'[r] = store[r]
                \/ /\ Unserved(r)' /\ r \in used
                   /\ store'[r] # NoRun => Rests(store'[r], runs[r], grants[r])
                   /\ store'[r] # NoRun => store'[r].status # "requires_approval"
  <2>1. CASE store'[r] = store[r]
    BY <1>1, <2>1 DEF TypeOK
  <2>2. CASE store[r] # NoRun /\ store'[r] = AfterRecovery(r)
    BY <1>2, <2>2, RecoveryRests
  <2>3. CASE store[r] # NoRun /\ Unserved(r) /\ store'[r] = NoRun
    BY <1>2, <2>3, RecoveryRests
  <2> QED
    BY <1>3, <2>1, <2>2, <2>3
<1>4. store' \in [Runs -> States \cup {NoRun}]
  BY <1>3
<1>5. ASSUME NEW p \in refused' PROVE RefusalStands(p[1], p[2])'
  <2>1. p \in refused /\ p[1] \in Runs
    BY <1>1 DEF TypeOK
  <2> QED
    BY <1>1, <1>3, <2>1, RefusalLeft
<1>6. aged' \subseteq Runs /\ staged' \subseteq Runs /\ refused' \subseteq Runs \X Tools
      /\ crashes' \in 0..MaxCrashes
  BY <1>1 DEF TypeOK
<1> QED
  BY <1>1, <1>3, <1>4, <1>5, <1>6, RecordsSaved

LEMMA ReadRunsKeeps ==
  ASSUME GateInv, NEW rs \in SUBSET Runs, ReadRuns(rs)
  PROVE  GateInv'
<1>1. /\ store' = [r \in Runs |-> IF r \in rs THEN AfterRecovery(r) ELSE store[r]] /\ disk' = store'
      /\ UNCHANGED <<reqs, aged, staged, used, crashes, history>>
  BY DEF ReadRuns, Save
<1>2. \A r \in Runs : \/ store'[r] = store[r]
                      \/ store[r] # NoRun /\ store'[r] = AfterRecovery(r)
  <2>1. \A r \in Runs : store'[r] = IF r \in rs THEN AfterRecovery(r) ELSE store[r]
    BY <1>1
  <2>2. \A r \in Runs : store[r] = NoRun => AfterRecovery(r) = store[r]
    BY DEF AfterRecovery, Recoverable, Stale
  <2> QED
    BY <2>1, <2>2
<1>3. DOMAIN store' = Runs /\ store' = [r \in Runs |-> store'[r]]
  BY <1>1
<1> QED
  BY <1>1, <1>2, <1>3, RecordsCleared

(* A workflow that may be deleted has no handler. *)
LEMMA DeletableUnserved ==
  ASSUME GateInv, NEW r \in Runs, store[r] # NoRun, CanDelete(r, AfterRecovery(r))
  PROVE  Unserved(r)
<1>1. TypeOK /\ HandlersTrue
  BY DEF GateInv
<1> QED
  BY <1>1, ServedAlone DEF Unserved

LEMMA DeleteRunKeeps ==
  ASSUME GateInv, NEW r \in Runs, DeleteRun(r)
  PROVE  GateInv'
<1>1. /\ store' = [store EXCEPT ![r] = NoRun] /\ disk' = store' /\ store[r] # NoRun
      /\ UNCHANGED <<reqs, aged, staged, used, crashes, history>>
  BY DEF DeleteRun, Save
<1>2. Unserved(r) /\ store \in [Runs -> States \cup {NoRun}]
  BY DeletableUnserved DEF DeleteRun, GateInv, TypeOK
<1>3. /\ DOMAIN store' = Runs /\ store' = [x \in Runs |-> store'[x]]
      /\ \A x \in Runs : \/ store'[x] = store[x]
                         \/ store[x] # NoRun /\ Unserved(x) /\ store'[x] = NoRun
  <2>1. DOMAIN store' = Runs /\ store' = [x \in Runs |-> store'[x]]
    BY <1>1, <1>2
  <2>2. \A x \in Runs : store'[x] = IF x = r THEN NoRun ELSE store[x]
    BY <1>1, <1>2
  <2> QED
    BY <1>1, <1>2, <2>1, <2>2
<1> QED
  BY <1>1, <1>3, RecordsCleared

LEMMA DeleteSafeKeeps ==
  ASSUME GateInv, DeleteSafe
  PROVE  GateInv'
<1> DEFINE Doomed(r) == /\ store[r] # NoRun
                        /\ AfterRecovery(r).status \in Final
                        /\ CanDelete(r, AfterRecovery(r))
<1>1. /\ store' = [r \in Runs |-> IF Doomed(r) THEN NoRun ELSE AfterRecovery(r)] /\ disk' = store'
      /\ UNCHANGED <<reqs, aged, staged, used, crashes, history>>
  BY DEF DeleteSafe, Save
<1>2. ASSUME NEW r \in Runs
      PROVE  \/ store'[r] = store[r]
             \/ store[r] # NoRun /\ store'[r] = AfterRecovery(r)
             \/ store[r] # NoRun /\ Unserved(r) /\ store'[r] = NoRun
  <2>1. CASE Doomed(r)
    <3>1. store'[r] = NoRun
      BY <1>1, <2>1
    <3> QED
      BY <2>1, <3>1, DeletableUnserved
  <2>2. CASE ~Doomed(r)
    <3>1. store'[r] = AfterRecovery(r)
      BY <1>1, <2>2
    <3>2. store[r] = NoRun => AfterRecovery(r) = store[r]
      BY DEF AfterRecovery, Recoverable, Stale
    <3> QED
      BY <3>1, <3>2
  <2> QED
    BY <2>1, <2>2
<1>3. DOMAIN store' = Runs /\ store' = [r \in Runs |-> store'[r]]
  BY <1>1
<1> QED
  BY <1>1, <1>2, <1>3, RecordsCleared

LEMMA TimePassesKeeps ==
  ASSUME GateInv, NEW r \in Runs, TimePasses(r)
  PROVE  GateInv'
<1>1. aged' \subseteq Runs /\ UNCHANGED <<store, disk, reqs, staged, used, crashes, runs, grants, refused>>
  BY DEF TimePasses, history, GateInv, TypeOK
<1>2. TypeOK'
  BY <1>1 DEF GateInv, TypeOK
<1>3. RecordsTrue' /\ RefusalsStand' /\ CallsBounded'
  BY <1>1 DEF GateInv, RecordsTrue, RecordTrue, Unsaved, Handling, RefusalsStand, RefusalStands, Serves,
              CallsBounded
<1>4. HandlersTrue'
  BY <1>1 DEF GateInv, HandlersTrue, HandlerTrue, Accounted, Locked, Unsaved, Serves
<1> QED
  BY <1>2, <1>3, <1>4 DEF GateInv

LEMMA ApproveBeginKeeps ==
  ASSUME GateInv, NEW q \in Requests, NEW r \in Runs, ApproveBegin(q, r)
  PROVE  GateInv'
<1>1. TypeOK /\ RecordsTrue /\ HandlersTrue /\ CallsBounded
  BY DEF GateInv
<1>2. /\ Formed(store[r]) /\ store[r].status = "requires_approval" /\ Unserved(r) /\ r \in used
      /\ Parked(store[r], runs[r], grants[r]) /\ store[r].pending \in Tools
      /\ \A p \in refused : p[1] # r
  BY ResolvableParked DEF ApproveBegin
<1>3. PICK m, n, h : /\ m = Processing(store[r], "approved") /\ n = Resumable(m)
                     /\ h = [op |-> "approve", run |-> r, ended |-> FALSE, st |-> n]
  OBVIOUS
<1>4. /\ reqs[q].op = "idle" /\ disk' = [store EXCEPT ![r] = m] /\ store' = [store EXCEPT ![r] = n]
      /\ reqs' = [reqs EXCEPT ![q] = h] /\ aged' = aged \ {r}
      /\ grants' = [grants EXCEPT ![r][store[r].pending] = @ + 1]
      /\ UNCHANGED <<staged, used, crashes, runs, refused>>
  BY <1>3 DEF ApproveBegin
<1>5. grants[r] \in [Tools -> Nat] /\ DOMAIN grants = Runs
  BY <1>1 DEF TypeOK
<1>6. /\ Formed(n) /\ Flowing(n, runs[r], Granted(grants[r], store[r].pending))
      /\ Formed(m) /\ Rests(n, runs[r], grants[r]) /\ n.in_progress = TRUE /\ n.status = "retrying"
  <2>1. m = Processing(store[r], "approved") /\ n = Resumable(m)
    BY <1>3
  <2>2. Resumed(n, runs[r], grants[r], store[r].pending) /\ Formed(m)
    BY <1>2, <1>5, <2>1, ResumedFlows
  <2> QED
    BY <2>2 DEF Resumed
<1>7. Rests(m, runs[r], grants[r]) /\ m.in_progress = TRUE
  BY <1>2, <1>3, ProcessingRests
<1>8. n \in States /\ m \in States /\ n # NoRun /\ m # NoRun
  BY <1>6, NoRunAssumption DEF Formed
<1>9. /\ h \in Handlers /\ h.op = "approve" /\ h.run = r /\ h.ended = FALSE /\ h.st = n
  BY <1>3, <1>8 DEF Handlers
<1>10. /\ store' \in [Runs -> States \cup {NoRun}] /\ disk' \in [Runs -> States \cup {NoRun}]
       /\ store'[r] = n /\ disk'[r] = m
       /\ \A x \in Runs \ {r} : store'[x] = store[x] /\ disk'[x] = store[x]
  BY <1>1, <1>4, <1>8 DEF TypeOK
<1>11. /\ reqs' \in [Requests -> Handlers] /\ reqs'[q] = h /\ \A p \in Requests \ {q} : reqs'[p] = reqs[p]
  BY <1>1, <1>4, <1>9 DEF TypeOK
<1>12. /\ grants' \in [Runs -> [Tools -> Nat]]
       /\ grants'[r] = Granted(grants[r], store[r].pending)
       /\ \A x \in Runs \ {r} : grants'[x] = grants[x]
       /\ \A k \in Tools : grants[r][k] > 0 => grants'[r][k] > 0
  <2>1. [grants[r] EXCEPT ![store[r].pending] = @ + 1] \in [Tools -> Nat]
    BY <1>2, <1>5
  <2>2. grants' = [grants EXCEPT ![r] = [grants[r] EXCEPT ![store[r].pending] = @ + 1]]
    BY <1>4, <1>5
  <2> QED
    BY <1>1, <1>2, <1>5, <2>1, <2>2 DEF TypeOK, Granted
<1>13. TypeOK'
  BY <1>1, <1>4, <1>10, <1>11, <1>12 DEF TypeOK
<1>14. RecordsTrue'
  <2> SUFFICES ASSUME NEW x \in Runs PROVE RecordTrue(x)'
    BY DEF RecordsTrue
  <2>1. RecordTrue(x)
    BY <1>1 DEF RecordsTrue
  <2>2. CASE x = r
    <3>1. Handling(q, "approve", r)'
      BY <1>9, <1>11 DEF Handling
    <3>2. Rests(store'[r], runs'[r], grants'[r]) /\ Rests(disk'[r], runs'[r], grants'[r])
      BY <1>6, <1>7, <1>10, LockedRests
    <3> QED
      BY <1>2, <1>4, <2>2, <3>1, <3>2 DEF RecordTrue
  <2>3. CASE x # r
    BY <1>4, <1>10, <1>12, <2>1, <2>3, RecordSaved DEF RecordTrue, Unsaved
  <2> QED
    BY <2>2, <2>3
<1>15. HandlersTrue'
  <2> SUFFICES ASSUME NEW p \in Requests, reqs'[p].op # "idle" PROVE HandlerTrue(p)'
    BY DEF HandlersTrue
  <2>1. CASE p = q
    <3>1. \A o \in Requests \ {q} : ~Serves(o, r)'
      BY <1>2, <1>11 DEF Unserved, Serves
    <3>2. Locked(r)'
      BY <1>6, <1>7, <1>8, <1>10 DEF Locked
    <3>3. Accounted(reqs[q])'
      <4>1. n.in_progress = (h.op = "approve")
        BY <1>6, <1>9
      <4> QED
        BY <1>2, <1>4, <1>6, <1>9, <1>11, <1>12, <3>2, <4>1 DEF Accounted
    <3> QED
      BY <1>9, <1>11, <2>1, <3>1, <3>3 DEF HandlerTrue
  <2>2. CASE p # q
    <3>1. reqs'[p] = reqs[p] /\ reqs[p].op # "idle" /\ reqs[p].run \in Runs \ {r}
      BY <1>1, <1>2, <1>11, <2>2, Serving DEF Unserved, Serves
    <3>2. \A o \in Requests \ {p} : ~Serves(o, reqs[p].run)
      BY <1>1, <3>1 DEF HandlersTrue, HandlerTrue
    <3>3. \A o \in Requests \ {p} : ~Serves(o, reqs[p].run)'
      BY <1>9, <1>11, <3>1, <3>2 DEF Serves
    <3> QED
      BY <1>1, <1>4, <1>10, <1>12, <3>1, <3>3, HandlerKept
  <2> QED
    BY <2>1, <2>2
<1>16. RefusalsStand'
  <2> SUFFICES ASSUME NEW p \in refused PROVE RefusalStands(p[1], p[2])'
    BY <1>4 DEF RefusalsStand
  <2>1. p[1] \in Runs \ {r} /\ p[2] \in Tools /\ RefusalStands(p[1], p[2])
    BY <1>1, <1>2 DEF TypeOK, GateInv, RefusalsStand
  <2>2. \A o \in Requests : ~Serves(o, p[1])'
    BY <1>9, <1>11, <2>1 DEF RefusalStands, Serves
  <2> QED
    BY <1>4, <1>10, <2>1, <2>2, RefusalKept DEF RefusalStands
<1>17. CallsBounded'
  BY <1>1, <1>4, <1>12 DEF CallsBounded
<1> QED
  BY <1>13, <1>14, <1>15, <1>16, <1>17 DEF GateInv

LEMMA InitHolds ==
  ASSUME Init
  PROVE  GateInv
<1>1. TypeOK
  BY GateAssumption DEF Init, TypeOK, Handlers
<1>2. \A q \in Requests : reqs[q].op = "idle"
  BY DEF Init, Idle
<1>3. RecordsTrue
  BY DEF Init, RecordsTrue, RecordTrue, Unsaved
<1>4. HandlersTrue /\ RefusalsStand
  BY <1>2 DEF Init, HandlersTrue, RefusalsStand
<1>5. CallsBounded
  <2>1. \A r \in Runs, k \in Tools : runs[r][k] = 0
    BY DEF Init
  <2> QED
    BY <2>1, RetriesAssumption DEF CallsBounded
<1> QED
  BY <1>1, <1>3, <1>4, <1>5 DEF GateInv

LEMMA NextKeeps ==
  ASSUME GateInv, [Next]_vars
  PROVE  GateInv'
<1>1. ASSUME NEW q \in Requests, Handle(q)
      PROVE  GateInv'
  <2>1. CASE HandlerStep(q)
    BY <2>1, GraphStepKeeps, ExecuteStoppedKeeps, ExecuteToolKeeps, GraphEndsKeeps, RunSavesKeeps, ApproveEndKeeps
       DEF HandlerStep
  <2>2. CASE RunRaises(q) \/ ResumeRaises(q)
    BY <2>2, RunRaisesKeeps, ResumeRaisesKeeps
  <2>3. ASSUME NEW r \in Runs, ApproveBegin(q, r)
        PROVE  GateInv'
    BY <2>3, ApproveBeginKeeps
  <2>4. ASSUME NEW r \in Runs, NEW p \in PlansOf[r], RunGoal(q, "run", r, p)
        PROVE  GateInv'
    BY <2>4, RunGoalKeeps
  <2>5. ASSUME NEW r \in Runs, NEW p \in LegacyPlansOf[r], RunGoal(q, "legacy", r, p)
        PROVE  GateInv'
    BY <2>5, PlansShaped, RunGoalKeeps
  <2> QED
    BY <1>1, <2>1, <2>2, <2>3, <2>4, <2>5 DEF Handle
<1>2. CASE Answer
  <2>1. ASSUME NEW r \in Runs, Reject(r) \/ ReadRuns({r}) \/ DeleteRun(r) \/ CrashInReject(r)
        PROVE  GateInv'
    BY <2>1, RejectKeeps, ReadRunsKeeps, DeleteRunKeeps, CrashInRejectKeeps
  <2>2. CASE ReadRuns(Runs) \/ DeleteSafe
    BY <2>2, ReadRunsKeeps, DeleteSafeKeeps
  <2> QED
    BY <1>2, <2>1, <2>2 DEF Answer
<1>3. CASE Crash
  BY <1>3, CrashKeeps
<1>4. ASSUME NEW r \in Runs, TimePasses(r)
      PROVE  GateInv'
  BY <1>4, TimePassesKeeps
<1>5. CASE UNCHANGED vars
  <2>1. UNCHANGED <<store, disk, reqs, aged, staged, used, crashes, runs, grants, refused>>
    BY <1>5 DEF vars
  <2>2. TypeOK' /\ RecordsTrue' /\ RefusalsStand' /\ CallsBounded'
    BY <2>1 DEF GateInv, TypeOK, RecordsTrue, RecordTrue, Unsaved, Handling, RefusalsStand, RefusalStands, Serves,
                CallsBounded
  <2>3. HandlersTrue'
    BY <2>1 DEF GateInv, HandlersTrue, HandlerTrue, Accounted, Locked, Unsaved, Serves
  <2> QED
    BY <2>2, <2>3 DEF GateInv
<1> QED
  BY <1>1, <1>2, <1>3, <1>4, <1>5 DEF Next

(* Whoever may go on with a workflow holds a true account of its calls.    *)
THEOREM GateInvariant == Spec => []GateInv
<1>1. Init => GateInv
  BY InitHolds
<1>2. GateInv /\ [Next]_vars => GateInv'
  BY NextKeeps
<1> QED
  BY <1>1, <1>2, PTL DEF Spec

-----------------------------------------------------------------------------
(* What it is for *)

(* No tool that needs an approval is called without one of that action,    *)
(* nothing that was rejected is called, a git write is attempted once and  *)
(* no tool more often than max_retries: for any plan the planner makes,    *)
(* any number of requests, kills and retries.                              *)
THEOREM CallsStayGoverned == Spec => []CallsGoverned
<1>1. GateInv => CallsGoverned
  <2> SUFFICES ASSUME GateInv PROVE CallsGoverned
    OBVIOUS
  <2>1. TypeOK /\ \A p \in refused : runs[p[1]][p[2]] = 0
    BY DEF GateInv, RefusalsStand, RefusalStands
  <2>2. CallsBounded
    BY DEF GateInv
  <2> QED
    BY <2>1, <2>2 DEF CallsGoverned, CallsBounded
<1> QED
  BY <1>1, GateInvariant, PTL

(* A workflow that is resumed is left alone by every other request.        *)
THEOREM ResumesOwnTheirRun == Spec => []ResumeOwnsRun
<1>1. GateInv => ResumeOwnsRun
  <2> SUFFICES ASSUME GateInv, NEW q \in Requests, reqs[q].op = "approve"
               PROVE  /\ store[reqs[q].run] # NoRun /\ store[reqs[q].run].in_progress
                      /\ store[reqs[q].run].status = "retrying"
                      /\ \A p \in Requests \ {q} : reqs[p].op = "approve" => reqs[p].run # reqs[q].run
    BY DEF ResumeOwnsRun
  <2>1. Accounted(reqs[q]) /\ \A p \in Requests \ {q} : ~Serves(p, reqs[q].run)
    BY DEF GateInv, HandlersTrue, HandlerTrue
  <2> QED
    BY <2>1 DEF Accounted, Locked, Serves
<1> QED
  BY <1>1, GateInvariant, PTL

(* What is called completed has run all of its plan with success.          *)
THEOREM CompletedWasDone == Spec => []CompletedMeansDone
<1>1. GateInv => CompletedMeansDone
  BY DEF GateInv, RecordsTrue, RecordTrue, Rests, Done, CompletedMeansDone
<1> QED
  BY <1>1, GateInvariant, PTL

(* A step keeps the verdict of a workflow that has ended.                  *)
VerdictKept(r) ==
    store[r] # NoRun /\ store[r].status \in Final /\ store'[r] # NoRun => store'[r].status = store[r].status

(* A record under an approval, or one that may be resolved, has not ended; *)
(* nor is one saved that has.                                              *)
LEMMA HandleKeepsVerdicts ==
  ASSUME GateInv, NEW q \in Requests, Handle(q), NEW r \in Runs
  PROVE  VerdictKept(r)
<1>1. TypeOK /\ HandlersTrue
  BY DEF GateInv
<1>2. ASSUME reqs[q].op # "idle", NEW rec, store' = [store EXCEPT ![reqs[q].run] = rec]
      PROVE  VerdictKept(r)
  <2>1. Accounted(reqs[q])
    BY <1>1, <1>2 DEF HandlersTrue, HandlerTrue
  <2>2. store[reqs[q].run] = NoRun \/ store[reqs[q].run].status = "retrying"
    BY <2>1 DEF Accounted, Locked, Unsaved
  <2>3. r # reqs[q].run => store'[r] = store[r]
    BY <1>1, <1>2 DEF TypeOK
  <2> QED
    BY <2>2, <2>3 DEF VerdictKept, Final
<1>3. CASE store' = store
  BY <1>3 DEF VerdictKept
<1>4. CASE RunSaves(q)
  BY <1>2, <1>4 DEF RunSaves, AfterGraph, Save
<1>5. CASE ApproveEnd(q)
  BY <1>2, <1>5 DEF ApproveEnd, AfterGraph, Save
<1>6. CASE ResumeRaises(q)
  <2>1. \E rec : ResumeFailed(reqs[q].run) = [store EXCEPT ![reqs[q].run] = rec]
    <3>1. ResumeFailed(reqs[q].run)
            = [store EXCEPT ![reqs[q].run] = [store[reqs[q].run] EXCEPT
                  !.status = "failed", !.decision = "approval_resume_failed", !.in_progress = FALSE,
                  !.resolution = "approved_but_resume_failed"]]
      BY <1>1, <1>6, Serving DEF ResumeFailed, ResumeRaises, InGraph, TypeOK
    <3> QED
      BY <3>1
  <2> QED
    BY <1>2, <1>6, <2>1 DEF ResumeRaises, InGraph, Save
<1>7. ASSUME NEW x \in Runs, ApproveBegin(q, x)
      PROVE  VerdictKept(r)
  <2>1. store[x].status = "requires_approval"
    BY <1>7, ResolvableParked DEF ApproveBegin
  <2>2. r # x => store'[r] = store[r]
    BY <1>1, <1>7 DEF ApproveBegin, TypeOK
  <2> QED
    BY <2>1, <2>2 DEF VerdictKept, Final
<1>8. GraphStep(q) \/ ExecuteStopped(q) \/ ExecuteTool(q) \/ GraphEnds(q) \/ RunRaises(q) => store' = store
  BY DEF GraphStep, ExecuteStopped, ExecuteTool, GraphEnds, RunRaises
<1>9. \A op, x, p : RunGoal(q, op, x, p) => store' = store
  BY DEF RunGoal
<1> QED
  BY <1>3, <1>4, <1>5, <1>6, <1>7, <1>8, <1>9 DEF Handle, HandlerStep

LEMMA AnswerKeepsVerdicts ==
  ASSUME GateInv, Answer, NEW r \in Runs
  PROVE  VerdictKept(r)
<1>1. TypeOK
  BY DEF GateInv
<1>2. ASSUME NEW x \in Runs, MayResolve(x), NEW rec, store' = [store EXCEPT ![x] = rec]
      PROVE  VerdictKept(r)
  <2>1. store[x].status = "requires_approval"
    BY <1>2, ResolvableParked
  <2>2. r # x => store'[r] = store[r]
    BY <1>1, <1>2 DEF TypeOK
  <2> QED
    BY <2>1, <2>2 DEF VerdictKept, Final
<1>3. ASSUME NEW x \in Runs, Reject(x) \/ CrashInReject(x)
      PROVE  VerdictKept(r)
  BY <1>2, <1>3 DEF Reject, CrashInReject, Save
<1>4. CASE store'[r] \in {store[r], AfterRecovery(r), NoRun}
  <2>1. store[r] # NoRun /\ store[r].status \in Final => AfterRecovery(r) = store[r]
    BY RecoveryRests DEF Final
  <2> QED
    BY <1>4, <2>1 DEF VerdictKept
<1>5. ASSUME NEW rs \in SUBSET Runs, ReadRuns(rs)
      PROVE  VerdictKept(r)
  BY <1>4, <1>5 DEF ReadRuns, Save
<1>6. ASSUME NEW x \in Runs, DeleteRun(x)
      PROVE  VerdictKept(r)
  BY <1>1, <1>4, <1>6 DEF DeleteRun, Save, TypeOK
<1>7. CASE DeleteSafe
  BY <1>4, <1>7 DEF DeleteSafe, Save
<1> QED
  BY <1>3, <1>5, <1>6, <1>7 DEF Answer

(* A verdict stays until its workflow is deleted, over restarts too: what  *)
(* the file is behind with was in progress.                                *)
THEOREM VerdictsStay == Spec => SettledStays
<1>1. GateInv /\ [Next]_vars =>
        [\A r \in Runs : store[r] # NoRun /\ store[r].status \in Final /\ store'[r] # NoRun
             => store'[r].status = store[r].status]_vars
  <2> SUFFICES ASSUME GateInv, Next, NEW r \in Runs PROVE VerdictKept(r)
    BY DEF VerdictKept
  <2>1. CASE \E q \in Requests : Handle(q)
    BY <2>1, HandleKeepsVerdicts
  <2>2. CASE Answer
    BY <2>2, AnswerKeepsVerdicts
  <2>3. CASE \E x \in Runs : TimePasses(x)
    BY <2>3 DEF TimePasses, VerdictKept
  <2>4. CASE Crash
    <3>1. store' = disk
      BY <2>4 DEF Crash
    <3>2. RecordTrue(r) /\ HandlersTrue
      BY DEF GateInv, RecordsTrue
    <3>3. CASE disk[r] = store[r]
      BY <3>1, <3>3 DEF VerdictKept
    <3>4. CASE disk[r] # store[r]
      <4>1. PICK q \in Requests : Handling(q, "approve", r)
        BY <3>2, <3>4 DEF RecordTrue
      <4>2. Accounted(reqs[q])
        BY <3>2, <4>1 DEF HandlersTrue, HandlerTrue, Handling
      <4>3. store[r].status = "retrying"
        BY <4>1, <4>2 DEF Accounted, Locked, Handling
      <4> QED
        BY <4>3 DEF VerdictKept, Final
    <3> QED
      BY <3>3, <3>4
  <2> QED
    BY <2>1, <2>2, <2>3, <2>4 DEF Next
<1> QED
  BY <1>1, GateInvariant, PTL DEF Spec, SettledStays
=============================================================================
