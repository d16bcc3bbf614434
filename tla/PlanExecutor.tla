---------------------------- MODULE PlanExecutor ----------------------------
(***************************************************************************)
(* app/plan_executor.py and app/startup_validator.py: an approved plan is  *)
(* executed file by file, the runtime actions derived from it are offered, *)
(* and once approved they are run in order, with one repair each, down to  *)
(* a bounded startup probe of the generated service.                       *)
(*                                                                         *)
(* One plan, run by one thread; what a model writes, what a command says   *)
(* and what the launched child does are choices.  A file is named by its   *)
(* place in the manifest; its content is absent, empty, bad (no Python, or *)
(* no JSON, which an empty package.json is too) or good.                   *)
(***************************************************************************)
EXTENDS Integers, Sequences, FiniteSets

CONSTANTS
    Manifests,      \* sequences of file sorts a plan may consist of
    Boot            \* enable_boot_validation

Sorts == {"main", "python", "requirements", "package", "other", "blocked"}
Python == {"main", "python"}

ASSUME ExecutorAssumption ==
    /\ Manifests \subseteq Seq(Sorts) \ {<<>>}
    /\ Boot \in BOOLEAN

VARIABLES
    files,      \* the manifest, one write step per entry
    disk,       \* [places -> {"absent", "empty", "bad", "good"}]
    pc,         \* where the thread is
    at,         \* the write step or the action in progress
    attempt,    \* its attempts so far
    report,     \* ExecutionReport: status, files written, repairs
    actions,    \* the runtime actions offered
    evidence,   \* status, commands, repairs of the runtime validation
    probes,     \* probes of the startup action
    child,      \* the launched process
    writes      \* history: [places -> Nat], writes of each file

vars == <<files, disk, pc, at, attempt, report, actions, evidence, probes, child, writes>>
run == <<actions, evidence, probes, child>>

Places == DOMAIN files
Of(sorts) == {i \in Places : files[i] \in sorts}

-----------------------------------------------------------------------------
(* execute_plan *)

(* Mutant of Valid: what is written is taken for valid. *)
ValidIfThere(i) == disk[i] # "absent"

(* _validate_written_file *)
Valid(i) == disk[i] = "good"

(* What may be written: only Python and JSON are parsed. *)
Contents(i) ==
    {"good"} \cup (IF files[i] # "package" THEN {"empty"} ELSE {})
             \cup (IF files[i] \in Python \cup {"package"} THEN {"bad"} ELSE {})

Failed == [report EXCEPT !.status = "failed"]

(* The policy and the payload are asked before the step. *)
Refuse ==
    /\ pc = "write" /\ attempt = 0 /\ files[at] = "blocked"
    /\ report' = Failed
    /\ pc' = "done"
    /\ UNCHANGED <<files, disk, at, attempt, run, writes>>

(* Content cannot be generated: the step fails at once. *)
NoContent ==
    /\ pc = "write" /\ files[at] # "blocked"
    /\ report' = Failed
    /\ pc' = "done"
    /\ UNCHANGED <<files, disk, at, attempt, run, writes>>

Put(i, content) ==
    /\ disk' = [disk EXCEPT ![i] = content]
    /\ writes' = [writes EXCEPT ![i] = @ + 1]

(* Content is generated and written, or the write fails. *)
Write ==
    /\ pc = "write" /\ files[at] # "blocked"
    /\ \/ \E content \in Contents(at) : Put(at, content)
       \/ UNCHANGED <<disk, writes>>
    /\ pc' = IF writes' = writes THEN "retry" ELSE "check"
    /\ UNCHANGED <<files, at, attempt, report, run>>

AfterStep == IF at < Len(files) THEN "write" ELSE "validate"

(* The file is read back; it passes and the next step begins. *)
CheckPasses ==
    /\ pc = "check" /\ Valid(at)
    /\ report' = [report EXCEPT !.written = @ \cup {at},
                                !.repairs = IF attempt > 0 THEN Append(@, at) ELSE @]
    /\ pc' = AfterStep
    /\ at' = IF at < Len(files) THEN at + 1 ELSE at
    /\ attempt' = 0
    /\ UNCHANGED <<files, disk, run, writes>>

CheckFails ==
    /\ pc = "check" /\ ~Valid(at)
    /\ pc' = "retry"
    /\ UNCHANGED <<files, disk, at, attempt, report, run, writes>>

(* Mutant of MayRetry: one attempt too many. *)
MayRetryTwice == attempt < 2

(* range(2): the initial attempt and one repair. *)
MayRetry == attempt < 1

Retry ==
    /\ pc = "retry"
    /\ IF MayRetry THEN attempt' = attempt + 1 /\ pc' = "write" /\ UNCHANGED report
                   ELSE report' = Failed /\ pc' = "done" /\ UNCHANGED attempt
    /\ UNCHANGED <<files, disk, at, run, writes>>

(* The last step reads every planned file again. *)
Validate ==
    /\ pc = "validate"
    /\ IF (\A i \in Places : Valid(i)) /\ report.written # {}
       THEN report' = [report EXCEPT !.status = "completed"] /\ pc' = "offer"
       ELSE report' = Failed /\ pc' = "done"
    /\ UNCHANGED <<files, disk, at, attempt, run, writes>>

-----------------------------------------------------------------------------
(* build_runtime_actions: install, compile, build, import, startup.        *)

If(condition, type) == IF condition THEN <<type>> ELSE <<>>

(* detect_boot_target: Python first, then Node, then Docker; a file may or *)
(* may not turn out to hold a service.                                     *)
Targets == {"none"} \cup (IF Of(Python) # {} \/ Of({"package"}) # {} THEN {"process"} ELSE {})
                    \cup (IF Of({"other"}) # {} THEN {"docker"} ELSE {})

Derived(target) ==
    If(Of({"requirements"}) # {}, "install python")
    \o If(Of({"package"}) # {}, "install node")
    \o If(Of(Python) # {}, "smoke_test")
    \o If(Of({"package"}) # {}, "build")
    \o If(Of({"main"}) # {}, "import_smoke")
    \o If(target # "none", target)

(* _execute_approved_plan offers the actions for an approval of their own. *)
OfferActions ==
    /\ pc = "offer"
    /\ \E target \in Targets : actions' = Derived(target)
    /\ pc' = IF actions' = <<>> THEN "done" ELSE "offered"
    /\ UNCHANGED <<files, disk, at, attempt, report, evidence, probes, child, writes>>

Approve ==
    /\ pc = "offered"
    /\ pc' = "action" /\ at' = 1 /\ attempt' = 0
    /\ UNCHANGED <<files, disk, report, run, writes>>

-----------------------------------------------------------------------------
(* execute_runtime_validation *)

Startup == {"process", "docker"}
Type == actions[at]

(* The files a command parses, and so fails on when they are bad; an empty *)
(* requirements.txt installs nothing, and an empty .py compiles.           *)
Reads(type) ==
    CASE type = "install python" -> {}
      [] type \in {"install node", "build"} -> Of({"package"})
      [] type = "smoke_test" -> Of(Python)
      [] type = "import_smoke" -> Of({"main"})

Advance ==
    IF at < Len(actions) THEN pc' = "action" /\ at' = at + 1 /\ attempt' = 0
                         ELSE pc' = "done" /\ UNCHANGED <<at, attempt>>

(* Mutant of Give: the failure is not recorded. *)
GiveNothing(status) == UNCHANGED evidence

Give(status) == evidence' = [evidence EXCEPT !.status = status]

CommandPasses ==
    /\ pc = "action" /\ Type \notin Startup
    /\ \A i \in Reads(Type) : disk[i] # "bad"
    /\ evidence' = [evidence EXCEPT !.commands = Append(@, [action |-> at, ok |-> TRUE])]
    /\ Advance
    /\ UNCHANGED <<files, disk, report, actions, probes, child, writes>>

(* Mutant of AfterFailure: the loop over the actions goes on. *)
AfterFailureNext ==
    /\ UNCHANGED disk
    /\ Advance

(* No repair is possible, or the retry failed too: the loop ends. *)
AfterFailure ==
    /\ UNCHANGED disk
    /\ pc' = "done" /\ UNCHANGED <<at, attempt>>

CommandFails ==
    /\ pc = "action" /\ Type \notin Startup
    /\ evidence' = [evidence EXCEPT !.commands = Append(@, [action |-> at, ok |-> FALSE])]
    /\ pc' = "diagnose"
    /\ UNCHANGED <<files, disk, at, attempt, report, actions, probes, child, writes>>

(* _repair_target: the file the output points to, if any; a failed install *)
(* repairs only requirements.txt.                                          *)
RepairTargets == IF Type \in {"install python", "install node"} THEN Of({"requirements"}) ELSE Places

(* Mutant of MayRepair: every failure is repaired. *)
MayRepairAgain == RepairTargets # {}

MayRepair == attempt = 0 /\ RepairTargets # {}

(* The regenerated file is written, without a check, and the command is    *)
(* run again.                                                              *)
Repair ==
    /\ pc = "diagnose" /\ MayRepair
    /\ \E i \in RepairTargets : \E content \in Contents(i) :
        /\ Put(i, content)
        /\ evidence' = [evidence EXCEPT !.repairs = Append(@, at)]
    /\ attempt' = attempt + 1
    /\ pc' = "action"
    /\ UNCHANGED <<files, at, report, actions, probes, child>>

(* No target, no content, no write, or no attempt left. *)
Stop ==
    /\ pc = "diagnose"
    /\ Give("failed")
    /\ AfterFailure
    /\ UNCHANGED <<files, report, actions, probes, child, writes>>

-----------------------------------------------------------------------------
(* _run_startup_step and run_startup_probe *)

Skip ==
    /\ pc = "action" /\ Type \in Startup
    /\ ~Boot \/ Type = "docker"
    /\ Advance
    /\ UNCHANGED <<files, disk, report, run, writes>>

Launch ==
    /\ pc = "action" /\ Type = "process" /\ Boot
    /\ probes' = probes + 1
    /\ \/ child' = "starting" /\ pc' = "poll"
       \/ child' = "none" /\ pc' = "unhealthy"
    /\ UNCHANGED <<files, disk, at, attempt, report, actions, evidence, writes>>

(* A poll finds the child dead, or its health page answering. *)
PollCrashed ==
    /\ pc = "poll" /\ child \in {"left", "exited"}
    /\ pc' = "drain"
    /\ UNCHANGED <<files, disk, at, attempt, report, run, writes>>

PollAnswered ==
    /\ pc = "poll" /\ child = "ready"
    /\ pc' = "healthy"
    /\ UNCHANGED <<files, disk, at, attempt, report, run, writes>>

(* Mutant of Deadline: a child that is still starting is waited for. *)
DeadlineOnceReady ==
    /\ pc = "poll" /\ child = "ready"
    /\ pc' = "drain"
    /\ UNCHANGED <<files, disk, at, attempt, report, run, writes>>

Deadline ==
    /\ pc = "poll"
    /\ pc' = "drain"
    /\ UNCHANGED <<files, disk, at, attempt, report, run, writes>>

(* _drain reads the child's output to its end, after a crash as after the  *)
(* deadline: it returns when the child has exited and no process it left   *)
(* behind holds the pipe.                                                  *)
Drain ==
    /\ pc = "drain" /\ child = "exited"
    /\ pc' = "unhealthy"
    /\ UNCHANGED <<files, disk, at, attempt, report, run, writes>>

(* Mutant of TornDown: terminate alone, which a child may ignore. *)
TornDownPolitely == IF child = "ready" THEN "ready" ELSE "none"

(* _teardown, in the finally block: terminate, then kill. *)
TornDown == "none"

ProbeSucceeds ==
    /\ pc = "healthy"
    /\ child' = TornDown
    /\ evidence' = [evidence EXCEPT !.startup = "success"]
    /\ Advance
    /\ UNCHANGED <<files, disk, report, actions, probes, writes>>

(* Exactly one retry. *)
MayReprobe == probes = 1

ReprobeRepaired ==
    /\ pc = "unhealthy" /\ MayReprobe
    /\ child' = TornDown
    /\ \E i \in Places : \E content \in Contents(i) :
        /\ Put(i, content)
        /\ evidence' = [evidence EXCEPT !.repairs = Append(@, at)]
    /\ pc' = "action"
    /\ UNCHANGED <<files, at, attempt, report, actions, probes>>

ProbeFails ==
    /\ pc = "unhealthy"
    /\ child' = TornDown
    /\ evidence' = [evidence EXCEPT !.startup = "failure", !.status = "failed"]
    /\ pc' = "done"
    /\ UNCHANGED <<files, disk, at, attempt, report, actions, probes, writes>>

(* The child answers, or dies, when it likes; a process it started may     *)
(* outlive it and keep its output open.                                    *)
ChildSteps ==
    /\ \/ child = "starting" /\ child' = "ready"
       \/ child \in {"starting", "ready"} /\ child' \in {"left", "exited"}
       \/ child = "left" /\ child' = "exited"
    /\ UNCHANGED <<files, disk, pc, at, attempt, report, actions, evidence, probes, writes>>

-----------------------------------------------------------------------------
Init ==
    /\ files \in Manifests
    /\ disk = [i \in Places |-> "absent"]
    /\ pc = "write" /\ at = 1 /\ attempt = 0
    /\ report = [status |-> "failed", written |-> {}, repairs |-> <<>>]
    /\ actions = <<>>
    /\ evidence = [status |-> "completed", commands |-> <<>>, repairs |-> <<>>, startup |-> "none"]
    /\ probes = 0
    /\ child = "none"
    /\ writes = [i \in Places |-> 0]

Work ==
    \/ Refuse \/ NoContent \/ Write \/ CheckPasses \/ CheckFails \/ Retry \/ Validate \/ OfferActions
    \/ CommandPasses \/ CommandFails \/ Repair \/ Stop
    \/ Skip \/ Launch \/ PollCrashed \/ PollAnswered \/ Deadline \/ Drain
    \/ ProbeSucceeds \/ ReprobeRepaired \/ ProbeFails

Next == Work \/ Approve \/ ChildSteps

Spec == Init /\ [][Next]_vars

(* The thread goes on; nothing is assumed of the user or of the child.     *)
FairSpec == Spec /\ WF_vars(Work)

-----------------------------------------------------------------------------
(* Properties *)

TypeOK ==
    /\ files \in Manifests
    /\ disk \in [Places -> {"absent", "empty", "bad", "good"}]
    /\ pc \in {"write", "check", "retry", "validate", "offer", "offered", "action", "diagnose",
               "poll", "drain", "healthy", "unhealthy", "done"}
    /\ at \in 1..(Len(files) + Len(actions)) /\ attempt \in 0..1
    /\ report.status \in {"failed", "completed"} /\ report.written \subseteq Places
    /\ evidence.status \in {"failed", "completed"}
    /\ evidence.startup \in {"none", "success", "failure"}
    /\ child \in {"none", "starting", "ready", "left", "exited"}

Commands == evidence.commands

(* The runs of an action, whether it passed the last of them, its repairs. *)
Tries(a) == {n \in DOMAIN Commands : Commands[n].action = a}
Passed(a) == \E n \in Tries(a) : Commands[n].ok /\ \A m \in Tries(a) : m <= n
Repairs(a) == {n \in DOMAIN evidence.repairs : evidence.repairs[n] = a}

(* "Completion demands evidence": when a plan is reported completed, every *)
(* planned file is on disk, was read back and is well formed, after        *)
(* however many failed attempts (execute_plan).                            *)
CompletedIsVerified ==
    report.status = "completed" /\ pc \in {"offer", "offered"} =>
        \A i \in Places : disk[i] = "good" /\ i \in report.written

(* One repair each: a plan step writes its file at most twice, and each    *)
(* action, the probe included, adds at most one write in all and at most   *)
(* one more run of itself, which only a repair justifies.                  *)
OneRepairEach ==
    /\ \A i \in Places : writes[i] <= 2 + Len(evidence.repairs)
    /\ \A a \in DOMAIN actions : /\ Cardinality(Tries(a)) <= 2
                                 /\ Cardinality(Repairs(a)) <= 1
                                 /\ Cardinality(Tries(a)) = 2 => Repairs(a) # {}
    /\ probes <= 2 /\ (probes = 2 => Repairs(at) # {})

(* The order is install, compile, build, import, startup, and nothing runs *)
(* after a failure: an action has run, and the child was launched, only    *)
(* when every earlier command has passed in its last run.                  *)
InOrder ==
    LET reached == {Commands[n].action : n \in DOMAIN Commands}
                   \cup (IF probes > 0 THEN {Len(actions)} ELSE {})
    IN  \A a \in reached, b \in DOMAIN actions : b < a => Passed(b)

(* The verdict of the runtime validation is the truth about its actions:   *)
(* completed when and only when every command passed in its last run and   *)
(* the service, if it was started, answered.                               *)
VerdictIsHonest ==
    pc = "done" /\ actions # <<>> =>
        (evidence.status = "completed" <=>
            \A a \in DOMAIN actions :
                IF actions[a] \in Startup THEN evidence.startup # "failure"
                ELSE Passed(a))

(* "ALWAYS tear the process down": once a probe is over, by success,       *)
(* crash, failed launch or timeout, its child is gone.                     *)
NoChildLeft == pc \in {"done", "action", "diagnose"} => child = "none"

(* The validation as a whole: actions in order, one repair each, no child  *)
(* left, a verdict that says how they ended, and every value of its type.  *)
ValidationIsHonest == TypeOK /\ InOrder /\ OneRepairEach /\ VerdictIsHonest /\ NoChildLeft

(* Every loop ends: the plan is decided and the approved validation too,   *)
(* unless the thread waits for the output of a child that outlives its     *)
(* deadline, or of a process that outlives the child.                      *)
RunEnds == []<>(pc \in {"done", "offered"} \/ (pc = "drain" /\ child # "exited"))
=============================================================================
