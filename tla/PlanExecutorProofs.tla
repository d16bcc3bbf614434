------------------------- MODULE PlanExecutorProofs -------------------------
(***************************************************************************)
(* Proofs about PlanExecutor for every manifest and both settings of the   *)
(* boot validation.  A plan is reported completed only when each of its    *)
(* files was read back and is good; that needs that the steps before the   *)
(* one in progress are all written, and that no runtime repair, which      *)
(* writes without a check, comes before the actions were approved.         *)
(***************************************************************************)
EXTENDS PlanExecutor, FiniteSetTheorems, TLAPS

USE ExecutorAssumption

Planning == {"write", "check", "retry"}
Probing == {"poll", "drain", "healthy", "unhealthy"}

Types == {"install python", "install node", "smoke_test", "build", "import_smoke", "process", "docker"}

Reports == [status : {"failed", "completed"}, written : SUBSET Places, repairs : Seq(Nat)]

(* The inductive invariant: the types, the files the steps so far have     *)
(* written, and the child that only a probe in progress has.               *)
Typed ==
    /\ files \in Manifests /\ actions \in Seq(Types)
    /\ disk \in [Places -> {"absent", "empty", "bad", "good"}]
    /\ report \in Reports
    /\ at \in 1..(Len(files) + Len(actions)) /\ attempt \in 0..1
    /\ child \in {"none", "starting", "ready", "left", "exited"}
    /\ pc \in Planning \cup Probing \cup {"validate", "offer", "offered", "action", "diagnose", "done"}

StepsWritten ==
    /\ pc \in Planning => at <= Len(files) /\ actions = <<>> /\ \A i \in 1..(at - 1) : i \in report.written
    /\ pc \in {"validate", "offer"} => report.written = Places /\ at <= Len(files) /\ actions = <<>>
    /\ pc \in Planning \cup {"validate"} => report.status = "failed"
    /\ pc \in {"action", "diagnose"} \cup Probing => at <= Len(actions)
    /\ pc = "offered" => Len(actions) > 0

ChildOfProbe == child = "none" \/ pc \in Probing

PlanInv == Typed /\ StepsWritten /\ ChildOfProbe /\ CompletedIsVerified

(* The manifest is a sequence that is not empty.                           *)
LEMMA ManifestIsSequence ==
  ASSUME files \in Manifests
  PROVE  /\ files \in Seq(Sorts) /\ Len(files) \in Nat \ {0}
         /\ Places = 1..Len(files)
<1>1. files \in Seq(Sorts) /\ files # <<>>
  OBVIOUS
<1> QED
  BY <1>1 DEF Places

(* What is derived from the files is a sequence of action types.           *)
LEMMA DerivedIsSequence ==
  ASSUME NEW target \in {"none", "process", "docker"}
  PROVE  Derived(target) \in Seq(Types)
<1>1. ASSUME NEW condition, NEW type, condition => type \in Types PROVE If(condition, type) \in Seq(Types)
  <2>1. <<>> \in Seq(Types)
    OBVIOUS
  <2>2. condition => <<type>> \in Seq(Types)
    BY <1>1
  <2> QED
    BY <2>1, <2>2 DEF If
<1>2. \A s, t \in Seq(Types) : s \o t \in Seq(Types)
  OBVIOUS
<1>3. target # "none" => target \in Types
  BY DEF Types
<1> DEFINE python == If(Of({"requirements"}) # {}, "install python")
           node == If(Of({"package"}) # {}, "install node")
           smoke == If(Of(Python) # {}, "smoke_test")
           build == If(Of({"package"}) # {}, "build")
           import == If(Of({"main"}) # {}, "import_smoke")
           startup == If(target # "none", target)
<1>4. /\ python \in Seq(Types) /\ node \in Seq(Types) /\ smoke \in Seq(Types)
      /\ build \in Seq(Types) /\ import \in Seq(Types) /\ startup \in Seq(Types)
  <2>1. {"install python", "install node", "smoke_test", "build", "import_smoke"} \subseteq Types
    BY DEF Types
  <2> QED
    BY <1>1, <1>3, <2>1
<1> HIDE DEF python, node, smoke, build, import, startup
<1>5. python \o node \o smoke \o build \o import \o startup \in Seq(Types)
  BY <1>2, <1>4
<1> QED
  BY <1>5 DEF Derived, python, node, smoke, build, import, startup

LEMMA InitHolds == Init => PlanInv
<1> SUFFICES ASSUME Init PROVE PlanInv
  OBVIOUS
<1>1. files \in Manifests
  BY DEF Init
<1> QED
  BY <1>1, ManifestIsSequence
     DEF Init, PlanInv, Typed, StepsWritten, ChildOfProbe, CompletedIsVerified, Reports,
         Planning, Probing, Places

(* The steps of the plan, up to the offer of its runtime actions.          *)
LEMMA PlanKeeps ==
  ASSUME PlanInv, Refuse \/ NoContent \/ Write \/ CheckPasses \/ CheckFails \/ Retry \/ Validate
  PROVE  PlanInv'
<1> USE DEF PlanInv, Typed, StepsWritten, ChildOfProbe, CompletedIsVerified, Reports, Planning, Probing, Places, run
<1>f. files' = files /\ files \in Seq(Sorts) /\ Len(files) \in Nat \ {0} /\ DOMAIN files = 1..Len(files)
  BY ManifestIsSequence DEF Refuse, NoContent, Write, CheckPasses, CheckFails, Retry, Validate
<1>1. CASE Refuse
  BY <1>1, <1>f DEF Refuse, Failed
<1>2. CASE NoContent
  BY <1>2, <1>f DEF NoContent, Failed
<1>3. CASE Write
  <2>1. disk' \in [Places -> {"absent", "empty", "bad", "good"}]
    BY <1>3 DEF Write, Put, Contents
  <2>2. pc' \in {"retry", "check"} /\ UNCHANGED <<at, attempt, report, actions, child>>
    BY <1>3 DEF Write
  <2> QED
    BY <1>3, <1>f, <2>1, <2>2 DEF Write
<1>4. CASE CheckPasses
  <2>1. report'.written = report.written \cup {at} /\ report'.status = report.status
    BY <1>4 DEF CheckPasses
  <2>2. report' \in Reports
    <3>1. Append(report.repairs, at) \in Seq(Nat)
      BY <1>4, <1>f
    <3>2. at \in Places
      BY <1>4, <1>f DEF CheckPasses
    <3> QED
      BY <1>4, <1>f, <3>1, <3>2 DEF CheckPasses
  <2>3. CASE at < Len(files)
    BY <1>4, <1>f, <2>1, <2>2, <2>3 DEF CheckPasses, AfterStep
  <2>4. CASE ~(at < Len(files))
    <3>1. at = Len(files) /\ report'.written = 1..Len(files)
      BY <1>4, <1>f, <2>1, <2>4 DEF CheckPasses
    <3> QED
      BY <1>4, <1>f, <2>1, <2>2, <2>4, <3>1 DEF CheckPasses, AfterStep
  <2> QED
    BY <2>3, <2>4
<1>5. CASE CheckFails
  BY <1>5, <1>f DEF CheckFails
<1>6. CASE Retry
  BY <1>6, <1>f DEF Retry, MayRetry, Failed
<1>7. CASE Validate
  <2>1. /\ report' \in Reports /\ report'.written = report.written
        /\ UNCHANGED <<disk, at, attempt, actions, child>>
    <3>1. \/ report' = [report EXCEPT !.status = "completed"]
          \/ report' = [report EXCEPT !.status = "failed"]
      BY <1>7 DEF Validate, Failed
    <3>2. UNCHANGED <<disk, at, attempt, actions, child>>
      BY <1>7 DEF Validate
    <3> QED
      BY <3>1, <3>2
  <2>2. CASE \A i \in Places : Valid(i)
    <3>1. report.written = 1..Len(files) /\ report.written # {}
      <4>1. 1 \in 1..Len(files)
        BY <1>f
      <4> QED
        BY <1>7, <1>f, <4>1 DEF Validate
    <3>2. pc' = "offer"
      BY <1>7, <2>2, <3>1 DEF Validate
    <3> QED
      BY <1>7, <1>f, <2>1, <2>2, <3>1, <3>2 DEF Validate, Valid
  <2>3. CASE ~\A i \in Places : Valid(i)
    <3>1. pc' = "done"
      BY <1>7, <2>3 DEF Validate
    <3> QED
      BY <1>7, <1>f, <2>1, <3>1 DEF Validate
  <2> QED
    BY <2>2, <2>3
<1> QED
  BY <1>1, <1>2, <1>3, <1>4, <1>5, <1>6, <1>7

(* The offer, its approval, and the commands.                              *)
LEMMA CommandsKeep ==
  ASSUME PlanInv, OfferActions \/ Approve \/ CommandPasses \/ CommandFails \/ Repair \/ Stop
  PROVE  PlanInv'
<1> USE DEF PlanInv, Typed, StepsWritten, ChildOfProbe, CompletedIsVerified, Planning, Probing, Places, run
<1>f. files' = files /\ files \in Seq(Sorts) /\ Len(files) \in Nat \ {0} /\ DOMAIN files = 1..Len(files)
  BY ManifestIsSequence DEF OfferActions, Approve, CommandPasses, CommandFails, Repair, Stop
<1>r. report' = report /\ Reports' = Reports
  BY <1>f DEF OfferActions, Approve, CommandPasses, CommandFails, Repair, Stop, Reports
<1>1. CASE OfferActions
  <2>1. actions' \in Seq(Types)
    BY <1>1, DerivedIsSequence DEF OfferActions, Targets
  <2> QED
    BY <1>1, <1>f, <1>r, <2>1 DEF OfferActions
<1>2. CASE Approve
  BY <1>2, <1>f, <1>r DEF Approve
<1>3. CASE CommandPasses
  BY <1>3, <1>f, <1>r DEF CommandPasses, Advance
<1>4. CASE CommandFails
  BY <1>4, <1>f, <1>r DEF CommandFails
<1>5. CASE Repair
  <2>1. disk' \in [Places -> {"absent", "empty", "bad", "good"}]
    BY <1>5 DEF Repair, Put, Contents
  <2> QED
    BY <1>5, <1>f, <1>r, <2>1 DEF Repair, MayRepair
<1>6. CASE Stop
  BY <1>6, <1>f, <1>r DEF Stop, Give, AfterFailure
<1> QED
  BY <1>1, <1>2, <1>3, <1>4, <1>5, <1>6

(* The startup probe and its child.                                        *)
LEMMA ProbeKeeps ==
  ASSUME PlanInv,
         Skip \/ Launch \/ PollCrashed \/ PollAnswered \/ Deadline \/ Drain \/ ProbeSucceeds
         \/ ReprobeRepaired \/ ProbeFails \/ ChildSteps
  PROVE  PlanInv'
<1> USE DEF PlanInv, Typed, StepsWritten, ChildOfProbe, CompletedIsVerified, Planning, Probing, Places, run
<1>f. files' = files /\ files \in Seq(Sorts) /\ Len(files) \in Nat \ {0} /\ DOMAIN files = 1..Len(files)
  BY ManifestIsSequence
     DEF Skip, Launch, PollCrashed, PollAnswered, Deadline, Drain, ProbeSucceeds, ReprobeRepaired, ProbeFails, ChildSteps
<1>r. report' = report /\ Reports' = Reports
  BY <1>f
     DEF Skip, Launch, PollCrashed, PollAnswered, Deadline, Drain, ProbeSucceeds, ReprobeRepaired, ProbeFails, ChildSteps, Reports
<1>1. CASE Skip
  BY <1>1, <1>f, <1>r DEF Skip, Advance
<1>2. CASE Launch
  BY <1>2, <1>f, <1>r DEF Launch
<1>3. CASE PollCrashed \/ PollAnswered \/ Deadline \/ Drain
  BY <1>3, <1>f, <1>r DEF PollCrashed, PollAnswered, Deadline, Drain
<1>4. CASE ProbeSucceeds
  BY <1>4, <1>f, <1>r DEF ProbeSucceeds, TornDown, Advance
<1>5. CASE ReprobeRepaired
  <2>1. disk' \in [Places -> {"absent", "empty", "bad", "good"}]
    BY <1>5 DEF ReprobeRepaired, Put, Contents
  <2> QED
    BY <1>5, <1>f, <1>r, <2>1 DEF ReprobeRepaired, TornDown
<1>6. CASE ProbeFails
  BY <1>6, <1>f, <1>r DEF ProbeFails, TornDown
<1>7. CASE ChildSteps
  BY <1>7, <1>f, <1>r DEF ChildSteps
<1> QED
  BY <1>1, <1>2, <1>3, <1>4, <1>5, <1>6, <1>7

(* The invariant of the plan holds in every state. *)
THEOREM PlanInvariant == Spec => []PlanInv
<1>1. PlanInv /\ [Next]_vars => PlanInv'
  <2> SUFFICES ASSUME PlanInv, [Next]_vars PROVE PlanInv'
    OBVIOUS
  <2>1. CASE Next
    BY <2>1, PlanKeeps, CommandsKeep, ProbeKeeps DEF Next, Work
  <2>2. CASE UNCHANGED vars
    BY <2>2 DEF vars, PlanInv, Typed, StepsWritten, ChildOfProbe, CompletedIsVerified, Reports, Places
  <2> QED
    BY <2>1, <2>2
<1> QED
  BY <1>1, InitHolds, PTL DEF Spec

(* A plan is reported completed, and its runtime actions are offered, only *)
(* when each of its files is on disk, was read back after its step and is  *)
(* well formed (execute_plan, _validate_written_file), for every manifest; *)
(* and once a probe is over its child is gone (startup_validator).         *)
THEOREM CompletedPlansAreVerified == Spec => [](CompletedIsVerified /\ NoChildLeft)
<1>1. PlanInv => CompletedIsVerified /\ NoChildLeft
  BY DEF PlanInv, ChildOfProbe, NoChildLeft, Probing
<1> QED
  BY <1>1, PlanInvariant, PTL

-----------------------------------------------------------------------------
(* The runtime validation: what it has done so far, by its program         *)
(* counter.                                                                *)

Running == {"action", "diagnose"} \cup Probing

Runs == [action : Nat, ok : BOOLEAN]

(* Tries, Passed and Repairs of a given sequence of commands or repairs. *)
TriesIn(cs, a) == {n \in DOMAIN cs : cs[n].action = a}
PassedIn(cs, a) == \E n \in TriesIn(cs, a) : cs[n].ok /\ \A m \in TriesIn(cs, a) : m <= n
RepairsIn(rs, a) == {n \in DOMAIN rs : rs[n] = a}

EvidenceTyped ==
    /\ evidence \in [status : {"failed", "completed"}, commands : Seq(Runs), repairs : Seq(Nat),
                     startup : {"none", "success", "failure"}]
    /\ writes \in [Places -> Nat]
    /\ probes \in 0..2

(* build_runtime_actions puts the startup action at the end. *)
StartupIsLast == \A a \in DOMAIN actions : actions[a] \in Startup => a = Len(actions)

(* A step has written its file once per attempt; later steps have not      *)
(* begun.                                                                  *)
WritesCounted ==
    /\ \A i \in Places : writes[i] <= 2 + Len(evidence.repairs)
    /\ pc \in Planning =>
         /\ writes[at] <= (IF pc = "write" THEN attempt ELSE attempt + 1)
         /\ \A i \in Places : i > at => writes[i] = 0

(* Nothing has run before the actions are approved. *)
NothingRan ==
    pc \notin Running /\ (pc = "done" => actions = <<>>) =>
        /\ Commands = <<>> /\ evidence.repairs = <<>>
        /\ evidence.status = "completed" /\ evidence.startup = "none" /\ probes = 0

(* The actions before the one in progress have passed, those after it have *)
(* not run, and only the last one is probed.                               *)
Reached ==
    pc \in Running \cup {"done"} /\ actions # <<>> =>
        /\ at \in DOMAIN actions
        /\ \A a \in DOMAIN actions : a < at => PassedIn(Commands, a)
        /\ \A n \in DOMAIN Commands : Commands[n].action \in 1..at
        /\ \A n \in DOMAIN evidence.repairs : evidence.repairs[n] \in 1..at
        /\ probes > 0 => at = Len(actions)

RepairedOnce ==
    \A a \in DOMAIN actions :
        /\ Cardinality(TriesIn(Commands, a)) <= 2
        /\ Cardinality(RepairsIn(evidence.repairs, a)) <= 1
        /\ Cardinality(TriesIn(Commands, a)) = 2 => RepairsIn(evidence.repairs, a) # {}

(* The command in progress has run once per attempt, and failed when it is *)
(* diagnosed; it was repaired once per further attempt.                    *)
CommandInProgress ==
    /\ pc \in {"action", "diagnose"} /\ probes = 0
    /\ Cardinality(RepairsIn(evidence.repairs, at)) = attempt
    /\ Cardinality(TriesIn(Commands, at)) = (IF pc = "action" THEN attempt ELSE attempt + 1)
    /\ pc = "diagnose" => ~PassedIn(Commands, at)

(* The startup action runs no command, and its second probe follows a      *)
(* repair.                                                                 *)
ProbeInProgress ==
    /\ pc # "diagnose" /\ attempt = 0 /\ TriesIn(Commands, at) = {}
    /\ pc \in Probing => Type = "process" /\ probes > 0
    /\ pc = "action" => probes < 2
    /\ Cardinality(RepairsIn(evidence.repairs, at)) = (IF probes = 2 \/ (pc = "action" /\ probes = 1) THEN 1 ELSE 0)

InProgress ==
    pc \in Running =>
        /\ evidence.status = "completed" /\ evidence.startup = "none"
        /\ IF Type \in Startup THEN ProbeInProgress ELSE CommandInProgress

(* VerdictIsHonest *)
VerdictInv ==
    pc = "done" /\ actions # <<>> =>
        (evidence.status = "completed" <=>
            \A a \in DOMAIN actions :
                IF actions[a] \in Startup THEN evidence.startup # "failure"
                ELSE PassedIn(Commands, a))

RunInv ==
    /\ EvidenceTyped /\ StartupIsLast /\ WritesCounted /\ NothingRan
    /\ Reached /\ RepairedOnce /\ InProgress /\ VerdictInv
    /\ probes = 2 => RepairsIn(evidence.repairs, at) # {}

(* Runs and repairs of an action are finitely many. *)
LEMMA CountedAreFinite ==
  ASSUME EvidenceTyped, NEW a
  PROVE  /\ IsFiniteSet(TriesIn(Commands, a)) /\ Cardinality(TriesIn(Commands, a)) \in Nat
         /\ IsFiniteSet(RepairsIn(evidence.repairs, a)) /\ Cardinality(RepairsIn(evidence.repairs, a)) \in Nat
<1>1. /\ Commands \in Seq(Runs) /\ evidence.repairs \in Seq(Nat)
      /\ Len(Commands) \in Nat /\ Len(evidence.repairs) \in Nat
  BY DEF EvidenceTyped, Commands
<1>2. IsFiniteSet(1..Len(Commands)) /\ IsFiniteSet(1..Len(evidence.repairs))
  BY <1>1, FS_Interval
<1>3. TriesIn(Commands, a) \subseteq 1..Len(Commands) /\ RepairsIn(evidence.repairs, a) \subseteq 1..Len(evidence.repairs)
  BY <1>1 DEF TriesIn, RepairsIn
<1> QED
  BY <1>2, <1>3, FS_Subset, FS_CardinalityType

(* The run of k that is appended to the evidence. *)
RanOnceMore(k, b) ==
    /\ \A a \in Nat \ {k} : TriesIn(Commands', a) = TriesIn(Commands, a) /\ (PassedIn(Commands', a) <=> PassedIn(Commands, a))
    /\ Cardinality(TriesIn(Commands', k)) = Cardinality(TriesIn(Commands, k)) + 1
    /\ PassedIn(Commands', k) <=> b
    /\ \A a \in Nat : RepairsIn(evidence'.repairs, a) = RepairsIn(evidence.repairs, a)
    /\ \A n \in DOMAIN Commands' : Commands'[n].action = k \/ (n \in DOMAIN Commands /\ Commands'[n] = Commands[n])
    /\ evidence'.repairs = evidence.repairs
    /\ evidence'.status = evidence.status /\ evidence'.startup = evidence.startup

Ran(k, b) == evidence' = [evidence EXCEPT !.commands = Append(@, [action |-> k, ok |-> b])]

LEMMA RunIsCounted ==
  ASSUME EvidenceTyped, NEW k \in Nat, NEW b \in BOOLEAN, Ran(k, b), UNCHANGED <<files, writes, probes>>
  PROVE  RanOnceMore(k, b) /\ EvidenceTyped'
<1> DEFINE r == [action |-> k, ok |-> b]
           n == Len(Commands) + 1
<1>1. Commands \in Seq(Runs) /\ Len(Commands) \in Nat /\ r \in Runs /\ r.action = k /\ r.ok = b
  BY DEF EvidenceTyped, Commands, Runs
<1> HIDE DEF r
<1>2. /\ Commands' = Append(Commands, r) /\ evidence'.repairs = evidence.repairs
      /\ evidence'.status = evidence.status /\ evidence'.startup = evidence.startup
  BY DEF EvidenceTyped, Commands, Ran, r
<1>3. EvidenceTyped'
  <2>1. Append(evidence.commands, r) \in Seq(Runs)
    BY <1>1 DEF Commands
  <2>2. evidence' = [evidence EXCEPT !.commands = Append(evidence.commands, r)]
    BY DEF Ran, r
  <2> QED
    BY <2>1, <2>2 DEF EvidenceTyped, Places
<1>4. /\ DOMAIN Commands = 1..(n - 1) /\ DOMAIN Commands' = 1..n
      /\ \A m \in 1..(n - 1) : Commands'[m] = Commands[m]
      /\ Commands'[n] = r /\ n \in Nat \ {0}
  BY <1>1, <1>2
<1> HIDE DEF n
<1>5. \A a : TriesIn(Commands', a) = {m \in DOMAIN Commands' : Commands'[m].action = a}
  BY DEF TriesIn
<1>6. TriesIn(Commands', k) = TriesIn(Commands, k) \cup {n} /\ n \notin TriesIn(Commands, k)
  BY <1>1, <1>4 DEF TriesIn
<1>7. Cardinality(TriesIn(Commands', k)) = Cardinality(TriesIn(Commands, k)) + 1
  BY <1>6, CountedAreFinite, FS_AddElement
<1>8. ASSUME NEW a \in Nat \ {k}
      PROVE  TriesIn(Commands', a) = TriesIn(Commands, a) /\ (PassedIn(Commands', a) <=> PassedIn(Commands, a))
  <2>1. TriesIn(Commands', a) = TriesIn(Commands, a)
    BY <1>1, <1>4 DEF TriesIn
  <2>2. \A m \in TriesIn(Commands, a) : Commands'[m] = Commands[m]
    BY <1>4 DEF TriesIn
  <2> QED
    BY <2>1, <2>2 DEF PassedIn
<1>9. PassedIn(Commands', k) <=> b
  <2>1. \A m \in TriesIn(Commands', k) : m \in Nat /\ m <= n
    BY <1>4, <1>6 DEF TriesIn
  <2>2. n \in TriesIn(Commands', k) /\ Commands'[n].ok = b
    BY <1>1, <1>4, <1>6
  <2>3. \A m \in TriesIn(Commands', k) : (\A l \in TriesIn(Commands', k) : l <= m) => m = n
    BY <2>1, <2>2, <1>4
  <2>4. PassedIn(Commands', k) <=> \E m \in TriesIn(Commands', k) : Commands'[m].ok /\ \A l \in TriesIn(Commands', k) : l <= m
    BY DEF PassedIn
  <2> QED
    BY <2>1, <2>2, <2>3, <2>4
<1>10. \A a \in Nat : RepairsIn(evidence'.repairs, a) = RepairsIn(evidence.repairs, a)
  BY <1>2 DEF RepairsIn
<1>11. \A m \in DOMAIN Commands' : Commands'[m].action = k \/ (m \in DOMAIN Commands /\ Commands'[m] = Commands[m])
  BY <1>1, <1>4
<1> QED
  BY <1>2, <1>3, <1>7, <1>8, <1>9, <1>10, <1>11 DEF RanOnceMore

(* The repair of k that is appended to the evidence. *)
RepairedOnceMore(k) ==
    /\ \A a \in Nat \ {k} : RepairsIn(evidence'.repairs, a) = RepairsIn(evidence.repairs, a)
    /\ Cardinality(RepairsIn(evidence'.repairs, k)) = Cardinality(RepairsIn(evidence.repairs, k)) + 1 /\ RepairsIn(evidence'.repairs, k) # {}
    /\ Commands' = Commands /\ evidence'.status = evidence.status /\ evidence'.startup = evidence.startup
    /\ \A n \in DOMAIN evidence'.repairs :
         evidence'.repairs[n] = k \/ (n \in DOMAIN evidence.repairs /\ evidence'.repairs[n] = evidence.repairs[n])
    /\ Len(evidence'.repairs) = Len(evidence.repairs) + 1
    /\ \A a \in Nat : TriesIn(Commands', a) = TriesIn(Commands, a) /\ (PassedIn(Commands', a) <=> PassedIn(Commands, a))

Mended(k) == evidence' = [evidence EXCEPT !.repairs = Append(@, k)]

LEMMA RepairIsCounted ==
  ASSUME EvidenceTyped, NEW k \in Nat, Mended(k)
  PROVE  /\ RepairedOnceMore(k)
         /\ UNCHANGED <<files, probes>> /\ writes' \in [Places -> Nat] => EvidenceTyped'
<1> DEFINE rs == evidence.repairs
           n == Len(rs) + 1
<1>1. rs \in Seq(Nat) /\ Len(rs) \in Nat
  BY DEF EvidenceTyped
<1>2. /\ evidence'.repairs = Append(rs, k) /\ Commands' = Commands
      /\ evidence'.status = evidence.status /\ evidence'.startup = evidence.startup
  BY DEF EvidenceTyped, Commands, Mended
<1>3. UNCHANGED <<files, probes>> /\ writes' \in [Places -> Nat] => EvidenceTyped'
  <2>1. Append(rs, k) \in Seq(Nat)
    BY <1>1
  <2>2. evidence' = [evidence EXCEPT !.repairs = Append(rs, k)]
    BY DEF Mended
  <2> QED
    BY <2>1, <2>2 DEF EvidenceTyped, Places
<1>4. /\ DOMAIN rs = 1..(n - 1) /\ DOMAIN evidence'.repairs = 1..n
      /\ \A m \in 1..(n - 1) : evidence'.repairs[m] = rs[m]
      /\ evidence'.repairs[n] = k /\ n \in Nat \ {0} /\ Len(evidence'.repairs) = n
  BY <1>1, <1>2
<1> HIDE DEF n
<1>5. RepairsIn(evidence'.repairs, k) = RepairsIn(evidence.repairs, k) \cup {n} /\ n \notin RepairsIn(evidence.repairs, k)
  BY <1>4 DEF RepairsIn
<1>6. Cardinality(RepairsIn(evidence'.repairs, k)) = Cardinality(RepairsIn(evidence.repairs, k)) + 1
  BY <1>5, CountedAreFinite, FS_AddElement
<1>7. \A a \in Nat \ {k} : RepairsIn(evidence'.repairs, a) = RepairsIn(evidence.repairs, a)
  BY <1>4 DEF RepairsIn
<1>8. \A a \in Nat : TriesIn(Commands', a) = TriesIn(Commands, a) /\ (PassedIn(Commands', a) <=> PassedIn(Commands, a))
  BY <1>2 DEF TriesIn, PassedIn
<1>9. \A m \in DOMAIN evidence'.repairs : evidence'.repairs[m] = k \/ (m \in DOMAIN rs /\ evidence'.repairs[m] = rs[m])
  BY <1>4
<1>10. Len(evidence'.repairs) = Len(rs) + 1
  BY <1>4 DEF n
<1> QED
  BY <1>2, <1>3, <1>5, <1>6, <1>7, <1>8, <1>9, <1>10 DEF RepairedOnceMore

(* Whatever leaves the commands and the repairs alone leaves the counts.   *)
SameRuns ==
    /\ Commands' = Commands /\ evidence'.repairs = evidence.repairs
    /\ \A a \in Nat : /\ TriesIn(Commands', a) = TriesIn(Commands, a) /\ (PassedIn(Commands', a) <=> PassedIn(Commands, a))
                      /\ RepairsIn(evidence'.repairs, a) = RepairsIn(evidence.repairs, a)

LEMMA RunsAreSame ==
  ASSUME evidence'.commands = evidence.commands, evidence'.repairs = evidence.repairs
  PROVE  SameRuns
BY DEF SameRuns, Commands, TriesIn, PassedIn, RepairsIn

(* The startup action is derived last. *)
LEMMA StartupIsDerivedLast ==
  ASSUME NEW target \in {"none", "process", "docker"}, NEW a \in DOMAIN Derived(target),
         Derived(target)[a] \in Startup
  PROVE  a = Len(Derived(target))
<1> DEFINE commands == Types \ Startup
           python == If(Of({"requirements"}) # {}, "install python")
           node == If(Of({"package"}) # {}, "install node")
           smoke == If(Of(Python) # {}, "smoke_test")
           build == If(Of({"package"}) # {}, "build")
           import == If(Of({"main"}) # {}, "import_smoke")
           startup == If(target # "none", target)
           before == python \o node \o smoke \o build \o import
<1>1. ASSUME NEW condition, NEW type \in commands PROVE If(condition, type) \in Seq(commands)
  <2>1. <<>> \in Seq(commands) /\ <<type>> \in Seq(commands)
    BY <1>1
  <2> QED
    BY <2>1 DEF If
<1>2. {"install python", "install node", "smoke_test", "build", "import_smoke"} \subseteq commands
  BY DEF Types, Startup
<1>3. \A s, t \in Seq(commands) : s \o t \in Seq(commands)
  OBVIOUS
<1>4. before \in Seq(commands)
  <2>1. /\ python \in Seq(commands) /\ node \in Seq(commands) /\ smoke \in Seq(commands)
        /\ build \in Seq(commands) /\ import \in Seq(commands)
    BY <1>1, <1>2
  <2> HIDE DEF python, node, smoke, build, import, commands
  <2> QED
    BY <1>3, <2>1
<1>5. startup \in Seq(Types) /\ Len(startup) <= 1
  <2>1. CASE target = "none"
    BY <2>1 DEF If
  <2>2. CASE target # "none"
    <3>1. target \in Types /\ startup = <<target>>
      BY <2>2 DEF If, Types
    <3> HIDE DEF startup
    <3> QED
      BY <3>1
  <2> QED
    BY <2>1, <2>2
<1>6. Derived(target) = before \o startup
  BY DEF Derived
<1> HIDE DEF before, startup
<1>7. \A i \in 1..Len(before) : before[i] \notin Startup
  BY <1>4
<1>8. before \in Seq(Types)
  BY <1>4
<1> HIDE DEF commands
<1>9. /\ Len(Derived(target)) = Len(before) + Len(startup)
      /\ \A i \in 1..Len(before) : Derived(target)[i] = before[i]
      /\ DOMAIN Derived(target) = 1..(Len(before) + Len(startup))
  BY <1>5, <1>6, <1>8
<1> QED
  BY <1>5, <1>7, <1>8, <1>9

(* A step of the plan runs no action: all there is to show is the writes.  *)
LEMMA PlanningRuns ==
  ASSUME PlanInv, RunInv, pc \in Planning \cup {"validate"}, UNCHANGED <<files, run>>,
         pc' \in Planning \cup {"validate", "offer", "done"},
         writes' \in [Places -> Nat], WritesCounted'
  PROVE  RunInv'
<1>1. actions = <<>> /\ actions' = <<>> /\ evidence' = evidence /\ probes' = probes /\ DOMAIN actions' = {}
  BY DEF PlanInv, StepsWritten, run
<1>2. pc \notin Running /\ pc # "done" /\ pc' \notin Running
  BY DEF Planning, Running, Probing
<1>3. /\ Commands = <<>> /\ evidence.repairs = <<>>
      /\ evidence.status = "completed" /\ evidence.startup = "none" /\ probes = 0
  BY <1>2 DEF RunInv, NothingRan
<1>4. EvidenceTyped' /\ NothingRan'
  BY <1>1, <1>3 DEF RunInv, EvidenceTyped, NothingRan, Places, Commands
<1>5. StartupIsLast' /\ RepairedOnce' /\ Reached' /\ InProgress' /\ VerdictInv'
  BY <1>1, <1>2 DEF StartupIsLast, RepairedOnce, Reached, InProgress, VerdictInv
<1> QED
  BY <1>1, <1>3, <1>4, <1>5 DEF RunInv

LEMMA PlanStepsRun ==
  ASSUME PlanInv, RunInv, Refuse \/ NoContent \/ Write \/ CheckPasses \/ CheckFails \/ Retry \/ Validate
  PROVE  RunInv'
<1> USE DEF Planning
<1>f. files \in Seq(Sorts) /\ Len(files) \in Nat \ {0} /\ Places = 1..Len(files)
  BY ManifestIsSequence DEF PlanInv, Typed
<1>g. /\ pc \in Planning => at \in Places
      /\ attempt \in 0..1 /\ Len(files) \in Nat
  BY <1>f DEF PlanInv, Typed, StepsWritten
<1>w. /\ writes \in [Places -> Nat] /\ Len(evidence.repairs) \in Nat
      /\ \A i \in Places : writes[i] <= 2 + Len(evidence.repairs)
      /\ pc \in Planning =>
           /\ writes[at] <= (IF pc = "write" THEN attempt ELSE attempt + 1)
           /\ \A i \in Places : i > at => writes[i] = 0
  BY DEF RunInv, EvidenceTyped, WritesCounted
<1>1. CASE Refuse \/ NoContent \/ CheckFails
  <2>1. /\ UNCHANGED <<files, run, writes>> /\ pc \in Planning /\ pc' \in {"done", "retry"}
        /\ pc' = "retry" => pc = "check" /\ UNCHANGED <<at, attempt>>
    BY <1>1 DEF Refuse, NoContent, CheckFails
  <2>2. WritesCounted'
    BY <1>w, <2>1 DEF WritesCounted, Places, run
  <2> QED
    BY <1>w, <2>1, <2>2, PlanningRuns
<1>2. CASE Write
  <2>1. /\ UNCHANGED <<files, run, at, attempt>> /\ pc = "write" /\ pc' \in {"check", "retry"}
        /\ writes' = writes \/ writes' = [writes EXCEPT ![at] = @ + 1]
    BY <1>2 DEF Write, Put, Contents
  <2>2. /\ writes' \in [Places -> Nat] /\ writes'[at] <= attempt + 1
        /\ \A i \in Places : i # at => writes'[i] = writes[i]
    <3>1. CASE writes' = writes
      BY <1>g, <1>w, <2>1, <3>1
    <3>2. CASE writes' = [writes EXCEPT ![at] = @ + 1]
      <4>1. writes[at] \in Nat /\ writes[at] <= attempt
        BY <1>g, <1>w, <2>1
      <4>2. writes' = [writes EXCEPT ![at] = writes[at] + 1]
        BY <3>2
      <4> QED
        BY <1>g, <1>w, <2>1, <4>1, <4>2
    <3> QED
      BY <2>1, <3>1, <3>2
  <2>3. \A i \in Places : writes'[i] <= 2 + Len(evidence.repairs)
    BY <1>g, <1>w, <2>1, <2>2
  <2>4. WritesCounted'
    BY <1>g, <1>w, <2>1, <2>2, <2>3 DEF WritesCounted, Places, run
  <2> QED
    BY <2>1, <2>2, <2>4, PlanningRuns
<1>3. CASE CheckPasses
  <2>1. /\ UNCHANGED <<files, run, writes>> /\ pc = "check" /\ pc' \in {"write", "validate"} /\ attempt' = 0
        /\ pc' = "write" => at' = at + 1 /\ at < Len(files)
    BY <1>3 DEF CheckPasses, AfterStep
  <2>2. WritesCounted'
    <3>1. pc' = "write" => at' \in Places /\ writes[at'] = 0 /\ \A i \in Places : i > at' => writes[i] = 0
      BY <1>f, <1>g, <1>w, <2>1
    <3> QED
      BY <1>w, <2>1, <3>1 DEF WritesCounted, Places, run
  <2> QED
    BY <1>w, <2>1, <2>2, PlanningRuns
<1>4. CASE Retry
  <2>1. /\ UNCHANGED <<files, run, writes, at>> /\ pc = "retry" /\ pc' \in {"write", "done"}
        /\ pc' = "write" => attempt = 0 /\ attempt' = 1
    BY <1>4, <1>g DEF Retry, MayRetry
  <2>2. WritesCounted'
    BY <1>g, <1>w, <2>1 DEF WritesCounted, Places, run
  <2> QED
    BY <1>w, <2>1, <2>2, PlanningRuns
<1>5. CASE Validate
  <2>1. UNCHANGED <<files, run, writes>> /\ pc = "validate" /\ pc' \in {"offer", "done"}
    BY <1>5 DEF Validate
  <2>2. WritesCounted'
    BY <1>w, <2>1 DEF WritesCounted, Places, run
  <2> QED
    BY <1>w, <2>1, <2>2, PlanningRuns
<1> QED
  BY <1>1, <1>2, <1>3, <1>4, <1>5

LEMMA OfferRuns ==
  ASSUME PlanInv, RunInv, OfferActions \/ Approve
  PROVE  RunInv'
<1>1. /\ pc \notin Running /\ pc # "done" /\ UNCHANGED <<files, evidence, probes, writes>>
      /\ pc' \notin Planning
  BY DEF OfferActions, Approve, Planning, Running, Probing, run
<1>2. /\ Commands = <<>> /\ evidence.repairs = <<>>
      /\ evidence.status = "completed" /\ evidence.startup = "none" /\ probes = 0
  BY <1>1 DEF RunInv, NothingRan
<1>3. EvidenceTyped' /\ WritesCounted'
  BY <1>1 DEF RunInv, EvidenceTyped, WritesCounted, Places
<1>4. /\ Commands' = <<>> /\ evidence'.repairs = <<>> /\ probes' = 0
      /\ evidence'.status = "completed" /\ evidence'.startup = "none"
  BY <1>1, <1>2 DEF Commands
<1>5. \A a : TriesIn(Commands', a) = {} /\ RepairsIn(evidence'.repairs, a) = {} /\ Cardinality(TriesIn(Commands', a)) = 0 /\ Cardinality(RepairsIn(evidence'.repairs, a)) = 0
  BY <1>4, FS_EmptySet DEF TriesIn, RepairsIn
<1>6. RepairedOnce'
  BY <1>5 DEF RepairedOnce
<1>7. CASE OfferActions
  <2>1. PICK target \in {"none", "process", "docker"} : actions' = Derived(target)
    BY <1>7 DEF OfferActions, Targets
  <2>2. StartupIsLast'
    BY <2>1, StartupIsDerivedLast DEF StartupIsLast
  <2>3. pc' \in {"offered", "done"} /\ (pc' = "done" => actions' = <<>>)
    BY <1>7 DEF OfferActions
  <2>4. NothingRan' /\ Reached' /\ InProgress' /\ VerdictInv'
    BY <1>4, <2>3 DEF NothingRan, Reached, InProgress, VerdictInv, Running, Probing
  <2> QED
    BY <1>3, <1>4, <1>6, <2>2, <2>4 DEF RunInv
<1>8. CASE Approve
  <2>1. pc = "offered" /\ pc' = "action" /\ at' = 1 /\ attempt' = 0 /\ actions' = actions
    BY <1>8 DEF Approve, run
  <2>2. 1 \in DOMAIN actions /\ \A a \in DOMAIN actions : ~(a < 1)
    BY <2>1 DEF PlanInv, StepsWritten, Typed
  <2>3. StartupIsLast' /\ NothingRan' /\ VerdictInv'
    BY <1>1, <2>1 DEF RunInv, StartupIsLast, NothingRan, VerdictInv, Running
  <2>4. Reached'
    BY <1>4, <2>1, <2>2 DEF Reached
  <2>5. InProgress'
    BY <1>4, <1>5, <2>1 DEF InProgress, CommandInProgress, ProbeInProgress, Probing
  <2> QED
    BY <1>3, <1>4, <1>6, <2>3, <2>4, <2>5 DEF RunInv
<1> QED
  BY <1>7, <1>8

-----------------------------------------------------------------------------
(* The commands.                                                           *)

(* While something runs, the action in progress is one of the sequence.    *)
LEMMA RunningAt ==
  ASSUME PlanInv, RunInv, pc \in Running
  PROVE  /\ actions \in Seq(Types) /\ at \in 1..Len(actions) /\ attempt \in 0..1 /\ probes \in 0..2
         /\ probes > 0 => at = Len(actions)
         /\ Type \in Startup => at = Len(actions)
<1>1. actions \in Seq(Types) /\ attempt \in 0..1 /\ probes \in 0..2
  BY DEF PlanInv, Typed, RunInv, EvidenceTyped
<1>2. Len(actions) \in Nat /\ DOMAIN actions = 1..Len(actions)
  BY <1>1
<1>3. at <= Len(actions) /\ at \in Nat \ {0}
  <2>1. Len(files) \in Nat
    BY ManifestIsSequence DEF PlanInv, Typed
  <2> QED
    BY <1>2, <2>1 DEF PlanInv, Typed, StepsWritten, Running
<1>4. actions # <<>>
  BY <1>2, <1>3
<1> QED
  BY <1>1, <1>2, <1>3, <1>4 DEF RunInv, Reached, StartupIsLast, Type

LEMMA RunningSoFar ==
  ASSUME PlanInv, RunInv, pc \in Running
  PROVE  /\ actions # <<>> /\ pc \notin Planning
         /\ \A a \in 1..(at - 1) : PassedIn(Commands, a)
         /\ \A n \in DOMAIN Commands : Commands[n].action \in 1..at
         /\ \A n \in DOMAIN evidence.repairs : evidence.repairs[n] \in 1..at
         /\ evidence.status = "completed" /\ evidence.startup = "none"
<1>1. actions # <<>>
  BY RunningAt
<1>2. \A a \in 1..(at - 1) : a \in DOMAIN actions /\ a < at
  BY RunningAt
<1>3. pc \notin Planning
  BY DEF Running, Probing, Planning
<1>4. Reached /\ InProgress
  BY DEF RunInv
<1> QED
  BY <1>1, <1>2, <1>3, <1>4 DEF Reached, InProgress

(* How the evidence stands when the action in progress, k, is through.     *)
Through(k) ==
    /\ evidence'.repairs = evidence.repairs /\ evidence'.status = "completed"
    /\ evidence'.startup = "none" \/ (Type \in Startup /\ evidence'.startup = "success")
    /\ \A n \in DOMAIN Commands' : Commands'[n].action \in 1..k
    /\ \A a \in 1..(k - 1) : PassedIn(Commands', a)
    /\ Type \notin Startup => PassedIn(Commands', k)

(* The action in progress is through and the next one begins, or the last  *)
(* one was through and the validation is over.                             *)
LEMMA AdvanceRuns ==
  ASSUME PlanInv, RunInv, pc \in Running, Advance, UNCHANGED <<files, actions, writes, probes>>,
         EvidenceTyped', RepairedOnce', NEW k \in Nat, k = at, Through(k)
  PROVE  RunInv'
<1>1. \A a : RepairsIn(evidence'.repairs, a) = RepairsIn(evidence.repairs, a)
  BY DEF Through
<1>2. WritesCounted'
  <2>1. pc' \in {"action", "done"}
    BY DEF Advance
  <2>2. \A i \in Places : writes[i] <= 2 + Len(evidence.repairs)
    BY DEF RunInv, WritesCounted
  <2> QED
    BY <2>1, <2>2 DEF WritesCounted, Planning, Places, Through
<1>3. StartupIsLast'
  BY DEF RunInv, StartupIsLast
<1>6. CASE at < Len(actions)
  <2>1. pc' = "action" /\ at' = k + 1 /\ attempt' = 0
    BY <1>6 DEF Advance
  <2>2. Type \notin Startup /\ probes = 0 /\ at \in 1..Len(actions) /\ actions \in Seq(Types)
    BY <1>6, RunningAt
  <2>3. evidence'.startup = "none" /\ evidence'.status = "completed"
    BY <2>2 DEF Through
  <2>4. NothingRan' /\ VerdictInv'
    BY <2>1 DEF NothingRan, VerdictInv, Running
  <2>5. Reached'
    <3>1. \A n \in DOMAIN Commands' : Commands'[n].action \in 1..(k + 1)
      BY DEF Through
    <3>2. \A n \in DOMAIN evidence'.repairs : evidence'.repairs[n] \in 1..(k + 1)
      <4>1. \A n \in DOMAIN evidence.repairs : evidence.repairs[n] \in 1..k
        BY RunningSoFar
      <4> QED
        BY <4>1 DEF Through
    <3>3. k + 1 \in DOMAIN actions
      BY <1>6, <2>2
    <3>4. ASSUME NEW a \in DOMAIN actions, a < k + 1 PROVE PassedIn(Commands', a)
      <4>1. a \in 1..(k - 1) \/ a = k
        BY <2>2, <3>4
      <4> QED
        BY <2>2, <4>1 DEF Through
    <3>5. /\ at' \in DOMAIN actions' /\ probes' = 0
          /\ \A a \in DOMAIN actions' : a < at' => PassedIn(Commands', a)
      BY <2>1, <2>2, <3>3, <3>4
    <3>6. /\ \A n \in DOMAIN Commands' : Commands'[n].action \in 1..at'
          /\ \A n \in DOMAIN evidence'.repairs : evidence'.repairs[n] \in 1..at'
      BY <2>1, <3>1, <3>2
    <3> QED
      BY <3>5, <3>6 DEF Reached
  <2>6. InProgress'
    <3>1. TriesIn(Commands', k + 1) = {}
      BY DEF TriesIn, Through
    <3>2. RepairsIn(evidence'.repairs, k + 1) = {}
      <4>1. \A n \in DOMAIN evidence.repairs : evidence.repairs[n] \in 1..k
        BY RunningSoFar
      <4> QED
        BY <1>1, <4>1, SMTT(30) DEF RepairsIn
    <3>3. /\ Cardinality(TriesIn(Commands', k + 1)) = 0
          /\ Cardinality(RepairsIn(evidence'.repairs, k + 1)) = 0
      BY <3>1, <3>2, FS_EmptySet
    <3> QED
      BY <2>1, <2>2, <2>3, <3>1, <3>3 DEF InProgress, CommandInProgress, ProbeInProgress, Probing
  <2> QED
    BY <1>2, <1>3, <2>2, <2>4, <2>5, <2>6 DEF RunInv
<1>7. CASE ~(at < Len(actions))
  <2>1. pc' = "done" /\ at' = k
    BY <1>7 DEF Advance
  <2>0. k = Len(actions) /\ actions \in Seq(Types) /\ k # 0
    BY <1>7, RunningAt
  <2>2. k = Len(actions) /\ k \in DOMAIN actions /\ DOMAIN actions = 1..k /\ actions # <<>>
    BY <2>0
  <2>3. NothingRan' /\ InProgress'
    BY <2>1, <2>2 DEF NothingRan, InProgress, Running, Probing
  <2>4. Reached'
    <3>1. \A a \in DOMAIN actions : a < k => PassedIn(Commands', a)
      BY <2>2 DEF Through
    <3>2. /\ \A n \in DOMAIN Commands' : Commands'[n].action \in 1..k
          /\ \A n \in DOMAIN evidence'.repairs : evidence'.repairs[n] \in 1..k
      BY RunningSoFar DEF Through
    <3> QED
      BY <2>1, <2>2, <3>1, <3>2 DEF Reached
  <2>5. VerdictInv'
    <3>1. ASSUME NEW a \in DOMAIN actions, actions[a] \notin Startup PROVE PassedIn(Commands', a)
      <4>1. a \in 1..(k - 1) \/ a = k
        BY <2>2
      <4> QED
        BY <3>1, <4>1 DEF Type, Through
    <3> QED
      BY <3>1 DEF VerdictInv, Through
  <2>6. probes' = 2 => RepairsIn(evidence'.repairs, at') # {}
    BY <1>1, <2>1 DEF RunInv
  <2> QED
    BY <1>2, <1>3, <2>3, <2>4, <2>5, <2>6 DEF RunInv
<1> QED
  BY <1>6, <1>7

LEMMA RepairsAreNatural == ASSUME RunInv PROVE Len(evidence.repairs) \in Nat
BY DEF RunInv, EvidenceTyped

(* What a command that passes or fails leaves of the counts.               *)
LEMMA CommandCounts ==
  ASSUME PlanInv, RunInv, pc = "action", Type \notin Startup, NEW k \in Nat, k = at,
         NEW b \in BOOLEAN, Ran(k, b), UNCHANGED <<files, actions, writes, probes>>
  PROVE  /\ EvidenceTyped' /\ RepairedOnce' /\ RanOnceMore(k, b)
         /\ Cardinality(TriesIn(Commands', k)) = attempt + 1
         /\ Cardinality(RepairsIn(evidence'.repairs, k)) = attempt
         /\ \A n \in DOMAIN Commands' : Commands'[n].action \in 1..k
         /\ \A a \in 1..(k - 1) : PassedIn(Commands', a)
<1>1. EvidenceTyped /\ RepairedOnce /\ InProgress /\ pc \in Running
  BY DEF RunInv, Running
<1>2. RanOnceMore(k, b) /\ EvidenceTyped'
  BY <1>1, RunIsCounted
<1>3. /\ Cardinality(RepairsIn(evidence.repairs, k)) = attempt
      /\ Cardinality(TriesIn(Commands, k)) = attempt
  BY <1>1 DEF InProgress, CommandInProgress
<1>4. attempt \in 0..1 /\ k \in DOMAIN actions /\ DOMAIN actions \subseteq Nat
  BY <1>1, RunningAt
<1>5. /\ Cardinality(TriesIn(Commands', k)) = attempt + 1
      /\ RepairsIn(evidence'.repairs, k) = RepairsIn(evidence.repairs, k)
  BY <1>2, <1>3 DEF RanOnceMore
<1>6. attempt + 1 = 2 => RepairsIn(evidence'.repairs, k) # {}
  <2>1. RepairsIn(evidence.repairs, k) = {} => Cardinality(RepairsIn(evidence.repairs, k)) = 0
    BY FS_EmptySet
  <2>2. RepairsIn(evidence.repairs, k) = {} => attempt = 0
    BY <1>3, <2>1
  <2> QED
    BY <1>5, <2>2
<1>7. RepairedOnce'
  <2>1. ASSUME NEW a \in DOMAIN actions \ {k}
        PROVE  /\ TriesIn(Commands', a) = TriesIn(Commands, a)
               /\ RepairsIn(evidence'.repairs, a) = RepairsIn(evidence.repairs, a)
    BY <1>2, <1>4 DEF RanOnceMore
  <2> QED
    BY <1>1, <1>3, <1>4, <1>5, <1>6, <2>1 DEF RepairedOnce
<1>8. \A n \in DOMAIN Commands' : Commands'[n].action \in 1..k
  <2>1. \A n \in DOMAIN Commands : Commands[n].action \in 1..k
    BY <1>1, RunningSoFar
  <2>2. k \in 1..k
    BY <1>1, RunningAt
  <2> QED
    BY <1>2, <2>1, <2>2 DEF RanOnceMore
<1>9. ASSUME NEW a \in 1..(k - 1) PROVE PassedIn(Commands', a)
  <2>1. PassedIn(Commands, a) /\ a \in Nat \ {k}
    BY <1>1, RunningSoFar
  <2> QED
    BY <1>2, <2>1 DEF RanOnceMore
<1> QED
  BY <1>2, <1>3, <1>5, <1>7, <1>8, <1>9

LEMMA CommandPassesRuns ==
  ASSUME PlanInv, RunInv, CommandPasses
  PROVE  RunInv'
<1>1. PICK k \in Nat : k = at
  BY DEF PlanInv, Typed
<1>2. PICK b \in BOOLEAN : b = TRUE
  OBVIOUS
<1>3. /\ pc = "action" /\ Type \notin Startup /\ Ran(k, b) /\ Advance
      /\ UNCHANGED <<files, actions, writes, probes>>
  BY <1>1, <1>2 DEF CommandPasses, Ran
<1>4. /\ EvidenceTyped' /\ RepairedOnce' /\ RanOnceMore(k, b)
      /\ \A n \in DOMAIN Commands' : Commands'[n].action \in 1..k
      /\ \A a \in 1..(k - 1) : PassedIn(Commands', a)
  BY <1>1, <1>3, CommandCounts
<1>5. pc \in Running /\ evidence.status = "completed" /\ evidence.startup = "none"
  BY <1>3 DEF Running, RunInv, InProgress
<1>6. Through(k)
  BY <1>2, <1>4, <1>5 DEF Through, RanOnceMore
<1> QED
  BY <1>1, <1>3, <1>4, <1>5, <1>6, AdvanceRuns

(* How things stand when the action in progress, k, goes on.               *)
GoesOn(k) ==
    /\ evidence'.status = "completed" /\ evidence'.startup = "none"
    /\ \A i \in Places : writes'[i] <= 2 + Len(evidence'.repairs)
    /\ \A n \in DOMAIN Commands' : Commands'[n].action \in 1..k
    /\ \A n \in DOMAIN evidence'.repairs : evidence'.repairs[n] \in 1..k
    /\ \A a \in 1..(k - 1) : PassedIn(Commands', a)
    /\ probes' > 0 => k = Len(actions)
    /\ probes' = 2 => RepairsIn(evidence'.repairs, k) # {}

LEMMA InPlaceRuns ==
  ASSUME PlanInv, RunInv, pc \in Running, UNCHANGED <<files, actions, at>>, pc' \in Running,
         EvidenceTyped', RepairedOnce', InProgress', NEW k \in Nat, k = at, GoesOn(k)
  PROVE  RunInv'
<1>1. StartupIsLast'
  BY DEF RunInv, StartupIsLast
<1>2. WritesCounted'
  BY DEF WritesCounted, Planning, Running, Probing, Places, GoesOn
<1>3. NothingRan' /\ VerdictInv'
  BY DEF NothingRan, VerdictInv, Running, Probing
<1>4. k \in DOMAIN actions /\ \A a \in DOMAIN actions : a < k => a \in 1..(k - 1)
  BY RunningAt
<1>5. Reached'
  BY <1>4 DEF Reached, GoesOn
<1>6. probes' = 2 => RepairsIn(evidence'.repairs, at') # {}
  BY DEF GoesOn
<1> QED
  BY <1>1, <1>2, <1>3, <1>5, <1>6 DEF RunInv

LEMMA CommandFailsRuns ==
  ASSUME PlanInv, RunInv, CommandFails
  PROVE  RunInv'
<1>1. PICK k \in Nat : k = at
  BY DEF PlanInv, Typed
<1>2. PICK b \in BOOLEAN : b = FALSE
  OBVIOUS
<1>3. /\ pc = "action" /\ Type \notin Startup /\ Ran(k, b) /\ pc' = "diagnose"
      /\ UNCHANGED <<files, actions, writes, probes, at, attempt>>
  BY <1>1, <1>2 DEF CommandFails, Ran
<1>4. /\ EvidenceTyped' /\ RepairedOnce' /\ RanOnceMore(k, b)
      /\ Cardinality(TriesIn(Commands', k)) = attempt + 1
      /\ Cardinality(RepairsIn(evidence'.repairs, k)) = attempt
      /\ \A n \in DOMAIN Commands' : Commands'[n].action \in 1..k
      /\ \A a \in 1..(k - 1) : PassedIn(Commands', a)
  BY <1>1, <1>3, CommandCounts
<1>5. /\ pc \in Running /\ pc' \in Running /\ probes = 0
      /\ evidence.status = "completed" /\ evidence.startup = "none"
  BY <1>3 DEF Running, RunInv, InProgress, CommandInProgress
<1>6. /\ evidence'.repairs = evidence.repairs /\ evidence'.status = "completed"
      /\ evidence'.startup = "none" /\ ~PassedIn(Commands', k)
  BY <1>2, <1>4, <1>5 DEF RanOnceMore
<1>7. InProgress'
  BY <1>1, <1>3, <1>4, <1>5, <1>6 DEF InProgress, CommandInProgress, Type
<1>8. GoesOn(k)
  <2>1. \A i \in Places : writes'[i] <= 2 + Len(evidence'.repairs)
    BY <1>3, <1>6 DEF RunInv, WritesCounted
  <2>2. \A n \in DOMAIN evidence'.repairs : evidence'.repairs[n] \in 1..k
    BY <1>1, <1>5, <1>6, RunningSoFar
  <2> QED
    BY <1>3, <1>4, <1>5, <1>6, <2>1, <2>2 DEF GoesOn
<1> QED
  BY <1>1, <1>3, <1>4, <1>5, <1>7, <1>8, InPlaceRuns

(* The file is regenerated and written, without a check, and the command   *)
(* runs again.                                                             *)
LEMMA RepairRuns ==
  ASSUME PlanInv, RunInv, Repair
  PROVE  RunInv'
<1>1. PICK k \in Nat : k = at
  BY DEF PlanInv, Typed
<1>2. /\ pc = "diagnose" /\ pc' = "action" /\ attempt = 0 /\ attempt' = attempt + 1 /\ Mended(k)
      /\ UNCHANGED <<files, actions, probes, at>>
      /\ \E i \in Places : writes' = [writes EXCEPT ![i] = @ + 1]
  BY <1>1 DEF Repair, MayRepair, RepairTargets, Of, Put, Mended
<1>3. /\ pc \in Running /\ pc' \in Running /\ EvidenceTyped /\ RepairedOnce
      /\ evidence.status = "completed" /\ evidence.startup = "none"
      /\ Type \notin Startup /\ probes = 0
      /\ Cardinality(RepairsIn(evidence.repairs, k)) = 0
      /\ Cardinality(TriesIn(Commands, k)) = 1
  BY <1>1, <1>2 DEF Running, RunInv, InProgress, CommandInProgress, ProbeInProgress
<1>4. /\ writes \in [Places -> Nat] /\ Len(evidence.repairs) \in Nat
      /\ \A i \in Places : writes[i] <= 2 + Len(evidence.repairs)
  BY RepairsAreNatural DEF RunInv, EvidenceTyped, WritesCounted
<1>5. /\ writes' \in [Places -> Nat]
      /\ \A i \in Places : writes'[i] <= writes[i] + 1
  <2>1. PICK i \in Places : writes' = [writes EXCEPT ![i] = @ + 1]
    BY <1>2
  <2>2. writes[i] \in Nat /\ writes' = [writes EXCEPT ![i] = writes[i] + 1]
    BY <1>4, <2>1
  <2> QED
    BY <1>4, <2>2
<1>6. RepairedOnceMore(k) /\ EvidenceTyped'
  BY <1>2, <1>3, <1>5, RepairIsCounted
<1>7. /\ Cardinality(RepairsIn(evidence'.repairs, k)) = 1 /\ RepairsIn(evidence'.repairs, k) # {}
      /\ Commands' = Commands /\ Len(evidence'.repairs) = Len(evidence.repairs) + 1
      /\ evidence'.status = "completed" /\ evidence'.startup = "none"
  BY <1>3, <1>6 DEF RepairedOnceMore
<1>8. RepairedOnce'
  <2>1. ASSUME NEW a \in DOMAIN actions \ {k}
        PROVE  RepairsIn(evidence'.repairs, a) = RepairsIn(evidence.repairs, a)
    <3>1. a \in Nat \ {k}
      BY DEF PlanInv, Typed
    <3> QED
      BY <1>6, <3>1 DEF RepairedOnceMore
  <2> QED
    BY <1>2, <1>3, <1>7, <2>1 DEF RepairedOnce
<1>9. InProgress'
  BY <1>1, <1>2, <1>3, <1>7 DEF InProgress, CommandInProgress, Type
<1>10. GoesOn(k)
  <2>1. \A i \in Places : writes'[i] <= 2 + Len(evidence'.repairs)
    BY <1>4, <1>5, <1>7
  <2>2. \A n \in DOMAIN evidence'.repairs : evidence'.repairs[n] \in 1..k
    <3>1. \A n \in DOMAIN evidence.repairs : evidence.repairs[n] \in 1..k
      BY <1>1, <1>3, RunningSoFar
    <3>2. k \in 1..k
      BY <1>1, <1>3, RunningAt
    <3> QED
      BY <1>6, <3>1, <3>2 DEF RepairedOnceMore
  <2>3. /\ \A n \in DOMAIN Commands' : Commands'[n].action \in 1..k
        /\ \A a \in 1..(k - 1) : PassedIn(Commands', a)
    BY <1>1, <1>3, <1>7, RunningSoFar
  <2> QED
    BY <1>2, <1>3, <1>7, <2>1, <2>2, <2>3 DEF GoesOn
<1> QED
  BY <1>1, <1>2, <1>3, <1>6, <1>8, <1>9, <1>10, InPlaceRuns

(* The validation ends with a failure: the action in progress did not      *)
(* pass, and the verdict says so.                                          *)
LEMMA FailureRuns ==
  ASSUME PlanInv, RunInv, pc \in Running, pc' = "done", UNCHANGED <<files, actions, writes, probes, at>>,
         Commands' = Commands, evidence'.repairs = evidence.repairs, EvidenceTyped',
         evidence'.status = "failed",
         IF Type \in Startup THEN evidence'.startup = "failure" ELSE ~PassedIn(Commands, at)
  PROVE  RunInv'
<1>1. at \in DOMAIN actions
  BY RunningAt
<1>2. StartupIsLast' /\ RepairedOnce'
  BY DEF RunInv, StartupIsLast, RepairedOnce
<1>3. WritesCounted'
  BY DEF RunInv, WritesCounted, Planning, Places
<1>4. NothingRan' /\ InProgress'
  BY RunningSoFar DEF NothingRan, InProgress, Running, Probing
<1>5. Reached'
  BY DEF RunInv, Reached
<1>6. VerdictInv'
  BY <1>1 DEF VerdictInv, Type
<1>7. probes' = 2 => RepairsIn(evidence'.repairs, at') # {}
  BY DEF RunInv
<1> QED
  BY <1>2, <1>3, <1>4, <1>5, <1>6, <1>7 DEF RunInv

LEMMA StopRuns ==
  ASSUME PlanInv, RunInv, Stop
  PROVE  RunInv'
<1>1. /\ pc = "diagnose" /\ pc' = "done" /\ UNCHANGED <<files, actions, writes, probes, at>>
      /\ evidence' = [evidence EXCEPT !.status = "failed"]
  BY DEF Stop, Give, AfterFailure
<1>2. pc \in Running /\ Type \notin Startup /\ ~PassedIn(Commands, at)
  BY <1>1 DEF Running, RunInv, InProgress, CommandInProgress, ProbeInProgress
<1>3. /\ Commands' = Commands /\ evidence'.repairs = evidence.repairs /\ EvidenceTyped'
      /\ evidence'.status = "failed"
  BY <1>1 DEF RunInv, EvidenceTyped, Commands, Places
<1> QED
  BY <1>1, <1>2, <1>3, FailureRuns

-----------------------------------------------------------------------------
(* The startup probe.                                                      *)

(* A step of the probe within the action leaves the evidence alone.        *)
LEMMA ProbingRuns ==
  ASSUME PlanInv, RunInv, pc \in Running, pc' \in Running,
         UNCHANGED <<files, actions, at, evidence, writes>>, probes' \in 0..2, InProgress',
         probes' > 0 => at = Len(actions),
         probes' = 2 => RepairsIn(evidence.repairs, at) # {}
  PROVE  RunInv'
<1>1. PICK k \in Nat : k = at
  BY DEF PlanInv, Typed
<1>2. EvidenceTyped' /\ RepairedOnce'
  BY DEF RunInv, EvidenceTyped, RepairedOnce, Places, Commands
<1>3. \A i \in Places : writes'[i] <= 2 + Len(evidence'.repairs)
  BY DEF RunInv, WritesCounted
<1>4. GoesOn(k)
  <2>1. Commands' = Commands
    BY DEF Commands
  <2>2. /\ \A n \in DOMAIN Commands : Commands[n].action \in 1..k
        /\ \A n \in DOMAIN evidence.repairs : evidence.repairs[n] \in 1..k
        /\ \A a \in 1..(k - 1) : PassedIn(Commands, a)
        /\ evidence.status = "completed" /\ evidence.startup = "none"
    BY <1>1, RunningSoFar
  <2> QED
    BY <1>1, <1>3, <2>1, <2>2 DEF GoesOn
<1> QED
  BY <1>1, <1>2, <1>4, InPlaceRuns

LEMMA SkipRuns ==
  ASSUME PlanInv, RunInv, Skip
  PROVE  RunInv'
<1>1. PICK k \in Nat : k = at
  BY DEF PlanInv, Typed
<1>2. pc \in Running /\ Type \in Startup /\ Advance /\ UNCHANGED <<files, writes, run>>
  BY DEF Skip, Running
<1>3. UNCHANGED <<actions, evidence, probes, Commands>>
  BY <1>2 DEF run, Commands
<1>4. EvidenceTyped' /\ RepairedOnce'
  BY <1>2, <1>3 DEF RunInv, EvidenceTyped, RepairedOnce, Places
<1>5. Through(k)
  BY <1>1, <1>2, <1>3, RunningSoFar DEF Through
<1> QED
  BY <1>1, <1>2, <1>3, <1>4, <1>5, AdvanceRuns

LEMMA LaunchRuns ==
  ASSUME PlanInv, RunInv, Launch
  PROVE  RunInv'
<1>1. /\ pc = "action" /\ Type = "process" /\ probes' = probes + 1 /\ pc' \in Probing
      /\ UNCHANGED <<files, actions, at, attempt, evidence, writes>>
  BY DEF Launch, Probing
<1>2. pc \in Running /\ pc' \in Running /\ Type \in Startup
  BY <1>1 DEF Running, Startup
<1>3. ProbeInProgress
  BY <1>1, <1>2 DEF RunInv, InProgress
<1>4. /\ probes \in 0..1 /\ attempt = 0 /\ TriesIn(Commands, at) = {}
      /\ Cardinality(RepairsIn(evidence.repairs, at)) = probes
  BY <1>1, <1>2, <1>3, RunningAt DEF ProbeInProgress, Probing
<1>5. probes' = 2 => RepairsIn(evidence.repairs, at) # {}
  <2>1. RepairsIn(evidence.repairs, at) = {} => Cardinality(RepairsIn(evidence.repairs, at)) = 0
    BY FS_EmptySet
  <2> QED
    BY <1>1, <1>4, <2>1
<1>6. InProgress'
  <2>1. ProbeInProgress'
    <3>1. Commands' = Commands /\ pc' # "diagnose" /\ pc' # "action"
      BY <1>1 DEF Commands, Probing
    <3>2. probes' > 0 /\ Type' = "process" /\ (probes' = 2 <=> probes = 1)
      BY <1>1, <1>4 DEF Type
    <3>3. Cardinality(RepairsIn(evidence.repairs, at)) = IF probes' = 2 THEN 1 ELSE 0
      BY <1>4, <3>2
    <3> QED
      BY <1>1, <1>4, <3>1, <3>2, <3>3 DEF ProbeInProgress
  <2> QED
    BY <1>1, <1>2, <2>1, RunningSoFar DEF InProgress, Type
<1>7. at = Len(actions)
  BY <1>2, RunningAt
<1> QED
  BY <1>1, <1>2, <1>4, <1>5, <1>6, <1>7, ProbingRuns

LEMMA PollingRuns ==
  ASSUME PlanInv, RunInv, PollCrashed \/ PollAnswered \/ Deadline \/ Drain
  PROVE  RunInv'
<1>1. pc \in Probing /\ pc' \in Probing /\ UNCHANGED <<files, actions, at, attempt, evidence, writes, probes>>
  BY DEF PollCrashed, PollAnswered, Deadline, Drain, Probing, run
<1>2. pc \in Running /\ pc' \in Running /\ pc # "action" /\ pc' # "action" /\ pc # "diagnose" /\ pc' # "diagnose"
  BY <1>1 DEF Running, Probing
<1>3. InProgress'
  BY <1>1, <1>2 DEF RunInv, InProgress, ProbeInProgress, CommandInProgress, Type, Commands
<1>4. /\ probes \in 0..2 /\ (probes > 0 => at = Len(actions))
      /\ probes = 2 => RepairsIn(evidence.repairs, at) # {}
  BY <1>2, RunningAt DEF RunInv
<1> QED
  BY <1>1, <1>2, <1>3, <1>4, ProbingRuns

LEMMA ProbeSucceedsRuns ==
  ASSUME PlanInv, RunInv, ProbeSucceeds
  PROVE  RunInv'
<1>1. PICK k \in Nat : k = at
  BY DEF PlanInv, Typed
<1>2. /\ pc = "healthy" /\ Advance /\ UNCHANGED <<files, writes, actions, probes>>
      /\ evidence' = [evidence EXCEPT !.startup = "success"]
  BY DEF ProbeSucceeds
<1>3. pc \in Running /\ Type \in Startup
  BY <1>2 DEF Running, Probing, RunInv, InProgress, CommandInProgress
<1>4. /\ Commands' = Commands /\ evidence'.repairs = evidence.repairs /\ EvidenceTyped'
      /\ evidence'.status = evidence.status /\ evidence'.startup = "success"
  BY <1>2 DEF RunInv, EvidenceTyped, Commands, Places
<1>5. RepairedOnce'
  BY <1>2, <1>4 DEF RunInv, RepairedOnce
<1>6. Through(k)
  BY <1>1, <1>3, <1>4, RunningSoFar DEF Through
<1> QED
  BY <1>1, <1>2, <1>3, <1>4, <1>5, <1>6, AdvanceRuns

LEMMA ReprobeRuns ==
  ASSUME PlanInv, RunInv, ReprobeRepaired
  PROVE  RunInv'
<1>1. PICK k \in Nat : k = at
  BY DEF PlanInv, Typed
<1>2. /\ pc = "unhealthy" /\ pc' = "action" /\ probes = 1 /\ Mended(k)
      /\ UNCHANGED <<files, actions, probes, at, attempt>>
      /\ \E i \in Places : writes' = [writes EXCEPT ![i] = @ + 1]
  BY <1>1 DEF ReprobeRepaired, MayReprobe, Put, Mended
<1>3. /\ pc \in Running /\ pc' \in Running /\ EvidenceTyped /\ RepairedOnce
      /\ evidence.status = "completed" /\ evidence.startup = "none"
      /\ Type \in Startup /\ attempt = 0 /\ TriesIn(Commands, k) = {}
      /\ Cardinality(RepairsIn(evidence.repairs, k)) = 0
  BY <1>1, <1>2 DEF Running, Probing, RunInv, InProgress, CommandInProgress, ProbeInProgress
<1>4. /\ writes \in [Places -> Nat] /\ Len(evidence.repairs) \in Nat
      /\ \A i \in Places : writes[i] <= 2 + Len(evidence.repairs)
  BY RepairsAreNatural DEF RunInv, EvidenceTyped, WritesCounted
<1>5. /\ writes' \in [Places -> Nat]
      /\ \A i \in Places : writes'[i] <= writes[i] + 1
  <2>1. PICK i \in Places : writes' = [writes EXCEPT ![i] = @ + 1]
    BY <1>2
  <2>2. writes[i] \in Nat /\ writes' = [writes EXCEPT ![i] = writes[i] + 1]
    BY <1>4, <2>1
  <2> QED
    BY <1>4, <2>2
<1>6. RepairedOnceMore(k) /\ EvidenceTyped'
  BY <1>2, <1>3, <1>5, RepairIsCounted
<1>7. /\ Cardinality(RepairsIn(evidence'.repairs, k)) = 1 /\ RepairsIn(evidence'.repairs, k) # {}
      /\ Commands' = Commands /\ Len(evidence'.repairs) = Len(evidence.repairs) + 1
      /\ evidence'.status = "completed" /\ evidence'.startup = "none"
  BY <1>3, <1>6 DEF RepairedOnceMore
<1>8. RepairedOnce'
  <2>1. ASSUME NEW a \in DOMAIN actions \ {k}
        PROVE  RepairsIn(evidence'.repairs, a) = RepairsIn(evidence.repairs, a)
    <3>1. a \in Nat \ {k}
      BY DEF PlanInv, Typed
    <3> QED
      BY <1>6, <3>1 DEF RepairedOnceMore
  <2>2. Cardinality(TriesIn(Commands', k)) = 0
    BY <1>3, <1>7, FS_EmptySet
  <2> QED
    BY <1>2, <1>3, <1>7, <2>1, <2>2 DEF RepairedOnce
<1>9. InProgress'
  BY <1>1, <1>2, <1>3, <1>7 DEF InProgress, ProbeInProgress, Type, Probing
<1>10. GoesOn(k)
  <2>1. \A i \in Places : writes'[i] <= 2 + Len(evidence'.repairs)
    BY <1>4, <1>5, <1>7
  <2>2. \A n \in DOMAIN evidence'.repairs : evidence'.repairs[n] \in 1..k
    <3>1. \A n \in DOMAIN evidence.repairs : evidence.repairs[n] \in 1..k
      BY <1>1, <1>3, RunningSoFar
    <3>2. k \in 1..k
      BY <1>1, <1>3, RunningAt
    <3> QED
      BY <1>6, <3>1, <3>2 DEF RepairedOnceMore
  <2>3. /\ \A n \in DOMAIN Commands' : Commands'[n].action \in 1..k
        /\ \A a \in 1..(k - 1) : PassedIn(Commands', a)
    BY <1>1, <1>3, <1>7, RunningSoFar
  <2>4. k = Len(actions)
    BY <1>1, <1>3, RunningAt
  <2> QED
    BY <1>2, <1>7, <2>1, <2>2, <2>3, <2>4 DEF GoesOn
<1> QED
  BY <1>1, <1>2, <1>3, <1>6, <1>8, <1>9, <1>10, InPlaceRuns

LEMMA ProbeFailsRuns ==
  ASSUME PlanInv, RunInv, ProbeFails
  PROVE  RunInv'
<1>1. /\ pc = "unhealthy" /\ pc' = "done" /\ UNCHANGED <<files, actions, writes, probes, at>>
      /\ evidence' = [evidence EXCEPT !.startup = "failure", !.status = "failed"]
  BY DEF ProbeFails
<1>2. pc \in Running /\ Type \in Startup
  BY <1>1 DEF Running, Probing, RunInv, InProgress, CommandInProgress
<1>3. /\ Commands' = Commands /\ evidence'.repairs = evidence.repairs /\ EvidenceTyped'
      /\ evidence'.status = "failed" /\ evidence'.startup = "failure"
  BY <1>1 DEF RunInv, EvidenceTyped, Commands, Places
<1> QED
  BY <1>1, <1>2, <1>3, FailureRuns

(* The child, or nobody, moves. *)
LEMMA StutterRuns ==
  ASSUME RunInv, UNCHANGED <<files, pc, at, attempt, actions, evidence, probes, writes>>
  PROVE  RunInv'
<1>1. Commands' = Commands /\ Places' = Places /\ Type' = Type
  BY DEF Commands, Places, Type
<1>2. EvidenceTyped' /\ StartupIsLast' /\ WritesCounted' /\ NothingRan'
  BY <1>1 DEF RunInv, EvidenceTyped, StartupIsLast, WritesCounted, NothingRan
<1>3. Reached' /\ RepairedOnce' /\ InProgress' /\ VerdictInv'
  BY <1>1 DEF RunInv, Reached, RepairedOnce, InProgress, CommandInProgress, ProbeInProgress, VerdictInv
<1> QED
  BY <1>2, <1>3 DEF RunInv

LEMMA InitRuns == Init => RunInv
<1> SUFFICES ASSUME Init PROVE RunInv
  OBVIOUS
<1>1. files \in Seq(Sorts) /\ Len(files) \in Nat \ {0} /\ Places = 1..Len(files)
  BY ManifestIsSequence DEF Init
<1>2. /\ actions = <<>> /\ DOMAIN actions = {} /\ Commands = <<>> /\ evidence.repairs = <<>>
      /\ evidence.status = "completed" /\ evidence.startup = "none" /\ probes = 0
      /\ pc = "write" /\ at = 1 /\ attempt = 0 /\ writes = [i \in Places |-> 0]
      /\ Len(evidence.repairs) = 0
  BY DEF Init, Commands
<1>3. EvidenceTyped
  BY <1>2 DEF Init, EvidenceTyped, Runs
<1>4. WritesCounted
  BY <1>1, <1>2 DEF WritesCounted
<1>5. StartupIsLast /\ NothingRan /\ Reached /\ RepairedOnce /\ InProgress /\ VerdictInv
  BY <1>2 DEF StartupIsLast, NothingRan, Reached, RepairedOnce, InProgress, VerdictInv, Running, Probing
<1> QED
  BY <1>2, <1>3, <1>4, <1>5 DEF RunInv

LEMMA RunKeeps == PlanInv /\ RunInv /\ [Next]_vars => RunInv'
<1> SUFFICES ASSUME PlanInv, RunInv, [Next]_vars PROVE RunInv'
  OBVIOUS
<1>1. CASE ChildSteps \/ UNCHANGED vars
  BY <1>1, StutterRuns DEF ChildSteps, vars
<1>2. CASE Work \/ Approve
  BY <1>2, PlanStepsRun, OfferRuns, CommandPassesRuns, CommandFailsRuns, RepairRuns, StopRuns, SkipRuns,
     LaunchRuns, PollingRuns, ProbeSucceedsRuns, ReprobeRuns, ProbeFailsRuns DEF Work
<1> QED
  BY <1>1, <1>2 DEF Next

(* What has run was preceded by what has passed. *)
LEMMA RunsInOrder ==
  ASSUME PlanInv, RunInv
  PROVE  InOrder
<1> SUFFICES ASSUME actions # <<>>,
                    NEW a \in {Commands[n].action : n \in DOMAIN Commands}
                              \cup (IF probes > 0 THEN {Len(actions)} ELSE {}),
                    NEW b \in DOMAIN actions, b < a
             PROVE  Passed(b)
  BY DEF InOrder
<1>1. pc \in Running \cup {"done"}
  BY DEF RunInv, NothingRan
<1>2. PICK k \in Nat : k = at
  BY DEF PlanInv, Typed
<1>3. a \in 1..k \/ a = k
  BY <1>1, <1>2 DEF RunInv, Reached
<1>4. b < k
  BY <1>2, <1>3 DEF PlanInv, Typed
<1>5. PassedIn(Commands, b)
  BY <1>1, <1>2, <1>4 DEF RunInv, Reached
<1> QED
  BY <1>5 DEF PassedIn, Passed, TriesIn, Tries

(* The runtime validation of every plan is honest: its actions run in      *)
(* order and stop at the first that fails for good, each is repaired at    *)
(* most once and runs again only after a repair, no probe leaves a child,  *)
(* and the verdict says how the actions ended, whatever the model writes,  *)
(* the commands say and the child does (execute_runtime_validation).       *)
THEOREM ValidationsAreHonest == Spec => []ValidationIsHonest
<1>1. Init => RunInv
  BY InitRuns
<1>2. PlanInv /\ RunInv => ValidationIsHonest
  <2> SUFFICES ASSUME PlanInv, RunInv PROVE ValidationIsHonest
    OBVIOUS
  <2>1. TypeOK
    BY DEF PlanInv, Typed, Reports, RunInv, EvidenceTyped, TypeOK, Planning, Probing
  <2>2. OneRepairEach
    <3>1. probes <= 2 /\ (probes = 2 => Repairs(at) # {})
      BY DEF RunInv, EvidenceTyped, Repairs, RepairsIn
    <3>2. \A i \in Places : writes[i] <= 2 + Len(evidence.repairs)
      BY DEF RunInv, WritesCounted
    <3>3. ASSUME NEW a \in DOMAIN actions
          PROVE  /\ Cardinality(Tries(a)) <= 2 /\ Cardinality(Repairs(a)) <= 1
                 /\ Cardinality(Tries(a)) = 2 => Repairs(a) # {}
      <4>1. Tries(a) = TriesIn(Commands, a) /\ Repairs(a) = RepairsIn(evidence.repairs, a)
        BY DEF Tries, TriesIn, Repairs, RepairsIn
      <4>2. /\ Cardinality(TriesIn(Commands, a)) <= 2 /\ Cardinality(RepairsIn(evidence.repairs, a)) <= 1
            /\ Cardinality(TriesIn(Commands, a)) = 2 => RepairsIn(evidence.repairs, a) # {}
        BY DEF RunInv, RepairedOnce
      <4> QED
        BY <4>1, <4>2
    <3> QED
      BY <3>1, <3>2, <3>3 DEF OneRepairEach
  <2>3. VerdictIsHonest
    BY DEF RunInv, VerdictInv, VerdictIsHonest, Passed, PassedIn, Tries, TriesIn
  <2>4. NoChildLeft
    BY DEF PlanInv, ChildOfProbe, NoChildLeft, Probing
  <2> QED
    BY <2>1, <2>2, <2>3, <2>4, RunsInOrder DEF ValidationIsHonest
<1> QED
  BY <1>1, <1>2, PlanInvariant, RunKeeps, PTL DEF Spec
=============================================================================
