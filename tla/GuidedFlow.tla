----------------------------- MODULE GuidedFlow -----------------------------
(***************************************************************************)
(* Guided flows: app/guided_flow_store.py and the turns of                 *)
(* app/assistant_supervisor.py that set, peek at and consume its rows,     *)
(* under the quotas of app/usage_limits.py, for one principal.             *)
(*                                                                         *)
(* A turn is one message answered by one server process.  It never         *)
(* suspends between its database calls, so turns interleave only when they *)
(* run in different processes, which the store is written for; each        *)
(* database transaction is a step, as on SQLite, which the store names as  *)
(* its backend: SQLite lets one transaction write at a time.  A flow row   *)
(* is a record under its id; the payload it carries is named by that id.   *)
(***************************************************************************)
EXTENDS Integers, FiniteSets, FiniteSetsExt

CONSTANTS
    Turns,          \* turns in progress at a time
    Messages,       \* what the principal writes, as sets of marks
    Budgets,        \* bound: {[Requests -> Nat]}, how many requests of each sort are made
    MaxFlows,       \* bound: flow rows
    QuotaLimit,     \* *_per_window settings
    PendingCap      \* max_pending_flows_per_owner

Gated == {"artifact", "action", "plan"}
Kinds == Gated \cup {"clarification"}
Keys == {"owner", "session"}
Ids == 1..MaxFlows

(* What the parsers of clarification.py tell messages apart by: a whole    *)
(* message that decides; the card's payload and a value in it; a code, an  *)
(* ordinal or words of an option; how an answer or a question begins.      *)
Marks == {"approve", "reject", "structured", "value", "code", "ordinal", "mention",
          "prefix", "question"}

(* The requests _dispatch_non_chat makes a flow of: it clarifies a vague   *)
(* one first, plans an artifact, and revises the artifact made last.       *)
Requests == {"vague request", "RAG request", "artifact request", "revision"}
Vague == {"vague request", "RAG request"}

Replies == {"approve", "reject", "answer"} \cup Requests

(* A vague request opens a clarification, which is answered into a plan,   *)
(* which is executed into an offer of runtime actions: three rows.         *)
ASSUME FlowAssumption ==
    /\ IsFiniteSet(Turns)
    /\ Messages \subseteq SUBSET Marks
    /\ Budgets \subseteq [Requests -> Nat]
    /\ \A b \in Budgets : 2 * MapThenSumSet(LAMBDA r : b[r], Vague)
                         + MapThenSumSet(LAMBDA r : b[r], Requests) <= MaxFlows
    /\ MaxFlows \in Nat /\ QuotaLimit \in Nat /\ PendingCap \in Nat

VARIABLES
    flows,      \* [Ids -> row], the guided_flows table
    used,       \* [Gated -> Nat], usage_records of the current window
    turn,       \* [Turns -> turn]
    asks,       \* [Requests -> Nat], requests still to be made
    made,       \* last_artifact: a file was made that may be revised
    scoped,     \* the principal is a bare session: its owner key is its session id
    runs,       \* history: [Ids -> Nat], times a flow's payload was acted on
    granted,    \* history: flows claimed by an approval or an answer
    lost        \* history: flows claimed by a turn that died

vars == <<flows, used, turn, asks, made, scoped, runs, granted, lost>>

NoRow == [kind |-> "plan", key |-> "owner", status |-> "none", guided |-> FALSE]
Idle == [pc |-> "idle", reply |-> "answer", kind |-> "artifact",
         seen |-> 0, held |-> 0]

-----------------------------------------------------------------------------
(* GuidedFlowStore *)

(* Mutant of SessionKey: a turn without a scope files under "anonymous". *)
SessionKeyAnonymous == IF scoped THEN "owner" ELSE "anonymous"

SessionKey == IF scoped THEN "owner" ELSE "session"

(* A pending row whose expires_at has passed has status "stale" here.      *)
Open(i) == flows[i].status \in {"pending", "stale"}

Row(i, kind, key) == flows[i].kind = kind /\ flows[i].key = key /\ Open(i)

(* The key a turn reads under, ctx.owner. *)
Pending(kind) == {i \in Ids : Row(i, kind, "owner")}

count_pending ==
    Cardinality({i \in Ids : flows[i].key = "owner" /\ flows[i].status = "pending"})

(* Mutant of Replaced: the pending row is kept beside the new one. *)
ReplacedKept(i, row) == [flows EXCEPT ![i] = row]

(* Mutant of Replaced: the delete does not ask the status. *)
ReplacedAll(i, row) ==
    [j \in Ids |-> IF j = i THEN row
                   ELSE IF flows[j].status # "none" /\ flows[j].kind = row.kind /\ flows[j].key = row.key
                   THEN [flows[j] EXCEPT !.status = "replaced"]
                   ELSE flows[j]]

(* set: delete the pending row of this key and kind, insert the new one,   *)
(* in one transaction.  Under Postgres's read committed two sets of one    *)
(* key would not see each other's insert, and both rows would be pending.  *)
Replaced(i, row) ==
    [j \in Ids |-> IF j = i THEN row
                   ELSE IF Row(j, row.kind, row.key) THEN [flows[j] EXCEPT !.status = "replaced"]
                   ELSE flows[j]]

Unused(i) == flows[i].status = "none" /\ \A j \in Ids : j < i => flows[j].status # "none"

SetRow(row) == \E i \in Ids : Unused(i) /\ flows' = Replaced(i, row)

Set(kind, key) == SetRow([kind |-> kind, key |-> key, status |-> "pending", guided |-> FALSE])

OfKind(kind) == {i \in Ids : flows[i].status # "none" /\ flows[i].kind = kind}

-----------------------------------------------------------------------------
(* clarification.py *)

(* Only a request for retrieval gets options to choose from. *)
option_groups_for(r) == r = "RAG request"

parse_plan_decision(says) ==
    CASE says = {"approve"} -> "approve"
      [] says = {"reject"} -> "reject"
      [] OTHER -> "none"

_parse_structured_reply(says) == "value" \in says

(* A free text answers by picking an option, or by beginning like one and  *)
(* then naming one or being no question.                                   *)
parse_selection(says, guided) ==
    IF "structured" \in says THEN _parse_structured_reply(says)
    ELSE \/ guided /\ says \cap {"code", "ordinal"} # {}
         \/ guided /\ {"prefix", "mention"} \subseteq says
         \/ "prefix" \in says /\ "question" \notin says

-----------------------------------------------------------------------------
(* A turn: _dispatch and the handlers it calls. *)

At(t, pc) == turn[t].pc = pc
GoTo(t, pc) == turn' = [turn EXCEPT ![t] = IF pc = "idle" THEN Idle ELSE [@ EXCEPT !.pc = pc]]

(* A revision needs an artifact that was made before. *)
CanAsk(r) == asks[r] > 0 /\ (r = "revision" => made)

(* The pending clarifications that a message answers. *)
Answered(says) == {i \in Pending("clarification") : parse_selection(says, flows[i].guided)}

(* A message decides, or answers the pending clarification, or is a new    *)
(* request.  The reads before the one that matters change nothing.         *)
Start(t) ==
    /\ At(t, "idle")
    /\ \E says \in Messages :
        LET decision == parse_plan_decision(says)
        IN  \/ /\ decision # "none"
               /\ turn' = [turn EXCEPT ![t] = [Idle EXCEPT !.pc = "peek", !.reply = decision]]
               /\ UNCHANGED asks
            \/ /\ decision = "none"
               /\ \E i \in Answered(says) :
                    turn' = [turn EXCEPT ![t] = [Idle EXCEPT !.pc = "select", !.kind = "clarification",
                                                             !.seen = i]]
               /\ UNCHANGED asks
            \/ /\ decision = "none" /\ Answered(says) = {}
               /\ \E r \in Requests :
                    /\ CanAsk(r)
                    /\ asks' = [asks EXCEPT ![r] = @ - 1]
                    /\ turn' = [turn EXCEPT ![t] = [Idle EXCEPT !.pc = "permit", !.reply = r]]
    /\ UNCHANGED <<flows, used, made, scoped, runs, granted, lost>>

(* The order in which _dispatch asks the stores for a decision. *)
After(kind) == IF kind = "artifact" THEN "action" ELSE "plan"

Peek(t) ==
    LET u == turn[t]
        rows == Pending(u.kind)
    IN  /\ At(t, "peek")
        /\ \/ \E i \in rows :
                turn' = [turn EXCEPT ![t].seen = i,
                                     ![t].pc = IF u.reply = "approve" THEN "check" ELSE "select"]
           \/ /\ rows = {} /\ u.kind \in {"artifact", "action"}
              /\ turn' = [turn EXCEPT ![t].kind = After(u.kind)]
           \/ /\ rows = {} /\ u.kind = "plan"
              /\ GoTo(t, "idle")
        /\ UNCHANGED <<flows, used, asks, made, scoped, runs, granted, lost>>

Allowed(kind) == used[kind] < QuotaLimit

(* An approval: the role of the principal (PERM_EDIT or less) and the      *)
(* quota are asked before the claim.                                       *)
Check(t) ==
    /\ At(t, "check")
    /\ \E edit \in BOOLEAN : GoTo(t, IF edit /\ Allowed(turn[t].kind) THEN "select" ELSE "idle")
    /\ UNCHANGED <<flows, used, asks, made, scoped, runs, granted, lost>>

(* consume: the row is read, then flipped under a guard on its status. *)
Select(t) ==
    LET rows == Pending(turn[t].kind)
    IN  /\ At(t, "select")
        /\ \/ /\ \A i \in rows : flows[i].status = "stale"
              /\ GoTo(t, "idle")
           \/ \E i \in rows :
                /\ flows[i].status = "pending"
                /\ turn' = [turn EXCEPT ![t].pc = "claim", ![t].held = i]
        /\ UNCHANGED <<flows, used, asks, made, scoped, runs, granted, lost>>

(* Mutant of Claimable: the UPDATE names the id alone. *)
ClaimableById(i) == flows[i].status # "replaced"

Claimable(i) == Open(i)

(* Mutant of ClaimedNext: only the inline kinds go on. *)
ClaimedNextDropsPlan(u) ==
    CASE u.kind = "clarification" -> "resume"
      [] u.kind \in {"artifact", "action"} /\ u.reply = "approve" -> "record"
      [] OTHER -> "idle"

ClaimedNext(u) ==
    CASE u.kind = "clarification" -> "resume"
      [] u.kind # "clarification" /\ u.reply = "approve" -> "record"
      [] OTHER -> "idle"

Claim(t) ==
    LET u == turn[t]
        won == Claimable(u.held)
    IN  /\ At(t, "claim")
        /\ flows' = IF won THEN [flows EXCEPT ![u.held].status = "consumed"] ELSE flows
        /\ granted' = IF won /\ u.reply # "reject" THEN granted \cup {u.held} ELSE granted
        /\ GoTo(t, IF won THEN ClaimedNext(u) ELSE "idle")
        /\ UNCHANGED <<used, asks, made, scoped, runs, lost>>

(* Mutant of Recorded: the action is not counted. *)
RecordedNot(kind) == used

Recorded(kind) == [used EXCEPT ![kind] = @ + 1]

Record(t) ==
    /\ At(t, "record")
    /\ used' = Recorded(turn[t].kind)
    /\ GoTo(t, "execute")
    /\ UNCHANGED <<flows, asks, made, scoped, runs, granted, lost>>

(* Mutant of ActedOn: a plan too is read from the peek. *)
ActedOnPeeked(u) == u.seen

(* The plan that runs is the claimed one; an artifact, an action and a     *)
(* clarification go on with what the turn peeked at.                       *)
ActedOn(u) == IF u.kind = "plan" THEN u.held ELSE u.seen

Act(t) ==
    /\ At(t, "execute")
    /\ runs' = [runs EXCEPT ![ActedOn(turn[t])] = @ + 1]
    /\ UNCHANGED <<flows, used, asks, scoped, granted, lost>>

(* generate: an artifact that opens is remembered as the last one made. *)
GenerateArtifact(t) ==
    /\ turn[t].kind = "artifact" /\ Act(t)
    /\ made' \in {made, TRUE}
    /\ GoTo(t, "idle")

(* With queue_artifacts a job does it, unless the queue fails. *)
_maybe_enqueue_artifact(t) ==
    /\ turn[t].kind = "artifact" /\ Act(t)
    /\ GoTo(t, "idle")
    /\ UNCHANGED made

execute_runtime_validation(t) ==
    /\ turn[t].kind = "action" /\ Act(t)
    /\ GoTo(t, "idle")
    /\ UNCHANGED made

(* A plan that completes with something to install or run offers that. *)
_execute_approved_plan(t) ==
    /\ turn[t].kind = "plan" /\ Act(t)
    /\ \E completed \in BOOLEAN : GoTo(t, IF completed THEN "offer" ELSE "idle")
    /\ UNCHANGED made

(* Runtime actions are filed under ctx.session_id. *)
Offer(t) ==
    /\ At(t, "offer")
    /\ Set("action", SessionKey)
    /\ GoTo(t, "idle")
    /\ UNCHANGED <<used, asks, made, scoped, runs, granted, lost>>

Resume(t) ==
    /\ At(t, "resume")
    /\ Set("plan", "owner")
    /\ runs' = [runs EXCEPT ![ActedOn(turn[t])] = @ + 1]
    /\ GoTo(t, "idle")
    /\ UNCHANGED <<used, asks, made, scoped, granted, lost>>

UnderCap == count_pending < PendingCap

(* An artifact needs the role; a clarification does not ask for it. *)
Cap(t) ==
    /\ At(t, "permit")
    /\ \E edit \in BOOLEAN :
        GoTo(t, IF (turn[t].reply \notin Vague => edit) /\ UnderCap THEN "present" ELSE "idle")
    /\ UNCHANGED <<flows, used, asks, made, scoped, runs, granted, lost>>

PresentClarification(t) ==
    /\ At(t, "present") /\ turn[t].reply \in Vague
    /\ SetRow([kind |-> "clarification", key |-> "owner", status |-> "pending",
               guided |-> option_groups_for(turn[t].reply)])
    /\ GoTo(t, "idle")
    /\ UNCHANGED <<used, asks, made, scoped, runs, granted, lost>>

(* The content is planned before, from documents or research that may      *)
(* fail; the flow is set in any case.                                      *)
PresentPlan(t) ==
    /\ At(t, "present") /\ turn[t].reply \notin Vague
    /\ Set("artifact", "owner")
    /\ GoTo(t, "idle")
    /\ UNCHANGED <<used, asks, made, scoped, runs, granted, lost>>

(* The process dies, or the turn raises and the legacy engine answers.  At *)
(* any other point this leaves what a turn that ended there would leave.   *)
Die(t) ==
    /\ turn[t].pc \in {"record", "execute", "resume"}
    /\ lost' = lost \cup {turn[t].held}
    /\ GoTo(t, "idle")
    /\ UNCHANGED <<flows, used, asks, made, scoped, runs, granted>>

(* The time to live of a pending row passes. *)
Expire(i) ==
    /\ flows[i].status = "pending"
    /\ flows' = [flows EXCEPT ![i].status = "stale"]
    /\ UNCHANGED <<used, turn, asks, made, scoped, runs, granted, lost>>

Step(t) ==
    \/ Peek(t) \/ Check(t) \/ Select(t) \/ Claim(t) \/ Record(t)
    \/ GenerateArtifact(t) \/ _maybe_enqueue_artifact(t)
    \/ execute_runtime_validation(t) \/ _execute_approved_plan(t)
    \/ Offer(t) \/ Resume(t) \/ Cap(t)
    \/ PresentClarification(t) \/ PresentPlan(t)

Init ==
    /\ flows = [i \in Ids |-> NoRow]
    /\ used = [k \in Gated |-> 0]
    /\ turn = [t \in Turns |-> Idle]
    /\ asks \in Budgets
    /\ made = FALSE
    /\ scoped \in BOOLEAN
    /\ runs = [i \in Ids |-> 0]
    /\ granted = {}
    /\ lost = {}

Next ==
    \/ \E t \in Turns : Start(t) \/ Step(t) \/ Die(t)
    \/ \E i \in Ids : Expire(i)

Spec == Init /\ [][Next]_vars

(* A server process that has begun a turn goes on with it.                 *)
FairSpec == Spec /\ \A t \in Turns : WF_vars(Step(t))

-----------------------------------------------------------------------------
(* Properties *)

TypeOK ==
    /\ flows \in [Ids -> [kind : Kinds, key : Keys,
                          status : {"none", "pending", "stale", "consumed", "replaced"},
                          guided : BOOLEAN]]
    /\ used \in [Gated -> Nat]
    /\ turn \in [Turns -> [pc : {"idle", "peek", "check", "select", "claim", "record", "execute",
                                 "offer", "resume", "permit", "present"},
                           reply : Replies, kind : Kinds,
                           seen : Ids \cup {0}, held : Ids \cup {0}]]
    /\ asks \in [Requests -> Nat]
    /\ made \in BOOLEAN
    /\ scoped \in BOOLEAN
    /\ runs \in [Ids -> Nat]
    /\ granted \subseteq Ids
    /\ lost \subseteq Ids

(* The runs started of a kind, each as its row and its number. *)
Started(k) == UNION {{i} \X (1..runs[i]) : i \in OfKind(k)}

(* Duplicate clicks, racing processes and replacement never execute an     *)
(* approved plan twice, and none that was not claimed by an approval       *)
(* (guided_flow_store.py consume, _handle_plan_reply).                     *)
PlanRunsOnce == \A i \in OfKind("plan") : runs[i] <= IF i \in granted THEN 1 ELSE 0

(* One approval, one run: of each kind, never more work is started than    *)
(* rows of that kind were claimed by an approval or an answer.             *)
OneClaimOneRun ==
    \A k \in Kinds : Cardinality(Started(k)) <= Cardinality(OfKind(k) \cap granted)

(* The quota is read before the claim and recorded after it, so turns in   *)
(* flight together overshoot it, by less than their number                 *)
(* (QuotaService.check_windowed and record).                               *)
QuotaOvershoot ==
    \A k \in Gated : QuotaLimit > 0 =>
        Cardinality(Started(k)) <= QuotaLimit + Cardinality(Turns) - 1

(* At most one pending row per key and kind, the reason why peek and       *)
(* consume mean the same flow when no other turn intervenes.               *)
OnePendingRow ==
    \A i, j \in Ids : /\ Open(i) /\ Open(j)
                      /\ flows[i].kind = flows[j].kind /\ flows[i].key = flows[j].key
                      => i = j

Peeked == {"check", "select", "claim", "record", "execute", "resume"}
Holding == {"record", "execute", "resume"}

(* What a turn has peeked at and what it holds are rows of its kind; a row *)
(* it holds was granted, and if it is a plan it has not run.               *)
Backed(u) ==
    /\ u.pc \in Peeked => u.seen \in OfKind(u.kind)
    /\ u.pc \in {"claim"} \cup Holding => u.held \in OfKind(u.kind)
    /\ u.pc \in {"peek", "record", "execute"} => u.kind # "clarification"
    /\ u.pc = "resume" => u.kind = "clarification"
    /\ u.pc \in Peeked /\ u.kind = "clarification" => u.reply = "answer"
    /\ u.pc \in Holding => u.held \in granted /\ (u.kind = "plan" => runs[u.held] = 0)

(* No two turns hold one row, and what was granted is consumed. *)
TurnsBacked ==
    /\ \A i \in granted : flows[i].status = "consumed"
    /\ \A i \in Ids : flows[i].status = "none" => runs[i] = 0
    /\ \A t \in Turns : Backed(turn[t])
    /\ \A t, v \in Turns :
        t # v /\ turn[t].pc \in Holding /\ turn[v].pc \in Holding => turn[t].held # turn[v].held

(* Approvals and runs: a plan at most once, of each kind no more runs than *)
(* approvals, one pending flow for an approval to mean, every turn with    *)
(* rows of its own, and types.                                             *)
ApprovalsBoundRuns == TypeOK /\ PlanRunsOnce /\ OneClaimOneRun /\ OnePendingRow /\ TurnsBacked

(* No approved plan waits for ever: again and again every plan that was    *)
(* approved has been executed, or the turn that claimed it died.           *)
ApprovedActs ==
    []<>(\A i \in OfKind("plan") \cap granted : runs[i] = 1 \/ i \in lost)

(* A plan is a one-shot offer. *)
Carried(i) == \E t \in Turns : turn[t].pc \in {"record", "execute"} /\ turn[t].held = i

PlanState(i) ==
    CASE flows[i].kind # "plan" \/ flows[i].status = "none" -> "new"
      [] flows[i].kind = "plan" /\ Open(i) -> "offered"
      [] flows[i].kind = "plan" /\ flows[i].status = "consumed" /\ Carried(i) -> "taken"
      [] OTHER -> "gone"

Plan(i) == INSTANCE OneShot WITH
    state <- PlanState(i),
    performed <- IF flows[i].kind = "plan" THEN runs[i] ELSE 0

(* Every step on a plan row is a step of OneShot: the offer, the one take, *)
(* the one performance of the taker, or a giving up.                       *)
PlansAreOneShot ==
    /\ \A i \in Ids : Plan(i)!Init
    /\ [][\A i \in Ids : Plan(i)!Next \/ UNCHANGED Plan(i)!offer]_vars
=============================================================================
