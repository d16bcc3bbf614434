-------------------------- MODULE IncidentTargets ---------------------------
(***************************************************************************)
(* The targets of app/incident_sync.py: an operator creates a target,      *)
(* tunes its policy, rotates its secret, validates, tests and deletes it;  *)
(* the sweep validates again what needs attention.  How far a target is    *)
(* trusted is never stored: it is computed from the evidence of the last   *)
(* checks.                                                                 *)
(*                                                                         *)
(* One target, several server processes.  A check's or an edit's read, its *)
(* request to the endpoint and its commit are steps of their own; a commit *)
(* writes the attributes whose value differs from the one that was read.   *)
(* A time stamp is kept up to the order of those still in use.             *)
(***************************************************************************)
EXTENDS TargetPolicy, Integers

CONSTANTS
    Procs,      \* server processes
    Budgets     \* bounds: records of how many edits (and which changes), operator
                \* checks and turns of the endpoint there are, and of what is created

(* What one edit changes: url or secret, the switch, the preset, the bare  *)
(* kind, one override, or the row itself, which it deletes.                *)
Changes ==
    {<<"secret", "new">>, <<"row", "deleted">>}
        \cup ({"enabled", "override"} \X {"on", "off"})
        \cup ({"profile"} \X Profiles) \cup ({"kind"} \X Kinds)

ASSUME TargetAssumption ==
    /\ IsFiniteSet(Procs) /\ Procs # {}
    /\ Budgets \subseteq [edits : Nat, changes : SUBSET Changes, calls : Nat, turns : Nat,
                           created : SUBSET ((Profiles \cup {"null"}) \X BOOLEAN \X (Actions \cup Fields))]

VARIABLES
    target,     \* the ExternalIncidentTarget row; one of its overrides is tuned
    deleted,    \* whether the row has been deleted
    proc,       \* what each process is doing
    endpoint,   \* how the endpoint answers
    trust,      \* history: the secret the last success was obtained with, and
                \* whether that check or an edit overtook the other
    budget      \* what is left of the bounds

vars == <<target, deleted, proc, endpoint, trust, budget>>

NoEvidence ==
    [validated |-> FALSE, tested |-> FALSE, success |-> 0, failure |-> 0, error |-> "none", check |-> "none"]
Evidence == DOMAIN NoEvidence

Idle == [pc |-> "idle", seen |-> NoEvidence, now |-> 0, change |-> <<"none", "none">>,
         result |-> "none", check |-> "none", secret |-> 0]

At(p, pc) == proc[p].pc = pc

(* The process reads or writes the row and finds it. *)
Finds(p, pc) == At(p, pc) /\ ~deleted
Checking(p) == proc[p].pc \in {"validate", "probe", "post", "reload", "store"}

(* The row and the processes are written with their stamps renumbered.     *)
Write(t, ps) ==
    LET used == ({t.success, t.failure} \cup {ps[q].now : q \in Procs}) \ {0}
        rank(v) == Cardinality({u \in used : u <= v})
    IN  /\ target' = [t EXCEPT !.success = rank(@), !.failure = rank(@)]
        /\ proc' = [q \in Procs |-> [ps[q] EXCEPT !.now = rank(@)]]

Move(p, changed) == Write(target, [proc EXCEPT ![p] = changed])

Now == 1 + Cardinality(({target.success, target.failure} \cup {proc[q].now : q \in Procs}) \ {0})

(* The part of the row an edit or a check loads and may overwrite. *)
Loaded(t) == [f \in Evidence |-> t[f]]

Resolved(t) == IF t.profile = "null" THEN DefaultProfile(t.kind) ELSE t.profile

ConfigOk(t) == ProfileKind(Resolved(t)) = t.kind

(* compute_readiness *)
Readiness(t) ==
    IF ~t.enabled THEN "disabled"
    ELSE IF ~ConfigOk(t) THEN "invalid_config"
    ELSE IF ~t.validated /\ ~t.tested THEN "unverified"
    ELSE IF t.failure > t.success
         THEN IF t.error = "auth" THEN "auth_failed" ELSE IF t.check = "test" THEN "test_failed" ELSE "degraded"
    ELSE IF t.success # 0 /\ t.aged THEN "stale" ELSE "ready"

(* Mutant of Attention: what has aged is left alone. *)
AttentionFailed == {"unverified", "degraded", "invalid_config", "auth_failed", "test_failed"}

Attention == {"unverified", "degraded", "invalid_config", "auth_failed", "test_failed", "stale"}

(* readiness_guidance: the button the console offers for a state. *)
recommended_action(state) ==
    CASE state \in {"unverified", "stale", "degraded"} -> "validate"
      [] state = "auth_failed" -> "rotate_secret"
      [] state = "invalid_config" -> "fix_config"
      [] state = "test_failed" -> "test"
      [] state = "disabled" -> "enable"
      [] state = "ready" -> "none"

(* attention_summary: where the rollup counts a target. *)
rollup(state) == IF state = "disabled" THEN "disabled" ELSE IF state \in Attention THEN "attention" ELSE "ready"

-----------------------------------------------------------------------------
(* validate, test_send, revalidate_stale *)

(* An operator asks for a preflight or a test. *)
Call(p) ==
    /\ At(p, "idle") /\ budget.calls > 0
    /\ budget' = [budget EXCEPT !.calls = @ - 1]
    /\ \E pc \in {"validate", "test"} : Move(p, [Idle EXCEPT !.pc = pc])
    /\ UNCHANGED <<deleted, endpoint, trust>>

(* The sweep picks the targets that need attention. *)
Sweep(p) ==
    /\ Finds(p, "idle") /\ Readiness(target) \in Attention
    /\ Move(p, [Idle EXCEPT !.pc = "validate"])
    /\ UNCHANGED <<deleted, endpoint, trust, budget>>

(* The preflight stamps its time first; only an adapter that can read back *)
(* is probed.                                                              *)
Validate(p) ==
    LET read == [Idle EXCEPT !.seen = Loaded(target), !.now = Now, !.secret = target.secret]
    IN  /\ Finds(p, "validate")
        /\ IF ConfigOk(target) /\ "refresh" \in Capabilities(target.kind)
           THEN Move(p, [read EXCEPT !.pc = "probe", !.check = "connectivity"])
           ELSE Move(p, [read EXCEPT !.pc = "store", !.check = "config",
                                     !.result = IF ConfigOk(target) THEN "ok" ELSE "other"])
        /\ UNCHANGED <<deleted, endpoint, trust, budget>>

Probe(p) ==
    /\ At(p, "probe")
    /\ Move(p, [proc[p] EXCEPT !.pc = "store", !.result = endpoint])
    /\ UNCHANGED <<deleted, endpoint, trust, budget>>

(* A disabled or invalid target is not tested. *)
Test(p) ==
    /\ Finds(p, "test")
    /\ Move(p, IF target.enabled /\ ConfigOk(target)
               THEN [Idle EXCEPT !.pc = "post", !.check = "test", !.secret = target.secret] ELSE Idle)
    /\ UNCHANGED <<deleted, endpoint, trust, budget>>

(* The synthetic event is sent; its answer is stamped when it arrives. *)
Post(p) ==
    /\ At(p, "post")
    /\ Move(p, [proc[p] EXCEPT !.pc = "reload", !.result = endpoint, !.now = Now])
    /\ UNCHANGED <<deleted, endpoint, trust, budget>>

Reload(p) ==
    /\ Finds(p, "reload")
    /\ Move(p, [proc[p] EXCEPT !.pc = "store", !.seen = Loaded(target)])
    /\ UNCHANGED <<deleted, endpoint, trust, budget>>

(* The evidence of a check: its stamps are new and always written, its     *)
(* error and kind only where they differ from what was read.               *)
Judged(t, c) ==
    LET ok == c.result = "ok"
        error == IF ok THEN "none" ELSE c.result
    IN  [t EXCEPT !.validated = @ \/ c.check # "test",
                  !.tested = @ \/ c.check = "test",
                  !.success = IF ok THEN c.now ELSE @,
                  !.failure = IF ok THEN @ ELSE c.now,
                  !.aged = @ /\ ~ok,
                  !.error = IF error = c.seen.error THEN @ ELSE error,
                  !.check = IF c.check = c.seen.check THEN @ ELSE c.check]

Store(p) ==
    LET editing == \E q \in Procs : At(q, "edit") /\ proc[q].change[1] = "secret"
        late == proc[p].secret # target.secret \/ editing
    IN  /\ Finds(p, "store")
        /\ Write(Judged(target, proc[p]), [proc EXCEPT ![p] = Idle])
        /\ trust' = IF proc[p].result # "ok" THEN [trust EXCEPT !.raced = @ \/ late]
                    ELSE [secret |-> proc[p].secret, raced |-> late]
        /\ UNCHANGED <<deleted, endpoint, budget>>

-----------------------------------------------------------------------------
(* update_target, rotate_secret *)

Edit(p) ==
    /\ At(p, "idle") /\ budget.edits > 0
    /\ budget' = [budget EXCEPT !.edits = @ - 1]
    /\ \E c \in budget.changes :
        Move(p, [Idle EXCEPT !.pc = "edit", !.seen = Loaded(target), !.change = c])
    /\ UNCHANGED <<deleted, endpoint, trust>>

(* Mutant of Invalidated: a new secret keeps what the old one has shown. *)
InvalidatedNever(t, seen) == t

(* _invalidate_readiness sets every evidence to null: what was null when   *)
(* the row was read is not written.                                        *)
Invalidated(t, seen) ==
    [f \in DOMAIN t |-> IF f \in Evidence /\ seen[f] # NoEvidence[f] THEN NoEvidence[f] ELSE t[f]]

(* Switching the preset points the kind at it; overrides and the switch    *)
(* leave the evidence alone.                                               *)
Edited(t, seen, what, value) ==
    CASE what = "secret" -> [Invalidated(t, seen) EXCEPT !.secret = @ + 1]
      [] what = "enabled" -> [t EXCEPT !.enabled = (value = "on")]
      [] what = "profile" -> [t EXCEPT !.profile = value, !.kind = ProfileKind(value)]
      [] what = "kind" -> [t EXCEPT !.kind = value]
      [] what = "override" -> [t EXCEPT !.override = value]
      [] what = "row" -> t

EditStore(p) ==
    LET c == proc[p].change
    IN  /\ Finds(p, "edit")
        /\ Write(Edited(target, proc[p].seen, c[1], c[2]), [proc EXCEPT ![p] = Idle])
        /\ deleted' = (c[1] = "row")
        /\ trust' = IF c[1] = "secret" THEN [trust EXCEPT !.raced = \E q \in Procs : Checking(q) \/ @] ELSE trust
        /\ UNCHANGED <<endpoint, budget>>

(* A request that finds no row, or whose UPDATE or DELETE matches none,    *)
(* ends there.                                                             *)
NotFound(p) ==
    /\ deleted /\ proc[p].pc \in {"validate", "test", "reload", "store", "edit"}
    /\ Move(p, Idle)
    /\ UNCHANGED <<deleted, endpoint, trust, budget>>

-----------------------------------------------------------------------------
(* The world *)

Turn ==
    /\ budget.turns > 0
    /\ budget' = [budget EXCEPT !.turns = @ - 1]
    /\ endpoint' \in {"ok", "auth", "other"} \ {endpoint}
    /\ UNCHANGED <<target, deleted, proc, trust>>

(* A week passes. *)
Age ==
    /\ target.success # 0
    /\ target' = [target EXCEPT !.aged = TRUE]
    /\ UNCHANGED <<deleted, proc, endpoint, trust, budget>>

(* create_target: from a preset, which gives the kind; a row from before   *)
(* the presets has none.                                                   *)
Created(profile, enabled, tuned) ==
    [kind |-> IF profile = "null" THEN "pagerduty" ELSE ProfileKind(profile), profile |-> profile, tuned |-> tuned,
     override |-> "unset", enabled |-> enabled, secret |-> 0, validated |-> FALSE, tested |-> FALSE, success |-> 0,
     failure |-> 0, error |-> "none", check |-> "none", aged |-> FALSE]

Init ==
    /\ budget \in Budgets
    /\ target \in {Created(c[1], c[2], c[3]) : c \in budget.created}
    /\ proc = [p \in Procs |-> Idle]
    /\ endpoint \in {"ok", "auth", "other"}
    /\ deleted = FALSE
    /\ trust = [secret |-> 0, raced |-> FALSE]

Work(p) == Validate(p) \/ Probe(p) \/ Test(p) \/ Post(p) \/ Reload(p) \/ Store(p) \/ EditStore(p) \/ NotFound(p)

Next == (\E p \in Procs : Call(p) \/ Sweep(p) \/ Edit(p) \/ Work(p)) \/ Turn \/ Age

Spec == Init /\ [][Next]_vars

(* Started requests go on and the scheduler keeps calling the sweep. *)
FairSpec == Spec /\ \A p \in Procs : WF_vars(Work(p)) /\ WF_vars(Sweep(p))

-----------------------------------------------------------------------------
(* Properties *)

TypeOK ==
    /\ target.kind \in Kinds /\ target.profile \in Profiles \cup {"null"}
    /\ target.tuned \in Actions \cup Fields /\ target.override \in {"unset", "on", "off"}
    /\ target.secret \in Nat /\ {target.success, target.failure} \subseteq Nat
    /\ \A f \in {"enabled", "validated", "tested", "aged"} : target[f] \in BOOLEAN
    /\ target.error \in {"none", "auth", "other"}
    /\ target.check \in {"none", "config", "connectivity", "test"}
    /\ deleted \in BOOLEAN /\ endpoint \in {"ok", "auth", "other"}
    /\ \A p \in Procs : /\ DOMAIN proc[p] = DOMAIN Idle /\ DOMAIN proc[p].seen = Evidence
                        /\ proc[p].pc \in {"idle", "validate", "probe", "test", "post", "reload",
                                           "store", "edit"}

(* A target reads ready only on a success obtained with its present url    *)
(* and secret: a change of either takes every earlier evidence away.  Only *)
(* a check and a change that overtake each other can leave it otherwise,   *)
(* until the next check or change that runs alone.                         *)
ReadyIsBacked ==
    Readiness(target) = "ready" =>
        \/ target.success # 0 /\ trust.secret = target.secret
        \/ trust.raced

(* The button that is offered leads out of the state it is offered for: a  *)
(* validation or test that passes makes the target ready at once, a new    *)
(* secret asks for a validation, a target that is switched on shows what   *)
(* its evidence says; and only a ready one is offered none.                *)
GuidanceHelps ==
    LET state == Readiness(target)
        passed(check) == [Idle EXCEPT !.result = "ok", !.now = Now, !.seen = Loaded(target), !.check = check]
        after(t) == recommended_action(Readiness(t))
    IN  /\ (rollup(state) = "ready") = (recommended_action(state) = "none")
        /\ CASE recommended_action(state) = "validate" ->
                    \A check \in {"config", "connectivity"} : Readiness(Judged(target, passed(check))) = "ready"
             [] recommended_action(state) = "test" -> Readiness(Judged(target, passed("test"))) = "ready"
             [] recommended_action(state) = "rotate_secret" ->
                    after(Edited(target, Loaded(target), "secret", "new")) = "validate"
             [] recommended_action(state) = "enable" ->
                    after(Edited(target, Loaded(target), "enabled", "on")) # "enable"
             [] recommended_action(state) = "fix_config" ->
                    after(Edited(target, Loaded(target), "profile", DefaultProfile(target.kind))) # "fix_config"
             [] OTHER -> TRUE

(* What a target's trust rests on, with its type, and how it is regained. *)
TrustIsBacked == TypeOK /\ ReadyIsBacked /\ GuidanceHelps

(* The policy of a target never exceeds its adapter, whatever the preset,  *)
(* the kind and the override have been switched to; an observe-only target *)
(* changes nothing outside unless an operator has enabled that very        *)
(* action; and nothing is refused for another reason.                      *)
PolicyIsLayered ==
    LET override(w) == IF w = target.tuned THEN target.override ELSE "unset"
        allowed == {w \in Actions \cup Fields :
                        Verdict(target.kind, Resolved(target), override(w), w) = "allowed"}
        capable == {w \in Actions \cup Fields : Capable(target.kind, w)}
        silenced == IF target.profile = "pagerduty-readonly" THEN Outbound ELSE {}
        tuned(value) == IF target.override = value THEN {target.tuned} ELSE {}
    IN  /\ allowed = capable \ (tuned("off") \cup (silenced \ tuned("on")))
        /\ \A w \in capable \ allowed :
               Source(target.kind, Resolved(target), override(w), w) =
                   IF w \in tuned("off") THEN "override" ELSE "profile"

(* Trust comes back: once a target that stays is enabled, consistent and   *)
(* its endpoint answers, it reads ready again and again, whatever failed   *)
(* before and however often its evidence ages out, with no operator asking. *)
TrustReturns ==
    <>[](~deleted /\ target.enabled /\ ConfigOk(target) /\ endpoint = "ok") => []<>(Readiness(target) = "ready")
=============================================================================
