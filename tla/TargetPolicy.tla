---------------------------- MODULE TargetPolicy ----------------------------
(***************************************************************************)
(* app/incident_sync.py: what an external incident target may do.  Three   *)
(* layers decide, in this order: what the adapter of the target's kind is  *)
(* capable of, the target's own override, the default of its profile.      *)
(* Everything here is a function of the target's row.                      *)
(***************************************************************************)
EXTENDS FiniteSets

Kinds == {"generic", "pagerduty", "opsgenie", "jira"}

(* The adapters' class flags. *)
Capabilities(kind) ==
    LET observes == {"refresh", "push_outward", "apply_resolved", "apply_missing"}
        typed == {"status_sync", "external_resolve", "external_acknowledge"}
    IN  CASE kind = "generic" -> observes
          [] kind = "pagerduty" -> observes \cup typed \cup {"external_reopen"}
          [] kind = "opsgenie" -> observes \cup typed
          [] kind = "jira" -> {"push_outward"}

InboundFields(kind) ==
    CASE kind = "pagerduty" -> {"assignee", "severity", "updated_at", "comment_count"}
      [] kind = "opsgenie" -> {"assignee", "severity", "updated_at"}
      [] OTHER -> {}

(* Each action with the capability it asks for. *)
ActionPolicy ==
    [accept_resolved |-> "apply_resolved", accept_missing |-> "apply_missing",
     external_resolve |-> "external_resolve", external_reopen |-> "external_reopen",
     external_acknowledge |-> "external_acknowledge", resend_current_state |-> "push_outward"]

Actions == DOMAIN ActionPolicy
Outbound == Actions \ {"accept_resolved", "accept_missing"}
Fields == {"assignee", "severity", "updated_at", "comment_count", "suggestions"}

Profiles == {"generic", "pagerduty", "pagerduty-readonly", "opsgenie", "jira-outbound"}

ProfileKind(profile) ==
    CASE profile = "pagerduty-readonly" -> "pagerduty"
      [] profile = "jira-outbound" -> "jira"
      [] OTHER -> profile

(* A row without a preset has its kind's. *)
DefaultProfile(kind) == IF kind = "jira" THEN "jira-outbound" ELSE kind

ProfileDisables(profile, action) == profile = "pagerduty-readonly" /\ action \in Outbound

Capable(kind, what) ==
    IF what \in Actions THEN ActionPolicy[what] \in Capabilities(kind)
    ELSE IF what = "suggestions" THEN "refresh" \in Capabilities(kind)
    ELSE what \in InboundFields(kind)

(* Mutant of Verdict: an override that is set is asked first. *)
VerdictOverride(kind, profile, override, what) ==
    IF override = "on" THEN "allowed"
    ELSE IF override = "off" THEN "denied:target_policy"
    ELSE IF ~Capable(kind, what) THEN "denied:capability"
    ELSE IF ProfileDisables(profile, what) THEN "denied:profile" ELSE "allowed"

(* target_action_policy and inbound_field_policy: the first layer that     *)
(* refuses gives the code.                                                 *)
Verdict(kind, profile, override, what) ==
    IF ~Capable(kind, what) THEN "denied:capability"
    ELSE IF override = "off" THEN "denied:target_policy"
    ELSE IF override = "unset" /\ ProfileDisables(profile, what) THEN "denied:profile" ELSE "allowed"

(* _decision_source: what the console names as the origin. *)
Source(kind, profile, override, what) ==
    IF ~Capable(kind, what) THEN "capability"
    ELSE IF override # "unset" THEN "override"
    ELSE IF Verdict(kind, profile, override, what) = "denied:profile" THEN "profile"
    ELSE "default"
=============================================================================
