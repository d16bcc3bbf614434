-------------------------- MODULE MCIncidentTargets -------------------------
(* Instances of IncidentTargets for TLC. *)
EXTENDS IncidentTargets, TLC

CONSTANTS p1, p2

Budget(edits, changes, calls, turns, created) ==
    [edits |-> edits, changes |-> changes, calls |-> calls, turns |-> turns, created |-> created]

Secret == {<<"secret", "new">>}
Gone == {<<"row", "deleted">>}
Switch == {<<"enabled", "on">>, <<"enabled", "off">>}
Probed == {<<"generic", TRUE, "suggestions">>}
Unprobed == {<<"jira-outbound", TRUE, "suggestions">>}

(* Checks that a new secret overtakes, with and without a probe; an        *)
(* endpoint that fails and comes back, under a target that is switched;    *)
(* a deletion under an edit or a check;                                    *)
(* every preset, kind and override, on a target that is not yet enabled.   *)
MCBudgets ==
    {Budget(2, Secret, 1, 0, Unprobed), Budget(1, Secret, 1, 1, Probed), Budget(1, Switch \cup Gone, 0, 1, Probed),
     Budget(2, Secret \cup Gone, 0, 0, Unprobed),
     Budget(2, Changes \ (Secret \cup Switch \cup Gone), 0, 0,
            {"pagerduty-readonly", "null"} \X {FALSE} \X (Actions \cup Fields))}
=============================================================================
