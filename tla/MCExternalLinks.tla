--------------------------- MODULE MCExternalLinks --------------------------
(* Instances of ExternalLinks for TLC. *)
EXTENDS ExternalLinks, TLC

CONSTANTS p1, p2

Budget(changes, calls, ops, turns, faults) ==
    [local |-> changes, calls |-> calls, ops |-> ops, turns |-> turns, faults |-> faults]

(* Relinks and detachments that meet each other, refreshes and syncs; what *)
(* was observed and is applied; every call once; requests that fail.       *)
MCOpportunities ==
    {Budget(1, 2, {"relink", "detach"}, 0, 0), Budget(1, 1, {"relink", "detach"}, 1, 0),
     Budget(1, 1, {"apply"}, 1, 0), Budget(2, 1, Calls, 0, 0), Budget(1, 1, {"relink", "apply"}, 0, 1)}
=============================================================================
