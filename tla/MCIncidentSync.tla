--------------------------- MODULE MCIncidentSync ---------------------------
(* Instances of IncidentSync for TLC. *)
EXTENDS IncidentSync, TLC

CONSTANTS p1, p2

Budget(work, watched, changes, calls, ops, crashes, faults) ==
    [job |-> work, watched |-> watched, changes |-> changes, calls |-> calls, ops |-> ops,
     crashes |-> crashes, faults |-> faults]

J(status, late, spent, children) ==
    [status |-> status, late |-> late, spent |-> spent, children |-> children]

Quiet == J("queued", FALSE, FALSE, {})
Stuck == J("running", TRUE, FALSE, {})

Failed(children) == J("failed", FALSE, TRUE, children)

(* Attempts that fail, race and are redriven; every call; a crash; a       *)
(* target that is deleted under them; a job that becomes stuck or goes on; *)
(* one that failed for good and whose replay is made or ends while an      *)
(* operator call is under way.                                             *)
MCBudgets ==
    {Budget(Stuck, "stuck", 0, 2, {"redrive"}, 0, 4), Budget(Stuck, "stuck", 0, 3, {"redrive"}, 0, 2),
     Budget(Stuck, "stuck", 0, 1, RowOps, 0, 1), Budget(Stuck, "stuck", 0, 0, {}, 1, 3),
     Budget(Stuck, "stuck", 0, 2, {"redrive", "delete_target"}, 0, 3),
     Budget(Quiet, "stuck", 1, 0, {}, 0, 1), Budget(Stuck, "stuck", 1, 0, {}, 0, 0),
     Budget(Failed({}), "retry_exhausted", 1, 1, {"acknowledged"}, 0, 0),
     Budget(Failed({"active"}), "retry_exhausted", 1, 1, {"acknowledged"}, 0, 0)}
=============================================================================
