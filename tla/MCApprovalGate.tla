--------------------------- MODULE MCApprovalGate ---------------------------
(* Instances of ApprovalGate for TLC. *)
EXTENDS ApprovalGate, TLC

Goal(matches, does, says) == [matches |-> matches, does |-> does, says |-> says]

(* Stage and commit, the same with a message that holds a blocked pattern, *)
(* a package install asked for in the words of a follow-up, an exact       *)
(* command, a dangerous one that begins like small talk, and code that     *)
(* cannot be extracted.                                                    *)
MCGoals ==
    {Goal({"stage and commit", "commit"}, NoAction, {"execution", "document"}),
     Goal({"stage and commit", "commit"}, "unsafe", {"execution"}),
     Goal({"install"}, NoAction, {"execution", "previous term", "workflow term"}),
     Goal({"shell", "git status"}, "plain", {"command word"}),
     Goal({"shell", "dangerous"}, "unsafe", {"execution", "greeting"}),
     Goal({"python"}, NoAction, {"execution", "web"})}
MCCommit == {Goal({"stage and commit"}, NoAction, {"execution"})}

CONSTANTS r1, r2
MCMixed == (r1 :> MCGoals @@ r2 :> MCCommit)
=============================================================================
