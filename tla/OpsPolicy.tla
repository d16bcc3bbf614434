------------------------------ MODULE OpsPolicy ------------------------------
(***************************************************************************)
(* backend/app/ops_policy.py, with its checks enabled: what the operators  *)
(* are alerted of, as a function of a durable job row and of the retries   *)
(* and replays made of it.                                                 *)
(***************************************************************************)

(* "running" stands for validating, repairing and awaiting_approval too.   *)
Unfinished == {"queued", "running", "cancel_requested"}
Finished == {"completed", "failed", "canceled"}
ChildStatus == {"active"} \cup Finished

(* late: longer in its status than the threshold of that status allows;    *)
(* spent: as many attempts as job_max_attempts.                            *)
Job == [status : Unfinished \cup Finished, late : BOOLEAN, spent : BOOLEAN, children : SUBSET ChildStatus]

Verdict(classification, severity) == [classification |-> classification, severity |-> severity]

FollowedUp(job) == "active" \in job.children

_classify_terminal(job) ==
    CASE job.status # "failed" -> Verdict("healthy", "info")
      [] job.status = "failed" /\ "completed" \in job.children -> Verdict("resolved", "info")
      [] job.status = "failed" /\ "completed" \notin job.children /\ FollowedUp(job) ->
            Verdict("triage_needed", "info")
      [] OTHER -> IF job.spent THEN Verdict("retry_exhausted", "critical")
                               ELSE Verdict("triage_needed", "warning")

_classify_active(job) ==
    CASE ~job.late -> Verdict("healthy", "info")
      [] job.late /\ job.status = "queued" -> Verdict("stuck", "warning")
      [] OTHER -> Verdict("stuck", "critical")

classify_job(job) ==
    IF job.status \in Finished THEN _classify_terminal(job) ELSE _classify_active(job)

(* The classifications of the job that are alerts. *)
alerts(job) == {v \in {classify_job(job)} : v.severity \in {"warning", "critical"}}

(* What the queue, a worker or an operator may do to the job or to its     *)
(* retry in one step, and the passing of a threshold.  The statuses are    *)
(* those that ExecutionQueue can write: a requeue, and also a cancel or a  *)
(* transition over what has been written since it read the row.            *)
Changes(job) ==
    LET To(status) == [job EXCEPT !.status = status, !.late = FALSE]
        Child(status) == [job EXCEPT !.children = (@ \ {"active"}) \cup {status}]
        written == CASE job.status = "queued" -> {"running", "cancel_requested", "canceled"}
                     [] job.status \in {"completed", "failed"} -> {"cancel_requested", "canceled"}
                     [] OTHER -> (Unfinished \cup Finished) \ {job.status}
    IN  {To(status) : status \in written}
        \cup {[To("failed") EXCEPT !.spent = TRUE] : status \in written \cap {"failed"}}
        \cup (IF job.status \in Unfinished THEN {[job EXCEPT !.late = TRUE]} ELSE {})
        \cup (IF FollowedUp(job) THEN {Child(c) : c \in Finished}
              ELSE IF job.status = "failed" THEN {Child("active")} ELSE {})
=============================================================================
