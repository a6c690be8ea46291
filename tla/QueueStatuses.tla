---------------------------- MODULE QueueStatuses ----------------------------
(***************************************************************************)
(* The statuses of evaluation jobs and tickets, the transitions a ticket   *)
(* may make, and the status a job has by those of its tickets.             *)
(***************************************************************************)

Pending == {"READY", "RETRY"}
Terminal == {"DONE", "FAILED", "CANCELLED", "NOT_APPLICABLE"}
TicketStatus == Pending \cup {"RUNNING"} \cup Terminal

OpenJobStatus == {"CREATED", "READY", "RUNNING"}
JobStatus == OpenJobStatus \cup {"COMPLETED", "PARTIAL_FAILED", "FAILED", "CANCELLED"}

(* The terminal statuses that come with a result row. *)
Verdict == {"DONE", "FAILED", "NOT_APPLICABLE"}

AllowedTicketTransitions ==
    [s \in TicketStatus |->
        CASE s = "READY"   -> {"RUNNING", "CANCELLED"}
          [] s = "RUNNING" -> {"RETRY"} \cup Terminal
          [] s = "RETRY"   -> {"RUNNING", "CANCELLED", "FAILED"}
          [] s = "FAILED"  -> {"READY"}
          [] OTHER         -> {}]

(* Faulty: names the job's status as the tickets' is. *)
ProgressStatusOfTickets(cancel, present) ==
    IF ~(present \subseteq Terminal)
      THEN IF present \subseteq Pending THEN "READY" ELSE "RUNNING"
    ELSE IF "CANCELLED" \in present THEN "CANCELLED"
    ELSE IF "FAILED" \in present THEN "FAILED"
    ELSE "DONE"

(* Faulty: a job is CANCELLED only when nothing of it was evaluated.       *)
ProgressStatusUncancelled(cancel, present) ==
    IF ~(present \subseteq Terminal)
      THEN IF present \subseteq Pending THEN "READY" ELSE "RUNNING"
    ELSE IF "CANCELLED" \in present /\ present \cap {"DONE", "FAILED"} = {} THEN "CANCELLED"
    ELSE IF "FAILED" \notin present THEN "COMPLETED"
    ELSE IF present \cap {"DONE", "NOT_APPLICABLE"} # {} THEN "PARTIAL_FAILED"
    ELSE "FAILED"

(* recompute_progress: the status of a job whose cancellation was or was   *)
(* not requested, from the statuses present among its tickets.             *)
ProgressStatus(cancel, present) ==
    IF ~(present \subseteq Terminal)
      THEN IF present \subseteq Pending THEN "READY" ELSE "RUNNING"
    ELSE IF "CANCELLED" \in present /\ (cancel \/ present \cap {"DONE", "FAILED"} = {})
      THEN "CANCELLED"
    ELSE IF "FAILED" \notin present THEN "COMPLETED"
    ELSE IF present \cap {"DONE", "NOT_APPLICABLE"} # {} THEN "PARTIAL_FAILED"
    ELSE "FAILED"
=============================================================================
