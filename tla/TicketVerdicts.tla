---------------------------- MODULE TicketVerdicts ----------------------------
(***************************************************************************)
(* What the queue promises to whoever created a job, without runners,      *)
(* claims, leases, attempts or transactions: every ticket is open until it *)
(* is settled, once, with a verdict; the result it shows is that verdict;  *)
(* a cancelled job's open tickets are settled as CANCELLED and nothing     *)
(* else; the job is listed under what its tickets came to, exactly when    *)
(* all of them are settled; only an operator opens failed tickets again.   *)
(*                                                                         *)
(* TicketLifecycle implements this module.                                 *)
(***************************************************************************)
CONSTANTS Job, Ticket, JobOf

VARIABLES
    verdict,     \* what each ticket is settled with, or "open"
    shown,       \* the verdict of the result it points to, or "none"
    cancelled,   \* whether the cancellation of each job was requested
    report       \* what each job is listed under, or "open"

verdictVars == <<verdict, shown, cancelled, report>>

Final == {"DONE", "FAILED", "NOT_APPLICABLE", "CANCELLED"}

Open(j) == {t \in Ticket : JobOf[t] = j /\ verdict[t] = "open"}

(* A job is through when all its tickets are.  One that was cancelled in   *)
(* time for a ticket is listed as CANCELLED.                               *)
Listed(j, v) ==
    LET came == {v[t] : t \in {u \in Ticket : JobOf[u] = j}} IN
    IF "open" \in came THEN "open"
    ELSE IF "CANCELLED" \in came THEN "CANCELLED"
    ELSE IF "FAILED" \notin came THEN "COMPLETED"
    ELSE IF came = {"FAILED"} THEN "FAILED"
    ELSE "PARTIAL_FAILED"

Report(v) == [j \in Job |-> Listed(j, v)]

Init ==
    /\ verdict = [t \in Ticket |-> "open"]
    /\ shown = [t \in Ticket |-> "none"]
    /\ cancelled = [j \in Job |-> FALSE]
    /\ report = Report(verdict)

(* A ticket that ran out of attempts may fail without a result. *)
Shows(v, s) ==
    \/ v \in {"DONE", "NOT_APPLICABLE", "FAILED"} /\ s = v
    \/ v \in {"FAILED", "CANCELLED"} /\ s = "none"

(* The tickets of S are settled. *)
Settle(S) ==
    /\ S # {}
    /\ \A t \in S : /\ verdict[t] = "open"
                    /\ verdict'[t] \in Final
                    /\ verdict'[t] = "CANCELLED" <=> cancelled[JobOf[t]]
                    /\ Shows(verdict'[t], shown'[t])
    /\ verdict' = [t \in Ticket |-> IF t \in S THEN verdict'[t] ELSE verdict[t]]
    /\ shown' = [t \in Ticket |-> IF t \in S THEN shown'[t] ELSE shown[t]]
    /\ report' = Report(verdict')
    /\ UNCHANGED cancelled

(* A job that is through cannot be cancelled.  The tickets that somebody   *)
(* works on stay open for now.                                             *)
Cancel(j) ==
    /\ report[j] \in {"open", "CANCELLED"}
    /\ cancelled' = [cancelled EXCEPT ![j] = TRUE]
    /\ \E S \in SUBSET Open(j) :
         verdict' = [t \in Ticket |-> IF t \in S THEN "CANCELLED" ELSE verdict[t]]
    /\ report' = Report(verdict')
    /\ UNCHANGED shown

(* An operator has all failed tickets of a job tried again. *)
Reopen(j) ==
    LET failed == {t \in Ticket : JobOf[t] = j /\ verdict[t] = "FAILED"} IN
    /\ ~cancelled[j]
    /\ failed # {}
    /\ verdict' = [t \in Ticket |-> IF t \in failed THEN "open" ELSE verdict[t]]
    /\ shown' = [t \in Ticket |-> IF t \in failed THEN "none" ELSE shown[t]]
    /\ report' = Report(verdict')
    /\ UNCHANGED cancelled

Next ==
    \/ \E S \in SUBSET Ticket : Settle(S)
    \/ \E j \in Job : Cancel(j) \/ Reopen(j)

Spec == Init /\ [][Next]_verdictVars
=============================================================================
