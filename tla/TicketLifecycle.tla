--------------------------- MODULE TicketLifecycle ---------------------------
(***************************************************************************)
(* The durable queue of evalorch: evaluation jobs and their tickets, held  *)
(* in PostgreSQL, worked off by runner processes and steered by operators. *)
(*                                                                         *)
(* One action is one database transaction (or one step of a runner between *)
(* two of them).  The transactions that settle, recover, cancel or reset   *)
(* tickets hold the job row and then the ticket row, and the claim holds   *)
(* ticket rows and skips a locked job; JobTransactions takes them apart    *)
(* statement by statement.  One exception to atomicity is found there and  *)
(* left out here: the lease sweep reads a job's cancellation in a snapshot *)
(* taken before it locks the job.                                          *)
(*                                                                         *)
(* A definition commented "Faulty" is what a plausible bug would turn the  *)
(* definition below it into.  No action uses it: it is there to show that  *)
(* the properties notice the bug.                                          *)
(***************************************************************************)
EXTENDS QueueStatuses, Naturals, FiniteSets

CONSTANTS
    Job,            \* evaluation_jobs rows
    Ticket,         \* evaluation_tickets rows
    JobOf,          \* the job of each ticket
    MaxAttempts,    \* max_attempts of each ticket
    Worker,         \* runner processes; an id is never reused after a crash
    Mortal,         \* the runners that may be killed
    NoWorker,       \* worker_id IS NULL
    Capacity,       \* max_concurrency: evaluation threads of one runner
    ClaimBatch,     \* claim_batch_size
    RecoveryLimit,  \* runner_recovery_batch_limit
    MaxClaims,      \* bound: how often one ticket is claimed in a behaviour
    MaxResets       \* bound: how often an operator resets failed tickets

ASSUME LifecycleAssumption ==
    /\ IsFiniteSet(Ticket)
    /\ JobOf \in [Ticket -> Job]
    /\ \A j \in Job : \E t \in Ticket : JobOf[t] = j
    /\ MaxAttempts \in [Ticket -> Nat \ {0}]
    /\ Mortal \subseteq Worker
    /\ NoWorker \notin Worker
    /\ Capacity \in Nat \ {0}
    /\ ClaimBatch \in Nat \ {0}
    /\ RecoveryLimit \in Nat \ {0}
    /\ MaxClaims \in Nat
    /\ MaxResets \in Nat

VARIABLES
    job,      \* the job rows: status, cancellation request, progress counters
    ticket,   \* the ticket rows
    result,   \* the evaluation_results row of each ticket
    exec,     \* exec[t][n]: what the thread that got the n-th claim of t does
    claims,   \* how many claims of the ticket have been committed
    up,       \* the runners that are running
    resets    \* how many retry-failed calls were accepted

vars == <<job, ticket, result, exec, claims, up, resets>>

-----------------------------------------------------------------------------
(* Rows and threads.                                                       *)

Claim == 1 .. MaxClaims

(* Where a thread stands in execute_ticket: about to load the job, about to *)
(* settle a cancelled ticket, evaluating, or in _handle_failure with an     *)
(* error that is retryable ("failing") or not ("giving_up").                *)
ThreadState == {"none", "claimed", "cancelling", "evaluating", "failing", "giving_up"}

NoExec == [pc |-> "none", worker |-> NoWorker, attempt |-> 0]
NoResult == [claim |-> 0, verdict |-> "none"]

JobRow == [status : JobStatus, cancel : BOOLEAN, count : [Terminal -> Nat]]
TicketRow == [status : TicketStatus, worker : Worker \cup {NoWorker},
              lease : {"none", "live", "expired"}, attempt : Nat, linked : BOOLEAN]
ResultRow == [claim : Nat, verdict : Verdict \cup {"none"}]
Exec == [pc : ThreadState, worker : Worker \cup {NoWorker}, attempt : Nat]

(* Every variable holds values of its type. *)
TypeOK ==
    /\ job \in [Job -> JobRow]
    /\ ticket \in [Ticket -> TicketRow]
    /\ result \in [Ticket -> ResultRow]
    /\ exec \in [Ticket -> [Claim -> Exec]]
    /\ claims \in [Ticket -> 0 .. MaxClaims]
    /\ up \in SUBSET Worker
    /\ resets \in 0 .. MaxResets

-----------------------------------------------------------------------------
(* recompute_progress: the job's counters and status, counted from tk, the *)
(* ticket rows as the transaction leaves them.                             *)

TicketsOf(j) == {t \in Ticket : JobOf[t] = j}

Present(j, tk) == {tk[t].status : t \in TicketsOf(j)}

Tally(j, tk) ==
    [s \in Terminal |-> Cardinality({t \in TicketsOf(j) : tk[t].status = s})]

Recomputed(row, j, tk) ==
    [row EXCEPT !.status = ProgressStatus(row.cancel, Present(j, tk)),
                !.count = Tally(j, tk)]

(* Faulty: counts the rows before the transaction's own update. *)
RecomputeJobsTooEarly(J, tk) ==
    [j \in Job |-> IF j \in J THEN Recomputed(job[j], j, ticket) ELSE job[j]]

RecomputeJobs(J, tk) ==
    [j \in Job |-> IF j \in J THEN Recomputed(job[j], j, tk) ELSE job[j]]

-----------------------------------------------------------------------------
(* claim_tickets: one transaction takes a batch of pending tickets of open *)
(* jobs.  Rows locked by others are skipped and the batch is limited, so   *)
(* any set of claimable tickets may be the one taken.                      *)

(* Faulty: forgets the tickets that wait for a retry. *)
ClaimableFirstTime ==
    {t \in Ticket : /\ ticket[t].status = "READY"
                    /\ ~job[JobOf[t]].cancel
                    /\ job[JobOf[t]].status \in OpenJobStatus}

Claimable ==
    {t \in Ticket : /\ ticket[t].status \in Pending
                    /\ ~job[JobOf[t]].cancel
                    /\ job[JobOf[t]].status \in OpenJobStatus}

(* Faulty: takes a thread that handles a failure for a free one. *)
InFlightEvaluating(w) ==
    {c \in Ticket \X Claim : /\ exec[c[1]][c[2]].worker = w
                             /\ exec[c[1]][c[2]].pc \in {"claimed", "evaluating"}}

InFlight(w) == {c \in Ticket \X Claim : exec[c[1]][c[2]].worker = w}

ClaimedRow(row, w) ==
    [row EXCEPT !.status = "RUNNING", !.worker = w, !.lease = "live",
                !.attempt = @ + 1]

(* mark_running_if_pending skips a job row another transaction holds. *)
MarkRunning(J) ==
    [j \in Job |-> IF j \in J /\ job[j].status \in {"CREATED", "READY"}
                     THEN [job[j] EXCEPT !.status = "RUNNING"] ELSE job[j]]

(* The CHECK on attempt_count aborts a batch that would exceed it.  When   *)
(* the answer to the commit is lost no thread works on the tickets.        *)
ClaimTickets(w, S) ==
    /\ w \in up
    /\ S # {}
    /\ S \subseteq Claimable
    /\ Cardinality(S) <= ClaimBatch
    /\ Cardinality(S) + Cardinality(InFlight(w)) <= Capacity
    /\ \A t \in S : ticket[t].attempt <= MaxAttempts[t]
    /\ \A t \in S : claims[t] < MaxClaims
    /\ ticket' = [t \in Ticket |-> IF t \in S THEN ClaimedRow(ticket[t], w)
                                              ELSE ticket[t]]
    /\ \E J \in SUBSET {JobOf[t] : t \in S} : job' = MarkRunning(J)
    /\ claims' = [t \in Ticket |-> IF t \in S THEN claims[t] + 1 ELSE claims[t]]
    /\ \/ exec' = [t \in Ticket |->
                     IF t \in S
                       THEN [exec[t] EXCEPT ![claims[t] + 1] =
                               [pc |-> "claimed", worker |-> w,
                                attempt |-> ticket[t].attempt + 1]]
                       ELSE exec[t]]
       \/ UNCHANGED exec
    /\ UNCHANGED <<result, up, resets>>

-----------------------------------------------------------------------------
(* settle_ticket and TicketRepository.transition.                          *)

(* Faulty: a settled row still belongs to the worker named on it. *)
OwnsByWorker(t, w) == ticket[t].worker = w

(* Faulty: whoever settles a RUNNING row owns it. *)
OwnsByStatus(t, w) == ticket[t].status = "RUNNING"

Owns(t, w) == ticket[t].status = "RUNNING" /\ ticket[t].worker = w

(* The check of a row that is not owned: a row without owner, or with this *)
(* worker's id, is an illegal transition unless the table allows it; every *)
(* other mismatch is a stale worker.                                       *)
Illegal(t, w, target) ==
    /\ ~Owns(t, w)
    /\ ticket[t].worker \in {w, NoWorker}
    /\ target \notin AllowedTicketTransitions[ticket[t].status]

Stale(t, w, target) == ~Owns(t, w) /\ ~Illegal(t, w, target)

(* Faulty: a row that waits for a retry keeps its worker. *)
SettledRowKeepingWorker(row, target) ==
    [row EXCEPT !.status = target, !.lease = "none",
                !.linked = IF target \in Verdict THEN TRUE ELSE @]

(* RETRY gives the row up; the other targets keep worker_id on it. *)
SettledRow(row, target) ==
    [row EXCEPT !.status = target, !.lease = "none",
                !.worker = IF target = "RETRY" THEN NoWorker ELSE @,
                !.linked = IF target \in Verdict THEN TRUE ELSE @]

(* The thread goes on to another state. *)
Goto(t, n, pc) == [exec EXCEPT ![t][n].pc = pc]

(* The thread ends; its heartbeat and its slot in the pool end with it. *)
Ended(t, n) == [exec EXCEPT ![t][n] = NoExec]

(* An exception inside execute_ticket's try goes to _handle_failure, which *)
(* takes an unknown error for a retryable one; one raised by a handler     *)
(* escapes to the runner, which only logs it.                              *)
AfterError(t, n) ==
    IF exec[t][n].pc \in {"claimed", "evaluating"}
      THEN Goto(t, n, "failing")
      ELSE Ended(t, n)

(* One settlement transaction of the thread of claim n of ticket t: it     *)
(* commits, answered or not; it is refused as stale; it is refused as      *)
(* illegal.  A verdict upserts the ticket's result row first.              *)
Settle(t, n, target) ==
    LET w == exec[t][n].worker IN
    /\ \/ /\ Owns(t, w)
          /\ ticket' = [ticket EXCEPT ![t] = SettledRow(@, target)]
          /\ job' = RecomputeJobs({JobOf[t]}, ticket')
          /\ result' = IF target \in Verdict
                         THEN [result EXCEPT ![t] = [claim |-> n, verdict |-> target]]
                         ELSE result
          /\ exec' \in {Ended(t, n), AfterError(t, n)}
       \/ /\ Stale(t, w, target)
          /\ exec' = Ended(t, n)
          /\ UNCHANGED <<job, ticket, result>>
       \/ /\ Illegal(t, w, target)
          /\ exec' = AfterError(t, n)
          /\ UNCHANGED <<job, ticket, result>>
    /\ UNCHANGED <<claims, up, resets>>

(* Faulty: persists what the evaluation asked for without looking at the job. *)
PersistTargetBlindly(t, target) == target

(* _persist_once reads the cancellation request under the job lock. *)
PersistTarget(t, target) ==
    IF job[JobOf[t]].cancel THEN "CANCELLED" ELSE target

Persist(t, n, target) == Settle(t, n, PersistTarget(t, target))

-----------------------------------------------------------------------------
(* execute_ticket, transaction by transaction.                             *)

(* The first transaction reads the job; the evaluation runs after it. *)
Load(t, n) ==
    /\ exec[t][n].pc = "claimed"
    /\ exec' = IF job[JobOf[t]].cancel \/ job[JobOf[t]].status = "CANCELLED"
                 THEN Goto(t, n, "cancelling") ELSE Goto(t, n, "evaluating")
    /\ UNCHANGED <<job, ticket, result, claims, up, resets>>

SettleCancelled(t, n) ==
    /\ exec[t][n].pc = "cancelling"
    /\ Settle(t, n, "CANCELLED")

(* Faulty: the result status ERROR is used as a ticket status. *)
RetryOrError(t, n) ==
    IF exec[t][n].attempt < MaxAttempts[t] THEN "RETRY" ELSE "ERROR"

(* What an evaluator's ERROR output, and a retryable exception, ask for: it *)
(* is the attempt number of the claim that decides, not the row's.          *)
RetryOrFail(t, n) ==
    IF exec[t][n].attempt < MaxAttempts[t] THEN "RETRY" ELSE "FAILED"

(* The evaluation answered: a verdict, not applicable, or ERROR. *)
PersistOutput(t, n) ==
    /\ exec[t][n].pc = "evaluating"
    /\ \E target \in {"DONE", "NOT_APPLICABLE", RetryOrFail(t, n)} :
          Persist(t, n, target)

(* The evaluation raised, retryably or not. *)
EvaluationRaises(t, n) ==
    /\ exec[t][n].pc = "evaluating"
    /\ exec' \in {Goto(t, n, "failing"), Goto(t, n, "giving_up")}
    /\ UNCHANGED <<job, ticket, result, claims, up, resets>>

(* _handle_failure: a retry is settled directly, a failure is persisted. *)
HandleTransient(t, n) ==
    /\ exec[t][n].pc = "failing"
    /\ IF RetryOrFail(t, n) = "RETRY" THEN Settle(t, n, "RETRY")
                                      ELSE Persist(t, n, "FAILED")

GiveUp(t, n) ==
    /\ exec[t][n].pc = "giving_up"
    /\ Persist(t, n, "FAILED")

(* A transaction of the thread is rolled back: the database is unreachable, *)
(* or the deadlock retries of _persist are used up.                         *)
TransactionFails(t, n) ==
    /\ exec[t][n].pc # "none"
    /\ exec' = AfterError(t, n)
    /\ UNCHANGED <<job, ticket, result, claims, up, resets>>

ThreadStep(t, n) ==
    \/ Load(t, n)
    \/ SettleCancelled(t, n)
    \/ PersistOutput(t, n)
    \/ EvaluationRaises(t, n)
    \/ HandleTransient(t, n)
    \/ GiveUp(t, n)

-----------------------------------------------------------------------------
(* Leases.                                                                 *)

LeaseExpires(t) ==
    /\ ticket[t].lease = "live"
    /\ ticket' = [ticket EXCEPT ![t].lease = "expired"]
    /\ UNCHANGED <<job, result, exec, claims, up, resets>>

(* The heartbeat of a thread names its worker, not its claim. *)
Heartbeat(t, n) ==
    /\ exec[t][n].pc # "none"
    /\ Owns(t, exec[t][n].worker)
    /\ ticket[t].lease = "expired"
    /\ ticket' = [ticket EXCEPT ![t].lease = "live"]
    /\ UNCHANGED <<job, result, exec, claims, up, resets>>

(* Faulty: the sweep overlooks the tickets of cancelled jobs. *)
ExpiredOfLiveJobs ==
    {t \in Ticket : /\ ticket[t].status = "RUNNING" /\ ticket[t].lease = "expired"
                    /\ ~job[JobOf[t]].cancel}

Expired == {t \in Ticket : ticket[t].status = "RUNNING" /\ ticket[t].lease = "expired"}

(* Faulty: one attempt too many is granted. *)
RecoveredRowGenerous(row, cancel, max) ==
    [row EXCEPT !.status = IF cancel THEN "CANCELLED"
                           ELSE IF row.attempt > max THEN "FAILED" ELSE "RETRY",
                !.worker = NoWorker, !.lease = "none"]

RecoveredRow(row, cancel, max) ==
    [row EXCEPT !.status = IF cancel THEN "CANCELLED"
                           ELSE IF row.attempt >= max THEN "FAILED" ELSE "RETRY",
                !.worker = NoWorker, !.lease = "none"]

SweptRow(row) == [row EXCEPT !.status = "CANCELLED", !.lease = "none"]

(* recover_abandoned_tickets: S is the batch recover_expired_leases locks; *)
(* C is the batch of cancel_running_for_cancelled_jobs after it; then the  *)
(* affected jobs are recomputed.                                           *)
Recover(S, C) ==
    /\ S \cup C # {}
    /\ S \subseteq Expired
    /\ Cardinality(S) <= RecoveryLimit
    /\ C \subseteq {t \in Expired \ S : job[JobOf[t]].cancel}
    /\ Cardinality(C) <= RecoveryLimit
    /\ ticket' = [t \in Ticket |->
                    IF t \in S THEN RecoveredRow(ticket[t], job[JobOf[t]].cancel,
                                                 MaxAttempts[t])
                    ELSE IF t \in C THEN SweptRow(ticket[t]) ELSE ticket[t]]
    /\ job' = RecomputeJobs({JobOf[t] : t \in S \cup C}, ticket')
    /\ UNCHANGED <<result, exec, claims, up, resets>>

(* reconcile_active_jobs, at the start of a runner. *)
Reconcile ==
    /\ job' = RecomputeJobs({JobOf[t] : t \in {u \in Ticket : ticket[u].status \notin Terminal}},
                            ticket)
    /\ UNCHANGED <<ticket, result, exec, claims, up, resets>>

(* A runner process is killed: its threads and heartbeats are gone. *)
Crash(w) ==
    /\ w \in up \cap Mortal
    /\ up' = up \ {w}
    /\ exec' = [t \in Ticket |-> [n \in Claim |->
                  IF exec[t][n].worker = w THEN NoExec ELSE exec[t][n]]]
    /\ UNCHANGED <<job, ticket, result, claims, resets>>

-----------------------------------------------------------------------------
(* Operators, through the API.                                             *)

CancelJob(j) ==
    /\ job[j].status \notin {"COMPLETED", "FAILED", "PARTIAL_FAILED"}
    /\ ticket' = [t \in Ticket |->
                    IF JobOf[t] = j /\ ticket[t].status \in Pending
                      THEN SweptRow(ticket[t]) ELSE ticket[t]]
    /\ job' = [job EXCEPT ![j] = Recomputed([@ EXCEPT !.cancel = TRUE], j, ticket')]
    /\ UNCHANGED <<result, exec, claims, up, resets>>

(* Faulty: a reset ticket keeps showing its old result. *)
ResetRowKeepingResult(row) ==
    [row EXCEPT !.status = "READY", !.attempt = 0, !.worker = NoWorker,
                !.lease = "none"]

ResetRow(row) ==
    [row EXCEPT !.status = "READY", !.attempt = 0, !.worker = NoWorker,
                !.lease = "none", !.linked = FALSE]

RetryFailedTickets(j) ==
    /\ resets < MaxResets
    /\ ~job[j].cancel
    /\ \E t \in TicketsOf(j) : ticket[t].status = "FAILED"
    /\ ticket' = [t \in Ticket |->
                    IF JobOf[t] = j /\ ticket[t].status = "FAILED"
                      THEN ResetRow(ticket[t]) ELSE ticket[t]]
    /\ job' = RecomputeJobs({j}, ticket')
    /\ resets' = resets + 1
    /\ UNCHANGED <<result, exec, claims, up>>

-----------------------------------------------------------------------------
(* create_job commits a READY job with all its tickets READY. *)
Init ==
    /\ job = [j \in Job |-> [status |-> "READY", cancel |-> FALSE,
                             count |-> [s \in Terminal |-> 0]]]
    /\ ticket = [t \in Ticket |-> [status |-> "READY", worker |-> NoWorker,
                                   lease |-> "none", attempt |-> 0, linked |-> FALSE]]
    /\ result = [t \in Ticket |-> NoResult]
    /\ exec = [t \in Ticket |-> [n \in Claim |-> NoExec]]
    /\ claims = [t \in Ticket |-> 0]
    /\ up = Worker
    /\ resets = 0

(* Everything but the passing of a lease. *)
Operation ==
    \/ \E w \in Worker, S \in SUBSET Ticket : ClaimTickets(w, S)
    \/ \E t \in Ticket, n \in Claim : ThreadStep(t, n)
    \/ \E t \in Ticket, n \in Claim : TransactionFails(t, n)
    \/ \E t \in Ticket, n \in Claim : Heartbeat(t, n)
    \/ \E S \in SUBSET Ticket, C \in SUBSET Ticket : Recover(S, C)
    \/ Reconcile
    \/ \E w \in Worker : Crash(w)
    \/ \E j \in Job : CancelJob(j)
    \/ \E j \in Job : RetryFailedTickets(j)

Next == Operation \/ \E t \in Ticket : LeaseExpires(t)

Spec == Init /\ [][Next]_vars

(* A thread extends the lease of t. *)
Attended(t) == \E n \in Claim : exec[t][n].pc # "none" /\ Owns(t, exec[t][n].worker)

(* Threads run to their end; a lease nobody extends expires; a runner that *)
(* cannot be killed keeps polling, and its recovery sweep reaches every    *)
(* expired lease.                                                          *)
Fairness ==
    /\ \A t \in Ticket, n \in Claim : WF_vars(ThreadStep(t, n))
    /\ \A t \in Ticket :
          /\ WF_vars(~Attended(t) /\ LeaseExpires(t))
          /\ WF_vars(\E S \in SUBSET Ticket : t \in S /\ Recover(S, {}))
          /\ WF_vars(\E w \in Worker \ Mortal, S \in SUBSET Ticket :
                       t \in S /\ ClaimTickets(w, S))

FairSpec == Spec /\ Fairness

-----------------------------------------------------------------------------
(* Safety.                                                                 *)

(* A ticket row is owned and leased exactly while it is RUNNING: a pending *)
(* row has neither worker nor lease, a settled one no lease.  Claim, the   *)
(* lease sweep and the ownership check all rely on it.                     *)
RowShape ==
    \A t \in Ticket :
        /\ ticket[t].lease # "none" <=> ticket[t].status = "RUNNING"
        /\ ticket[t].status = "RUNNING" => ticket[t].worker # NoWorker /\ ticket[t].attempt > 0
        /\ ticket[t].status \in Pending => ticket[t].worker = NoWorker

(* The counters of a job are those of its ticket rows after every          *)
(* transaction, and the job is in a terminal status exactly when all its   *)
(* tickets are, in the status their mix calls for: COMPLETED never hides a *)
(* failed ticket, and a failed job never is without one.                   *)
ProgressExact ==
    \A j \in Job :
        /\ \A s \in Terminal :
              job[j].count[s] = Cardinality({t \in TicketsOf(j) : ticket[t].status = s})
        /\ job[j].status \in OpenJobStatus
              <=> \E t \in TicketsOf(j) : ticket[t].status \notin Terminal
        /\ job[j].status = "CANCELLED" => job[j].count["CANCELLED"] > 0
        /\ job[j].status = "COMPLETED" => job[j].count["FAILED"] = 0
        /\ job[j].status \in {"FAILED", "PARTIAL_FAILED"} => job[j].count["FAILED"] > 0
        /\ job[j].status = "FAILED" => job[j].count["DONE"] = 0

(* A ticket points to a result row only while it is settled with the       *)
(* verdict that row records, and a DONE or NOT_APPLICABLE ticket always    *)
(* does: retry-failed, recovery and re-settlement never leave a pending,   *)
(* running or cancelled ticket showing an old verdict.                     *)
ResultMatchesTicket ==
    \A t \in Ticket :
        /\ ticket[t].linked => /\ ticket[t].status \in Verdict
                               /\ result[t].verdict = ticket[t].status
        /\ ticket[t].status \in {"DONE", "NOT_APPLICABLE"} => ticket[t].linked

(* A verdict is final: late threads, recovery sweeps and cancellation      *)
(* leave a DONE, NOT_APPLICABLE or CANCELLED ticket and its result as they *)
(* are, and a FAILED ticket only an operator resets, on a live job.        *)
VerdictsAreFinal ==
    [][\A t \in Ticket :
         ticket[t].status \in Terminal =>
           /\ result'[t] = result[t]
           /\ \/ ticket'[t] = ticket[t]
              \/ /\ ticket[t].status = "FAILED"
                 /\ ticket'[t].status = "READY"
                 /\ ~job[JobOf[t]].cancel]_vars

(* Once a job's cancellation is committed no verdict is recorded for its   *)
(* tickets any more: whatever was being evaluated, no result row changes   *)
(* and no RUNNING ticket becomes DONE, FAILED or NOT_APPLICABLE.           *)
NoVerdictAfterCancel ==
    [][\A t \in Ticket :
         job[JobOf[t]].cancel =>
           /\ result'[t] = result[t]
           /\ ticket'[t].status \in Verdict => ticket[t].status = ticket'[t].status]_vars

(* A result row is written only for a RUNNING ticket and only by a thread  *)
(* of the runner that owns the ticket at that moment: a runner whose lease *)
(* was taken over by another never replaces the other's result.            *)
OnlyOwnerRecords ==
    [][\A t \in Ticket :
         result'[t] # result[t] =>
           /\ ticket[t].status = "RUNNING"
           /\ exec[t][result'[t].claim].worker = ticket[t].worker]_vars

(* max_attempts bounds how often a ticket is evaluated before an operator  *)
(* resets it, whatever leases are lost.  It needs runners of one thread:   *)
(* ownership is by runner, so a thread that lost its lease settles the     *)
(* ticket its own runner claimed again.                                    *)
AttemptsBounded ==
    \A t \in Ticket : ticket[t].attempt <= MaxAttempts[t]

(* With runners of one thread, the result row always is that of the        *)
(* evaluation the latest claim started, never of a superseded one.         *)
LatestClaimRecords ==
    [][\A t \in Ticket :
         result'[t] # result[t] => result'[t].claim = claims[t]]_vars

(* What job_service.cancel_job says of a RUNNING ticket of a cancelled     *)
(* job: when it is settled it is settled as CANCELLED.                     *)
RunningSettlesAsCancelled ==
    [][\A t \in Ticket :
         job[JobOf[t]].cancel /\ ticket[t].status = "RUNNING" =>
           ticket'[t].status \in {"RUNNING", "CANCELLED"}]_vars

-----------------------------------------------------------------------------
(* Liveness, under FairSpec.                                               *)

(* Every ticket is settled in the end, over crashes, lost leases, lost     *)
(* commits and transient failures, unless its job is cancelled.            *)
TicketsEnd ==
    \A t \in Ticket :
        ticket[t].status \notin Terminal
            ~> ticket[t].status \in Terminal \/ job[JobOf[t]].cancel

(* After a cancellation, the tickets of the job stop running for good. *)
CancelStopsWork ==
    \A t \in Ticket :
        job[JobOf[t]].cancel ~> [](ticket[t].status # "RUNNING")

-----------------------------------------------------------------------------
(* What an observer of the queue sees, and the promise made to him.        *)

VerdictSeen == [t \in Ticket |-> IF ticket[t].status \in Terminal THEN ticket[t].status ELSE "open"]

ResultSeen == [t \in Ticket |-> IF ticket[t].linked THEN result[t].verdict ELSE "none"]

CancelSeen == [j \in Job |-> job[j].cancel]

ReportSeen == [j \in Job |-> IF job[j].status \in OpenJobStatus THEN "open" ELSE job[j].status]

Promise == INSTANCE TicketVerdicts WITH
    verdict <- VerdictSeen, shown <- ResultSeen, cancelled <- CancelSeen, report <- ReportSeen

(* Whatever runners, threads, sweeps and operators do at the same time, it *)
(* adds up to tickets that are settled once, by the rules of the abstract  *)
(* queue, and to jobs listed under what their tickets came to.             *)
PromiseKept == Promise!Spec
=============================================================================
