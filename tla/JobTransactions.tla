--------------------------- MODULE JobTransactions ---------------------------
(***************************************************************************)
(* The transactions of the ticket queue, statement by statement, as they   *)
(* run concurrently in PostgreSQL at READ COMMITTED: row locks are held to *)
(* the end of the transaction, every statement reads the rows committed    *)
(* when it starts and the transaction's own changes, and a statement that  *)
(* waited for a row lock re-checks its condition on the newest row.        *)
(*                                                                         *)
(* TicketLifecycle takes each transaction for one atomic step.  This       *)
(* module is where the locks that are to make that true are looked at.     *)
(* Attempt numbers and results are left out.  Definitions commented        *)
(* "Faulty" serve as in TicketLifecycle.                                   *)
(***************************************************************************)
EXTENDS QueueStatuses, Naturals, FiniteSets

CONSTANTS
    Job, Ticket,
    Layouts,      \* the ways tickets belong to jobs that are looked at
    Worker, NoWorker,
    Session,      \* database sessions, each in at most one transaction
    NoSession,    \* the row is not locked
    Kinds,        \* the transactions that sessions may begin
    MaxBegun      \* bound: how many transactions are begun

ASSUME TransactionsAssumption ==
    /\ IsFiniteSet(Ticket)
    /\ Layouts \subseteq [Ticket -> Job]
    /\ NoWorker \notin Worker
    /\ NoSession \notin Session
    /\ Kinds \subseteq {"persist", "settle", "claim", "heartbeat", "cancel",
                        "reset", "sweep", "reconcile"}
    /\ MaxBegun \in Nat

VARIABLES
    jobOf,                  \* evaluation_tickets.job_id, never updated
    job, ticket,            \* the committed rows
    newJob, newTicket,      \* the rows as the holder of their lock left them
    jobLock, ticketLock,    \* the session that holds the row lock
    tx,                     \* the transaction of each session
    begun                   \* how many were begun

vars == <<jobOf, job, ticket, newJob, newTicket, jobLock, ticketLock, tx, begun>>
locks == <<newJob, newTicket, jobLock, ticketLock>>
committed == <<job, ticket>>

-----------------------------------------------------------------------------
JobRow == [status : JobStatus, cancel : BOOLEAN, count : [Terminal -> Nat]]
TicketRow == [status : TicketStatus, worker : Worker \cup {NoWorker},
              lease : {"none", "live", "expired"}]

(* What a transaction is about to do: wait for the job row, read the rows  *)
(* its next statement is about, lock them, see to the rows or jobs that    *)
(* come after them, count the tickets of the jobs, write the jobs, commit. *)
Step == {"job", "scan", "rows", "after", "count", "write", "commit"}

(* worker and target of a settlement; the tickets its statement selected;  *)
(* the jobs to recompute; the jobs its statement sees cancelled; the       *)
(* progress it counted.                                                    *)
Progress == [status : JobStatus, count : [Terminal -> Nat]]
NoProgress == [status |-> "CREATED", count |-> [x \in Terminal |-> 0]]

Transaction == [kind : Kinds \cup {"none"}, step : Step, worker : Worker \cup {NoWorker},
                target : TicketStatus, rows : SUBSET Ticket, jobs : SUBSET Job,
                seen : SUBSET Job, progress : Progress]

NoTransaction == [kind |-> "none", step |-> "commit", worker |-> NoWorker,
                  target |-> "READY", rows |-> {}, jobs |-> {}, seen |-> {},
                  progress |-> NoProgress]

(* Every variable holds values of its type. *)
TypeOK ==
    /\ jobOf \in Layouts
    /\ job \in [Job -> JobRow] /\ newJob \in [Job -> JobRow]
    /\ ticket \in [Ticket -> TicketRow] /\ newTicket \in [Ticket -> TicketRow]
    /\ jobLock \in [Job -> Session \cup {NoSession}]
    /\ ticketLock \in [Ticket -> Session \cup {NoSession}]
    /\ tx \in [Session -> Transaction]
    /\ begun \in 0 .. MaxBegun

TicketsOf(j) == {t \in Ticket : jobOf[t] = j}

-----------------------------------------------------------------------------
(* What session s reads: its own changes over the committed rows. *)
JobSeen(s, j) == IF jobLock[j] = s THEN newJob[j] ELSE job[j]

TicketSeen(s, t) == IF ticketLock[t] = s THEN newTicket[t] ELSE ticket[t]

JobFree(s, j) == jobLock[j] \in {s, NoSession}
TicketFree(s, t) == ticketLock[t] \in {s, NoSession}

(* Rows that nobody else holds are locked and given their new values. *)
LockJobs(s, rows) ==
    /\ jobLock' = [j \in Job |-> IF j \in DOMAIN rows THEN s ELSE jobLock[j]]
    /\ newJob' = [j \in Job |-> IF j \in DOMAIN rows THEN rows[j] ELSE newJob[j]]

LockTickets(s, rows) ==
    /\ ticketLock' = [t \in Ticket |-> IF t \in DOMAIN rows THEN s ELSE ticketLock[t]]
    /\ newTicket' = [t \in Ticket |-> IF t \in DOMAIN rows THEN rows[t] ELSE newTicket[t]]

NoJobLocked == UNCHANGED <<jobLock, newJob>>
NoTicketLocked == UNCHANGED <<ticketLock, newTicket>>

Continue(s, next) == tx' = [tx EXCEPT ![s] = next] /\ UNCHANGED <<committed, begun>>

Unlock(s) ==
    /\ jobLock' = [j \in Job |-> IF jobLock[j] = s THEN NoSession ELSE jobLock[j]]
    /\ ticketLock' = [t \in Ticket |-> IF ticketLock[t] = s THEN NoSession ELSE ticketLock[t]]
    /\ tx' = [tx EXCEPT ![s] = NoTransaction]
    /\ UNCHANGED begun

(* The transaction raises, or its connection is lost. *)
Rollback(s) ==
    /\ Unlock(s)
    /\ newJob' = [j \in Job |-> IF jobLock[j] = s THEN job[j] ELSE newJob[j]]
    /\ newTicket' = [t \in Ticket |-> IF ticketLock[t] = s THEN ticket[t] ELSE newTicket[t]]
    /\ UNCHANGED committed

-----------------------------------------------------------------------------
(* The beginning of a transaction. *)

Begin(s, kind, step, worker, target, rows, jobs) ==
    /\ tx[s] = NoTransaction
    /\ kind \in Kinds
    /\ begun < MaxBegun
    /\ begun' = begun + 1
    /\ tx' = [tx EXCEPT ![s] = [@ EXCEPT !.kind = kind, !.step = step, !.worker = worker,
                                        !.target = target, !.rows = rows, !.jobs = jobs]]
    /\ UNCHANGED <<committed, locks>>

(* Faulty: locks the ticket without the job. *)
BeginSettlementUnlocked(s, t, w, target) ==
    Begin(s, "settle", "rows", w, target, {t}, {jobOf[t]})

(* _persist and settle_ticket, by the thread of a worker that holds the    *)
(* ticket now or held it before.                                           *)
BeginSettlement(s, t, w, target) ==
    \/ /\ target # "CANCELLED"
       /\ Begin(s, "persist", "job", w, target, {t}, {jobOf[t]})
    \/ /\ target \in {"RETRY", "CANCELLED"}
       /\ target = "CANCELLED" => job[jobOf[t]].cancel
       /\ Begin(s, "settle", "job", w, target, {t}, {jobOf[t]})

BeginOther(s) ==
    \/ \E w \in Worker : Begin(s, "claim", "scan", w, "RUNNING", {}, {})
    \/ \E t \in Ticket, w \in Worker : Begin(s, "heartbeat", "rows", w, "RUNNING", {t}, {})
    \/ \E t \in Ticket : Begin(s, "cancel", "job", NoWorker, "CANCELLED", {}, {jobOf[t]})
    \/ \E t \in Ticket : Begin(s, "reset", "job", NoWorker, "READY", {}, {jobOf[t]})
    \/ Begin(s, "sweep", "scan", NoWorker, "CANCELLED", {}, {})
    \/ Begin(s, "reconcile", "scan", NoWorker, "READY", {}, {})

-----------------------------------------------------------------------------
(* Transactions that first wait for their job: get_for_update, and what is *)
(* read and checked under that lock.                                       *)

LockJob(s) ==
    /\ tx[s].step = "job"
    /\ \E j \in tx[s].jobs :
         /\ JobFree(s, j)
         /\ \/ /\ tx[s].kind = "settle"
               /\ LockJobs(s, [i \in {j} |-> job[i]])
               /\ Continue(s, [tx[s] EXCEPT !.step = "rows"])
               /\ NoTicketLocked
            \/ /\ tx[s].kind = "persist"
               /\ LockJobs(s, [i \in {j} |-> job[i]])
               /\ Continue(s, [tx[s] EXCEPT !.step = "rows",
                                            !.target = IF job[j].cancel THEN "CANCELLED" ELSE @])
               /\ NoTicketLocked
            \/ /\ tx[s].kind = "cancel"
               /\ IF job[j].status \in {"COMPLETED", "FAILED", "PARTIAL_FAILED"}
                    THEN Rollback(s)
                    ELSE /\ LockJobs(s, [i \in {j} |-> [job[i] EXCEPT !.cancel = TRUE]])
                         /\ Continue(s, [tx[s] EXCEPT !.step = "scan"])
                         /\ NoTicketLocked
            \/ /\ tx[s].kind = "reset"
               /\ IF job[j].cancel
                    THEN Rollback(s)
                    ELSE /\ LockJobs(s, [i \in {j} |-> job[i]])
                         /\ Continue(s, [tx[s] EXCEPT !.step = "scan"])
                         /\ NoTicketLocked

-----------------------------------------------------------------------------
(* Settlement and heartbeat of one ticket. *)

Owns(row, w) == row.status = "RUNNING" /\ row.worker = w

SettledRow(row, target) ==
    [row EXCEPT !.status = target, !.lease = "none",
                !.worker = IF target = "RETRY" THEN NoWorker ELSE @]

SettleRow(s) ==
    /\ tx[s].kind \in {"persist", "settle"} /\ tx[s].step = "rows"
    /\ \E t \in tx[s].rows :
         /\ TicketFree(s, t)
         /\ IF Owns(ticket[t], tx[s].worker)
              THEN /\ LockTickets(s, [u \in {t} |-> SettledRow(ticket[u], tx[s].target)])
                   /\ Continue(s, [tx[s] EXCEPT !.step = "count"])
                   /\ NoJobLocked
              ELSE Rollback(s)

(* Faulty: extends the lease of a row that was RUNNING when it was read. *)
HeartbeatRowBlindly(s) ==
    /\ tx[s].kind = "heartbeat" /\ tx[s].step = "rows"
    /\ \E t \in tx[s].rows :
         /\ TicketFree(s, t)
         /\ LockTickets(s, [u \in {t} |-> [ticket[u] EXCEPT !.lease = "live"]])
         /\ Continue(s, [tx[s] EXCEPT !.step = "commit"])
         /\ NoJobLocked

HeartbeatRow(s) ==
    /\ tx[s].kind = "heartbeat" /\ tx[s].step = "rows"
    /\ \E t \in tx[s].rows :
         /\ TicketFree(s, t)
         /\ IF Owns(ticket[t], tx[s].worker)
              THEN /\ LockTickets(s, [u \in {t} |-> [ticket[u] EXCEPT !.lease = "live"]])
                   /\ Continue(s, [tx[s] EXCEPT !.step = "commit"])
                   /\ NoJobLocked
              ELSE Rollback(s)

-----------------------------------------------------------------------------
(* cancel_unclaimed and reset_failed: one UPDATE that finds its rows in    *)
(* the committed state and then locks and re-checks them one by one.       *)

Matches(kind, row) ==
    CASE kind = "cancel" -> row.status \in Pending
      [] kind = "reset"  -> row.status = "FAILED"
      [] OTHER           -> FALSE

BulkUpdated(kind, row) ==
    IF kind = "cancel" THEN [row EXCEPT !.status = "CANCELLED", !.lease = "none"]
                       ELSE [row EXCEPT !.status = "READY", !.worker = NoWorker,
                                        !.lease = "none"]

ScanJobRows(s) ==
    /\ tx[s].kind \in {"cancel", "reset"} /\ tx[s].step = "scan"
    /\ \E j \in tx[s].jobs :
         LET found == {t \in TicketsOf(j) : Matches(tx[s].kind, ticket[t])} IN
         IF found = {} /\ tx[s].kind = "reset"
           THEN Rollback(s)
           ELSE /\ Continue(s, [tx[s] EXCEPT !.step = IF found = {} THEN "count" ELSE "rows",
                                             !.rows = found])
                /\ UNCHANGED locks

(* Faulty: skips the rows another session holds. *)
UpdateJobRowSkipping(s) ==
    /\ tx[s].kind \in {"cancel", "reset"} /\ tx[s].step = "rows"
    /\ LET S == {t \in tx[s].rows : TicketFree(s, t) /\ Matches(tx[s].kind, ticket[t])} IN
       LockTickets(s, [t \in S |-> BulkUpdated(tx[s].kind, ticket[t])])
    /\ Continue(s, [tx[s] EXCEPT !.rows = {}, !.step = "count"])
    /\ NoJobLocked

UpdateJobRow(s) ==
    /\ tx[s].kind \in {"cancel", "reset"} /\ tx[s].step = "rows"
    /\ \E t \in tx[s].rows :
         /\ TicketFree(s, t)
         /\ IF Matches(tx[s].kind, ticket[t])
              THEN LockTickets(s, [u \in {t} |-> BulkUpdated(tx[s].kind, ticket[u])])
              ELSE NoTicketLocked
         /\ Continue(s, [tx[s] EXCEPT !.rows = @ \ {t},
                                      !.step = IF tx[s].rows = {t} THEN "count" ELSE @])
    /\ NoJobLocked

-----------------------------------------------------------------------------
(* claim_tickets: the rows are found in the committed state, then those    *)
(* that nobody holds are locked and re-checked; only the ticket's part of  *)
(* the condition is, for the job is not locked.  LIMIT may leave some out. *)

ClaimScan(s) ==
    /\ tx[s].kind = "claim" /\ tx[s].step = "scan"
    /\ LET found == {t \in Ticket : /\ ticket[t].status \in Pending
                                    /\ ~job[jobOf[t]].cancel
                                    /\ job[jobOf[t]].status \in OpenJobStatus} IN
       IF found = {} THEN Rollback(s)
                     ELSE /\ Continue(s, [tx[s] EXCEPT !.step = "rows", !.rows = found])
                          /\ UNCHANGED locks

(* Faulty: takes locked and changed rows as well. *)
ClaimedRowsUnchecked(s) == tx[s].rows

ClaimedRows(s) ==
    {t \in tx[s].rows : TicketFree(s, t) /\ ticket[t].status \in Pending}

ClaimRows(s) ==
    /\ tx[s].kind = "claim" /\ tx[s].step = "rows"
    /\ \/ ClaimedRows(s) = {} /\ Rollback(s)
       \/ \E S \in (SUBSET ClaimedRows(s)) \ {{}} :
            /\ LockTickets(s, [t \in S |-> [status |-> "RUNNING", worker |-> tx[s].worker,
                                             lease |-> "live"]])
            /\ Continue(s, [tx[s] EXCEPT !.step = "after", !.rows = {},
                                         !.jobs = {jobOf[t] : t \in S}])
            /\ NoJobLocked

(* mark_running_if_pending *)
MarkRunning(s) ==
    /\ tx[s].kind = "claim" /\ tx[s].step = "after"
    /\ LET J == {j \in tx[s].jobs : JobFree(s, j) /\ job[j].status \in {"CREATED", "READY"}} IN
       LockJobs(s, [j \in J |-> [job[j] EXCEPT !.status = "RUNNING"]])
    /\ Continue(s, [tx[s] EXCEPT !.step = "commit", !.jobs = {}])
    /\ NoTicketLocked

-----------------------------------------------------------------------------
(* recover_abandoned_tickets.  The first statement locks job and ticket of *)
(* each expired row, or skips it; T is how far it gets before its LIMIT.   *)
(* The new status is decided by the jobs as its snapshot shows them, which *)
(* is older than the locks; whether the attempts are used up is left open. *)

Swept(t) == ticket[t].status = "RUNNING" /\ ticket[t].lease = "expired"

SweepScan(s) ==
    /\ tx[s].kind = "sweep" /\ tx[s].step = "scan"
    /\ Continue(s, [tx[s] EXCEPT !.step = "rows",
                                 !.rows = {t \in Ticket : Swept(t)},
                                 !.seen = {j \in Job : job[j].cancel}])
    /\ UNCHANGED locks

SweptRow(row, target) == [status |-> target, worker |-> NoWorker, lease |-> "none"]

(* Faulty: takes the ticket without its job. *)
SweepRowsUnlocked(s) ==
    /\ tx[s].kind = "sweep" /\ tx[s].step = "rows"
    /\ \E target \in [Ticket -> {"RETRY", "FAILED"}] :
         LET S == {t \in tx[s].rows : TicketFree(s, t) /\ Swept(t)} IN
         /\ LockTickets(s, [t \in S |->
              SweptRow(ticket[t], IF jobOf[t] \in tx[s].seen THEN "CANCELLED" ELSE target[t])])
         /\ Continue(s, [tx[s] EXCEPT !.step = "after", !.rows = {},
                                      !.jobs = {jobOf[t] : t \in S}])
    /\ NoJobLocked

SweepRows(s) ==
    /\ tx[s].kind = "sweep" /\ tx[s].step = "rows"
    /\ \E T \in SUBSET tx[s].rows, target \in [Ticket -> {"RETRY", "FAILED"}] :
         LET J == {j \in {jobOf[t] : t \in T} : JobFree(s, j)}
             S == {t \in T : jobOf[t] \in J /\ TicketFree(s, t) /\ Swept(t)} IN
         /\ T = {} => tx[s].rows = {}
         /\ LockJobs(s, [j \in J |-> job[j]])
         /\ LockTickets(s, [t \in S |->
              SweptRow(ticket[t], IF jobOf[t] \in tx[s].seen THEN "CANCELLED" ELSE target[t])])
         /\ Continue(s, [tx[s] EXCEPT !.step = "after", !.rows = {},
                                      !.jobs = {jobOf[t] : t \in S}])

(* cancel_running_for_cancelled_jobs, a statement of its own. *)
SweepCancelled(s) ==
    /\ tx[s].kind = "sweep" /\ tx[s].step = "after"
    /\ LET J == {j \in Job : /\ job[j].cancel /\ JobFree(s, j)
                             /\ \E t \in TicketsOf(j) : Swept(t)}
           S == {t \in Ticket : jobOf[t] \in J /\ ticketLock[t] = NoSession /\ Swept(t)} IN
       /\ LockJobs(s, [j \in J |-> JobSeen(s, j)])
       /\ LockTickets(s, [t \in S |-> [ticket[t] EXCEPT !.status = "CANCELLED", !.lease = "none"]])
       /\ Continue(s, [tx[s] EXCEPT !.step = "count", !.jobs = @ \cup {jobOf[t] : t \in S}])

-----------------------------------------------------------------------------
(* reconcile_active_jobs finds its jobs and recomputes one after another. *)
ReconcileScan(s) ==
    /\ tx[s].kind = "reconcile" /\ tx[s].step = "scan"
    /\ Continue(s, [tx[s] EXCEPT !.step = "count",
                                 !.jobs = {jobOf[t] : t \in {u \in Ticket :
                                              ticket[u].status \notin Terminal}}])
    /\ UNCHANGED locks

(* recompute_progress: what it counts, in the rows as the session sees them. *)
Counted(s, j) ==
    [status |-> ProgressStatus(JobSeen(s, j).cancel,
                               {TicketSeen(s, t).status : t \in TicketsOf(j)}),
     count |-> [x \in Terminal |->
                  Cardinality({t \in TicketsOf(j) : TicketSeen(s, t).status = x})]]

WithProgress(row, progress) ==
    [row EXCEPT !.status = progress.status, !.count = progress.count]

(* A settlement counts without asking for the job row, which it holds.     *)
CountProgress(s) ==
    /\ tx[s].kind \in {"persist", "settle"} /\ tx[s].step = "count"
    /\ \E j \in tx[s].jobs :
         Continue(s, [tx[s] EXCEPT !.step = "write", !.progress = Counted(s, j)])
    /\ UNCHANGED locks

WriteProgress(s) ==
    /\ tx[s].step = "write"
    /\ \E j \in tx[s].jobs :
         /\ JobFree(s, j)
         /\ LockJobs(s, [i \in {j} |-> WithProgress(JobSeen(s, i), tx[s].progress)])
    /\ Continue(s, [tx[s] EXCEPT !.step = "commit"])
    /\ NoTicketLocked

(* The others lock the job, count and write, job by job. *)
RecomputeProgress(s) ==
    /\ tx[s].kind \notin {"persist", "settle"} /\ tx[s].step = "count"
    /\ \/ /\ tx[s].jobs = {}
          /\ Continue(s, [tx[s] EXCEPT !.step = "commit"])
          /\ NoJobLocked
       \/ \E j \in tx[s].jobs :
            /\ JobFree(s, j)
            /\ LockJobs(s, [i \in {j} |-> WithProgress(JobSeen(s, i), Counted(s, i))])
            /\ Continue(s, [tx[s] EXCEPT !.jobs = @ \ {j}])
    /\ NoTicketLocked

-----------------------------------------------------------------------------
Commit(s) ==
    /\ tx[s].kind # "none" /\ tx[s].step = "commit"
    /\ job' = [j \in Job |-> IF jobLock[j] = s THEN newJob[j] ELSE job[j]]
    /\ ticket' = [t \in Ticket |-> IF ticketLock[t] = s THEN newTicket[t] ELSE ticket[t]]
    /\ Unlock(s)
    /\ UNCHANGED <<newJob, newTicket>>

Abort(s) == tx[s].kind # "none" /\ Rollback(s)

LeaseExpires(t) ==
    /\ ticket[t].lease = "live"
    /\ ticket' = [ticket EXCEPT ![t].lease = "expired"]
    /\ newTicket' = IF ticketLock[t] = NoSession
                      THEN [newTicket EXCEPT ![t].lease = "expired"] ELSE newTicket
    /\ UNCHANGED <<job, newJob, jobLock, ticketLock, tx, begun>>

(* The queue at rest: any mix of tickets, and jobs that agree with them. *)
RestingRow ==
    [status : {"READY", "RETRY"}, worker : {NoWorker}, lease : {"none"}]
      \cup [status : {"RUNNING"}, worker : Worker, lease : {"live", "expired"}]
      \cup [status : {"FAILED", "DONE"}, worker : Worker, lease : {"none"}]

Init ==
    /\ jobOf \in Layouts
    /\ ticket \in [Ticket -> RestingRow]
    /\ job = [j \in Job |->
                [status |-> ProgressStatus(FALSE, {ticket[t].status : t \in TicketsOf(j)}),
                 cancel |-> FALSE,
                 count |-> [x \in Terminal |->
                              Cardinality({t \in TicketsOf(j) : ticket[t].status = x})]]]
    /\ newJob = job /\ newTicket = ticket
    /\ jobLock = [j \in Job |-> NoSession] /\ ticketLock = [t \in Ticket |-> NoSession]
    /\ tx = [s \in Session |-> NoTransaction]
    /\ begun = 0

Statement(s) ==
    \/ LockJob(s) \/ SettleRow(s) \/ HeartbeatRow(s) \/ ScanJobRows(s) \/ UpdateJobRow(s)
    \/ ClaimScan(s) \/ ClaimRows(s) \/ MarkRunning(s)
    \/ SweepScan(s) \/ SweepRows(s) \/ SweepCancelled(s) \/ ReconcileScan(s)
    \/ CountProgress(s) \/ WriteProgress(s) \/ RecomputeProgress(s) \/ Commit(s)

Next ==
    /\ \/ \E s \in Session :
            \/ \E t \in Ticket, w \in Worker, target \in {"RETRY"} \cup Terminal :
                 BeginSettlement(s, t, w, target)
            \/ BeginOther(s)
            \/ Statement(s)
            \/ Abort(s)
       \/ \E t \in Ticket : LeaseExpires(t)
    /\ UNCHANGED jobOf

Spec == Init /\ [][Next]_vars

-----------------------------------------------------------------------------
(* After every commit the counters of each job are those of its committed  *)
(* tickets, and it is open exactly while one of them is not settled, for   *)
(* all that the counting transaction could not see of the others: this is  *)
(* what the job lock, taken before the count, is for.                      *)
CommittedProgressExact ==
    \A j \in Job :
        /\ \A x \in Terminal :
              job[j].count[x] = Cardinality({t \in TicketsOf(j) : ticket[t].status = x})
        /\ job[j].status \in OpenJobStatus
              <=> \E t \in TicketsOf(j) : ticket[t].status \notin Terminal

(* No transaction waits for itself through others, so the database never   *)
(* has to abort one: lock order job then ticket, and SKIP LOCKED where the *)
(* claim and the sweep go against it.  One reconciliation at a time: it    *)
(* holds several jobs, in any order.                                       *)
WaitsFor(s) ==
    CASE tx[s].step \in {"job", "write"} -> {jobLock[j] : j \in tx[s].jobs} \ {s, NoSession}
      [] tx[s].step = "count" /\ tx[s].kind \notin {"persist", "settle"} ->
            {jobLock[j] : j \in tx[s].jobs} \ {s, NoSession}
      [] tx[s].step = "rows" /\ tx[s].kind \notin {"claim", "sweep"} ->
            {ticketLock[t] : t \in tx[s].rows} \ {s, NoSession}
      [] OTHER -> {}

NoWaitCycle ==
    (\A r, s \in Session : tx[r].kind = "reconcile" /\ tx[s].kind = "reconcile" => r = s) =>
        \A S \in (SUBSET Session) \ {{}} : \E s \in S : WaitsFor(s) \cap S = {}

(* Whatever was read before it was locked, the committed status of a       *)
(* ticket changes only as the transition table allows: no transaction      *)
(* overwrites what another committed since it looked.                      *)
CommittedTransitionsLegal ==
    [][\A t \in Ticket :
         ticket'[t].status # ticket[t].status =>
           ticket'[t].status \in AllowedTicketTransitions[ticket[t].status]]_vars

(* A lease is given only to a RUNNING row, and running work is taken over  *)
(* only when the lease had expired: a heartbeat that waited for the row    *)
(* of a settlement or sweep does not revive it.                            *)
LeasesFollowRows ==
    \A t \in Ticket : ticket[t].lease # "none" <=> ticket[t].status = "RUNNING"

(* When a cancellation commits, no ticket of the job is left pending: the  *)
(* claims, sweeps and retries it raced with are all seen by its update or  *)
(* come after it.                                                          *)
CancelLeavesNonePending ==
    [][\A j \in Job :
         ~job[j].cancel /\ job'[j].cancel =>
           \A t \in TicketsOf(j) : ticket'[t].status \notin Pending]_vars

(* What recover_expired_leases says: an expired ticket of a cancelled job  *)
(* becomes CANCELLED.                                                      *)
SweepCancelsCancelled ==
    [][\A s \in Session :
         tx[s].kind = "sweep" /\ tx[s].step = "commit" /\ tx'[s].kind = "none" =>
           \A t \in Ticket :
              job[jobOf[t]].cancel /\ ticket'[t] # ticket[t] =>
                ticket'[t].status = "CANCELLED"]_vars
=============================================================================
