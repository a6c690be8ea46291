------------------------------ MODULE RunnerLoop ------------------------------
(***************************************************************************)
(* One runner process from the inside: the polling loop of its main        *)
(* thread, the pool of evaluation threads with the futures that tie the    *)
(* two together, heartbeats, drain mode and shutdown.                      *)
(*                                                                         *)
(* What the transactions do to the rows is TicketLifecycle's subject; here *)
(* a ticket is runnable, claimed by this runner, or gone.  Definitions     *)
(* commented "Faulty" serve as in TicketLifecycle.                         *)
(***************************************************************************)
EXTENDS Naturals, FiniteSets

CONSTANTS
    Ticket,          \* claims that this runner may get, each of them once
    Later,           \* the tickets that become runnable in the course of time
    MaxConcurrency,  \* runner_max_concurrency
    ClaimBatch,      \* runner_claim_batch_size
    Modes,           \* whether the runner is started in drain mode
    MaxFailures,     \* bound: how many claim transactions fail
    NoTicket

ASSUME RunnerAssumption ==
    /\ IsFiniteSet(Ticket) /\ Later \subseteq Ticket /\ NoTicket \notin Ticket
    /\ MaxConcurrency \in Nat \ {0} /\ ClaimBatch \in Nat \ {0}
    /\ Modes \subseteq BOOLEAN
    /\ MaxFailures \in Nat

VARIABLES
    drain,             \* self.drain
    coming, runnable,  \* the tickets not yet due, and those a claim can take
    pc,                \* where the main thread is
    limit,             \* how many tickets it is going to claim
    claimed,           \* what run_once returned: "busy" is -1, "none" is 0
    batch, current,    \* the tickets it has yet to submit, and the one it is submitting
    thread,            \* the run of each claimed ticket in the pool
    inflight,          \* _inflight
    watched,           \* the futures whose done callback is registered
    processed,
    lease,             \* of the claimed tickets
    failures, stop, graceOver

vars == <<drain, coming, runnable, pc, limit, claimed, batch, current, thread, inflight,
          watched, processed, lease, failures, stop, graceOver>>
queue == <<drain, coming, runnable>>
main == <<pc, limit, claimed, batch, current, failures, stop, graceOver>>
pool == <<thread, inflight, watched, processed, lease>>

(* "resolved": the future has its result, its callbacks have not run yet. *)
ThreadState == {"none", "queued", "running", "resolved", "done"}
MainState == {"head", "capacity", "claim", "submit", "register", "callback",
              "check", "wait", "await", "join", "stopped"}

(* Every variable holds values of its type. *)
TypeOK ==
    /\ drain \in Modes
    /\ coming \subseteq Later /\ runnable \subseteq Ticket
    /\ pc \in MainState
    /\ limit \in 0 .. MaxConcurrency
    /\ claimed \in {"busy", "none", "some"}
    /\ batch \subseteq Ticket /\ current \in Ticket \cup {NoTicket}
    /\ thread \in [Ticket -> ThreadState]
    /\ inflight \subseteq Ticket /\ watched \subseteq Ticket
    /\ processed \in 0 .. Cardinality(Ticket)
    /\ lease \in [Ticket -> {"none", "live", "expired"}]
    /\ failures \in 0 .. MaxFailures
    /\ stop \in BOOLEAN /\ graceOver \in BOOLEAN

-----------------------------------------------------------------------------
(* The main thread: run_forever and run_once. *)

Smaller(a, b) == IF a <= b THEN a ELSE b

Go(to) == pc' = to

(* Faulty: does not look for the signal. *)
HeadWithoutStop ==
    /\ pc = "head"
    /\ Go("capacity")
    /\ UNCHANGED <<queue, pool, limit, claimed, batch, current, failures, stop, graceOver>>

(* while not self._stop.is_set(), and the sweep, which only makes tickets due. *)
Head ==
    /\ pc = "head"
    /\ Go(IF stop THEN "await" ELSE "capacity")
    /\ UNCHANGED <<queue, pool, limit, claimed, batch, current, failures, stop, graceOver>>

(* Faulty: asks for a whole batch when one slot is free. *)
WholeBatch(free) == IF free > 0 THEN ClaimBatch ELSE 0

ClaimLimit(free) == Smaller(free, ClaimBatch)

(* _capacity, read under the lock but used after it. *)
Capacity ==
    /\ pc = "capacity"
    /\ LET free == MaxConcurrency - Cardinality(inflight) IN
       IF free <= 0
         THEN Go("check") /\ claimed' = "busy" /\ UNCHANGED limit
         ELSE Go("claim") /\ limit' = ClaimLimit(free) /\ UNCHANGED claimed
    /\ UNCHANGED <<queue, pool, batch, current, failures, stop, graceOver>>

(* The batches a claim may take: as many tickets as there are, to the limit. *)
Batches == {S \in SUBSET runnable :
              Cardinality(S) = Smaller(limit, Cardinality(runnable))}

ClaimOnce ==
    /\ pc = "claim"
    /\ \E S \in Batches :
         /\ runnable' = runnable \ S
         /\ batch' = S
         /\ lease' = [t \in Ticket |-> IF t \in S THEN "live" ELSE lease[t]]
         /\ claimed' = IF S = {} THEN "none" ELSE "some"
         /\ Go(IF S = {} THEN "check" ELSE "submit")
    /\ UNCHANGED <<drain, coming, limit, current, failures, stop, graceOver,
                   thread, inflight, watched, processed>>

(* The claim raises, before it was committed or after. *)
ClaimFails ==
    /\ pc = "claim"
    /\ failures < MaxFailures
    /\ failures' = failures + 1
    /\ \E S \in Batches \cup {{}} : runnable' = runnable \ S
    /\ claimed' = "none"
    /\ Go("check")
    /\ UNCHANGED <<drain, coming, pool, limit, batch, current, stop, graceOver>>

(* _submit: the pool may run the ticket to its end before the next step. *)
Submit ==
    /\ pc = "submit"
    /\ \E t \in batch :
         /\ batch' = batch \ {t}
         /\ current' = t
         /\ thread' = [thread EXCEPT ![t] = "queued"]
    /\ Go("register")
    /\ UNCHANGED <<queue, limit, claimed, failures, stop, graceOver,
                   inflight, watched, processed, lease>>

Resolved(t) == thread[t] \in {"resolved", "done"}

Submitted ==
    /\ current' = NoTicket
    /\ Go(IF batch = {} THEN "check" ELSE "submit")

(* Faulty: registers the callback before the future is in flight. *)
TrackFutureLate ==
    /\ \/ /\ pc = "register"
          /\ Go("callback")
          /\ IF Resolved(current)
               THEN inflight' = inflight \ {current} /\ UNCHANGED watched
               ELSE watched' = watched \cup {current} /\ UNCHANGED inflight
          /\ UNCHANGED current
       \/ /\ pc = "callback"
          /\ inflight' = inflight \cup {current}
          /\ UNCHANGED watched
          /\ Submitted
    /\ UNCHANGED <<queue, limit, claimed, batch, failures, stop, graceOver,
                   thread, processed, lease>>

(* The future is put in flight; then its callback is registered, which     *)
(* runs at once when the future already has its result.                    *)
TrackFuture ==
    /\ \/ /\ pc = "register"
          /\ Go("callback")
          /\ inflight' = inflight \cup {current}
          /\ UNCHANGED <<watched, current>>
       \/ /\ pc = "callback"
          /\ IF Resolved(current)
               THEN inflight' = inflight \ {current} /\ UNCHANGED watched
               ELSE watched' = watched \cup {current} /\ UNCHANGED inflight
          /\ Submitted
    /\ UNCHANGED <<queue, limit, claimed, batch, failures, stop, graceOver,
                   thread, processed, lease>>

(* Faulty: takes a busy pool for an empty queue. *)
DrainedOrBusy == drain /\ claimed \in {"none", "busy"} /\ inflight = {}

Drained == drain /\ claimed = "none" /\ inflight = {}

(* After run_once: leave the loop, poll again, or wait before that. *)
Check ==
    /\ pc = "check"
    /\ Go(IF Drained THEN "await" ELSE IF claimed = "some" THEN "head" ELSE "wait")
    /\ UNCHANGED <<queue, pool, limit, claimed, batch, current, failures, stop, graceOver>>

(* self._stop.wait(poll_interval) *)
Wait ==
    /\ pc = "wait"
    /\ Go("head")
    /\ UNCHANGED <<queue, pool, limit, claimed, batch, current, failures, stop, graceOver>>

(* _await_inflight: until nothing is in flight, or the grace is over. *)
AwaitInflight ==
    /\ pc = "await"
    /\ graceOver' \in {inflight # {}, FALSE}
    /\ inflight = {} \/ graceOver'
    /\ Go("join")
    /\ UNCHANGED <<queue, pool, limit, claimed, batch, current, failures, stop>>

(* The end of the with block joins the threads of the pool. *)
JoinPool ==
    /\ pc = "join"
    /\ \A t \in Ticket : thread[t] \in {"none", "done"}
    /\ Go("stopped")
    /\ UNCHANGED <<queue, pool, limit, claimed, batch, current, failures, stop, graceOver>>

Main == \/ Head \/ Capacity \/ ClaimOnce \/ Submit \/ TrackFuture
        \/ Check \/ Wait \/ AwaitInflight \/ JoinPool

-----------------------------------------------------------------------------
(* The pool: _run_ticket, and what the executor does around it. *)

Busy == {t \in Ticket : thread[t] \in {"running", "resolved"}}

Start(t) ==
    /\ thread[t] = "queued"
    /\ Cardinality(Busy) < MaxConcurrency
    /\ thread' = [thread EXCEPT ![t] = "running"]
    /\ UNCHANGED <<queue, main, inflight, watched, processed, lease>>

(* execute_ticket returned or raised; its heartbeat is stopped. *)
Finish(t) ==
    /\ thread[t] = "running"
    /\ thread' = [thread EXCEPT ![t] = "resolved"]
    /\ processed' = processed + 1
    /\ lease' = [lease EXCEPT ![t] = "none"]
    /\ UNCHANGED <<queue, main, inflight, watched>>

(* Faulty: counts the ticket a second time. *)
DoneCallbackCounting(t) ==
    /\ thread[t] = "resolved"
    /\ thread' = [thread EXCEPT ![t] = "done"]
    /\ inflight' = IF t \in watched THEN inflight \ {t} ELSE inflight
    /\ processed' = processed + 1
    /\ UNCHANGED <<queue, main, watched, lease>>

(* Callbacks registered before the result was set run in the pool's thread. *)
DoneCallback(t) ==
    /\ thread[t] = "resolved"
    /\ thread' = [thread EXCEPT ![t] = "done"]
    /\ inflight' = IF t \in watched THEN inflight \ {t} ELSE inflight
    /\ UNCHANGED <<queue, main, watched, processed, lease>>

Thread(t) == Start(t) \/ Finish(t) \/ DoneCallback(t)

(* _heartbeat, for as long as the ticket runs. *)
Heartbeat(t) ==
    /\ thread[t] = "running" /\ lease[t] = "expired"
    /\ lease' = [lease EXCEPT ![t] = "live"]
    /\ UNCHANGED <<queue, main, thread, inflight, watched, processed>>

-----------------------------------------------------------------------------
(* What happens around the runner. *)

LeaseExpires(t) ==
    /\ lease[t] = "live"
    /\ lease' = [lease EXCEPT ![t] = "expired"]
    /\ UNCHANGED <<queue, main, thread, inflight, watched, processed>>

(* A job is created, a backoff is over, a sweep returns a ticket. *)
BecomesRunnable(t) ==
    /\ t \in coming
    /\ coming' = coming \ {t}
    /\ runnable' = runnable \cup {t}
    /\ UNCHANGED <<drain, main, pool>>

(* Another runner claims it, or its job is cancelled. *)
TakenByOther(t) ==
    /\ t \in runnable
    /\ runnable' = runnable \ {t}
    /\ UNCHANGED <<drain, coming, main, pool>>

(* SIGINT, SIGTERM or request_stop. *)
Stop ==
    /\ ~stop
    /\ stop' = TRUE
    /\ UNCHANGED <<queue, pool, pc, limit, claimed, batch, current, failures, graceOver>>

Init ==
    /\ drain \in Modes
    /\ coming = Later /\ runnable = Ticket \ Later
    /\ pc = "head" /\ limit = 0 /\ claimed = "none"
    /\ batch = {} /\ current = NoTicket
    /\ thread = [t \in Ticket |-> "none"]
    /\ inflight = {} /\ watched = {} /\ processed = 0
    /\ lease = [t \in Ticket |-> "none"]
    /\ failures = 0 /\ stop = FALSE /\ graceOver = FALSE

Next ==
    \/ Main \/ ClaimFails \/ Stop
    \/ \E t \in Ticket : \/ Thread(t) \/ Heartbeat(t) \/ LeaseExpires(t)
                         \/ BecomesRunnable(t) \/ TakenByOther(t)

(* The main thread and the pool's threads are scheduled; an evaluation     *)
(* ends, for the evaluators compute and the judge's requests time out.     *)
Fairness == WF_vars(Main) /\ \A t \in Ticket : WF_vars(Thread(t))

Spec == Init /\ [][Next]_vars /\ Fairness

-----------------------------------------------------------------------------
(* A claimed ticket has a thread of the pool to itself as soon as it is    *)
(* submitted: none waits in the executor's queue, where no heartbeat would *)
(* keep its lease, whatever finishes between the capacity check, the claim *)
(* and the submission.                                                     *)
EveryClaimHasAThread ==
    Cardinality(batch) + Cardinality({t \in Ticket : thread[t] \in {"queued", "running"}})
        <= MaxConcurrency

(* Drain mode ends by itself only when nothing runnable is left, although  *)
(* threads finish at any moment between the claim and the check: an        *)
(* iteration that found the pool busy is not taken for an empty queue.     *)
DrainProcessesAll ==
    drain /\ pc = "stopped" /\ ~stop /\ failures = 0 => runnable \subseteq Later

(* What main says of --drain: "process everything currently runnable, then *)
(* exit".                                                                  *)
DrainLeavesNothing ==
    drain /\ pc = "stopped" /\ ~stop => runnable \subseteq Later

(* What the warning at the end of the grace says: anything still running   *)
(* loses its lease.                                                        *)
AbandonedLosesLease ==
    [][graceOver => \A t \in Ticket : lease[t] = "expired" => lease'[t] # "live"]_vars

(* The runner takes what is runnable as long as it is not stopped: no slot *)
(* of the pool is lost to a ticket that finished too early.                *)
WorkIsTaken ==
    \A t \in Ticket : t \in runnable ~> t \notin runnable \/ stop \/ drain

(* A signal stops the process, wherever the loop is. *)
StopIsHeeded == stop ~> pc = "stopped"

(* Drain mode comes to its end. *)
DrainEnds == drain => <>(pc = "stopped")
=============================================================================
