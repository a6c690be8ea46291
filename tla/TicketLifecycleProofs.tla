------------------------ MODULE TicketLifecycleProofs ------------------------
(* What TicketLifecycle promises for any number of jobs, tickets, runners,  *)
(* threads and attempts, what more it promises when every runner has one    *)
(* thread (runner_max_concurrency = 1): attempts are bounded by             *)
(* max_attempts, and no superseded evaluation records a result; and that it *)
(* implements TicketVerdicts.                                               *)
EXTENDS TicketLifecycle, FiniteSetTheorems, TLAPS

-----------------------------------------------------------------------------
(* Lemmas about recompute_progress and about the operators on rows.        *)

(* Counting the tickets of a job by terminal status gives counters. *)
LEMMA TallyType ==
    ASSUME NEW j, NEW tk
    PROVE  Tally(j, tk) \in [Terminal -> Nat]
<1> SUFFICES ASSUME NEW s \in Terminal
             PROVE  Cardinality({t \in TicketsOf(j) : tk[t].status = s}) \in Nat
  BY DEF Tally
<1>1. {t \in TicketsOf(j) : tk[t].status = s} \subseteq Ticket
  BY DEF TicketsOf
<1>2. IsFiniteSet({t \in TicketsOf(j) : tk[t].status = s})
  BY <1>1, LifecycleAssumption, FS_Subset
<1> QED
  BY <1>2, FS_CardinalityType

(* Recomputing a job row gives a job row. *)
LEMMA RecomputedType ==
    ASSUME NEW row \in JobRow, NEW j, NEW tk
    PROVE  Recomputed(row, j, tk) \in JobRow
<1>1. ProgressStatus(row.cancel, Present(j, tk)) \in JobStatus
  BY DEF ProgressStatus, JobStatus, OpenJobStatus
<1>2. Tally(j, tk) \in [Terminal -> Nat]
  BY TallyType
<1> QED
  BY <1>1, <1>2 DEF Recomputed, JobRow

LEMMA RecomputeJobsType ==
    ASSUME job \in [Job -> JobRow], NEW J, NEW tk
    PROVE  RecomputeJobs(J, tk) \in [Job -> JobRow]
BY RecomputedType DEF RecomputeJobs

(* The rows that settling, recovering, cancelling and resetting leave. *)
LEMMA RowTypes ==
    ASSUME NEW row \in TicketRow
    PROVE  /\ \A target \in TicketStatus : SettledRow(row, target) \in TicketRow
           /\ \A cancel, max : RecoveredRow(row, cancel, max) \in TicketRow
           /\ SweptRow(row) \in TicketRow
           /\ ResetRow(row) \in TicketRow
           /\ \A w \in Worker : ClaimedRow(row, w) \in TicketRow
<1> USE DEF TicketRow, TicketStatus, Pending, Terminal
<1>1. ASSUME NEW target \in TicketStatus
      PROVE  SettledRow(row, target) \in TicketRow
  BY <1>1 DEF SettledRow
<1>2. ASSUME NEW cancel, NEW max
      PROVE  RecoveredRow(row, cancel, max) \in TicketRow
  BY DEF RecoveredRow
<1>3. SweptRow(row) \in TicketRow
  BY DEF SweptRow
<1>4. ResetRow(row) \in TicketRow
  BY DEF ResetRow
<1>5. ASSUME NEW w \in Worker
      PROVE  ClaimedRow(row, w) \in TicketRow
  <2>1. row.attempt + 1 \in Nat
    OBVIOUS
  <2> QED
    BY <2>1 DEF ClaimedRow
<1> HIDE DEF TicketRow, TicketStatus, Pending, Terminal
<1> QED
  BY <1>1, <1>2, <1>3, <1>4, <1>5

(* A thread that goes on, ends or meets an error is left in a proper state. *)
LEMMA ThreadTypes ==
    ASSUME exec \in [Ticket -> [Claim -> Exec]], NEW t \in Ticket, NEW n \in Claim
    PROVE  /\ \A pc \in ThreadState : Goto(t, n, pc) \in [Ticket -> [Claim -> Exec]]
           /\ Ended(t, n) \in [Ticket -> [Claim -> Exec]]
           /\ AfterError(t, n) \in [Ticket -> [Claim -> Exec]]
<1>1. ASSUME NEW e \in Exec
      PROVE  [exec EXCEPT ![t][n] = e] \in [Ticket -> [Claim -> Exec]]
  <2>1. [exec[t] EXCEPT ![n] = e] \in [Claim -> Exec]
    OBVIOUS
  <2> QED
    BY <2>1
<1>2. ASSUME NEW pc \in ThreadState
      PROVE  Goto(t, n, pc) \in [Ticket -> [Claim -> Exec]]
  <2>1. \A e \in Exec : [e EXCEPT !.pc = pc] \in Exec
    BY DEF Exec
  <2>2. [exec[t][n] EXCEPT !.pc = pc] \in Exec
    BY <2>1
  <2> QED
    BY <2>2, <1>1 DEF Goto
<1>3. Ended(t, n) \in [Ticket -> [Claim -> Exec]]
  <2>1. NoExec \in Exec
    BY DEF NoExec, Exec, ThreadState
  <2> QED
    BY <2>1, <1>1 DEF Ended
<1> QED
  BY <1>2, <1>3 DEF AfterError, ThreadState

(* What a thread may settle a ticket to. *)
SettleTarget == {"DONE", "NOT_APPLICABLE", "RETRY", "FAILED", "CANCELLED"}

(* A thread either settles its ticket, on a cancelled job only as CANCELLED *)
(* or RETRY, and as CANCELLED only if the job is cancelled or was when it   *)
(* was loaded, or goes on without touching a row.                           *)
LEMMA ThreadStepCases ==
    ASSUME TypeOK, NEW t \in Ticket, NEW n \in Claim, ThreadStep(t, n)
    PROVE  \/ \E target \in SettleTarget :
                 /\ Settle(t, n, target)
                 /\ job[JobOf[t]].cancel => target \in {"CANCELLED", "RETRY"}
                 /\ \/ target # "CANCELLED"
                    \/ job[JobOf[t]].cancel \/ exec[t][n].pc = "cancelling"
           \/ /\ exec' \in [Ticket -> [Claim -> Exec]]
              /\ UNCHANGED <<job, ticket, result, claims, up, resets>>
<1> DEFINE Settles == \E target \in SettleTarget :
                        /\ Settle(t, n, target)
                        /\ job[JobOf[t]].cancel => target \in {"CANCELLED", "RETRY"}
                        /\ \/ target # "CANCELLED"
                           \/ job[JobOf[t]].cancel \/ exec[t][n].pc = "cancelling"
<1>1. \A pc \in ThreadState : Goto(t, n, pc) \in [Ticket -> [Claim -> Exec]]
  BY ThreadTypes DEF TypeOK
<1>2. ASSUME NEW target \in SettleTarget \ {"CANCELLED"}, Persist(t, n, target)
      PROVE  Settles
  BY <1>2 DEF Persist, PersistTarget, SettleTarget
<1>3. RetryOrFail(t, n) \in SettleTarget \ {"CANCELLED"}
  BY DEF RetryOrFail, SettleTarget
<1>4. CASE Load(t, n)
  BY <1>1, <1>4 DEF Load, ThreadState
<1>5. CASE SettleCancelled(t, n)
  BY <1>5 DEF SettleCancelled, SettleTarget
<1>6. CASE PersistOutput(t, n)
  <2>1. PICK target \in {"DONE", "NOT_APPLICABLE", RetryOrFail(t, n)} : Persist(t, n, target)
    BY <1>6 DEF PersistOutput
  <2> QED
    BY <2>1, <1>2, <1>3 DEF SettleTarget
<1>7. CASE EvaluationRaises(t, n)
  BY <1>1, <1>7 DEF EvaluationRaises, ThreadState
<1>8. CASE HandleTransient(t, n)
  <2>1. CASE Settle(t, n, "RETRY")
    BY <2>1 DEF SettleTarget
  <2>2. CASE Persist(t, n, "FAILED")
    BY <2>2, <1>2 DEF SettleTarget
  <2> QED
    BY <1>8, <2>1, <2>2 DEF HandleTransient
<1>9. CASE GiveUp(t, n)
  BY <1>9, <1>2 DEF GiveUp, SettleTarget
<1> QED
  BY <1>4, <1>5, <1>6, <1>7, <1>8, <1>9 DEF ThreadStep

(* A settlement keeps every variable in its type. *)
LEMMA SettleType ==
    ASSUME TypeOK, NEW t \in Ticket, NEW n \in Claim,
           NEW target \in SettleTarget, Settle(t, n, target)
    PROVE  TypeOK'
<1>1. exec' \in [Ticket -> [Claim -> Exec]]
  BY ThreadTypes DEF Settle, TypeOK
<1>2. CASE UNCHANGED <<job, ticket, result>>
  BY <1>1, <1>2 DEF Settle, TypeOK
<1>3. CASE /\ ticket' = [ticket EXCEPT ![t] = SettledRow(@, target)]
           /\ job' = RecomputeJobs({JobOf[t]}, ticket')
           /\ result' = IF target \in Verdict
                          THEN [result EXCEPT ![t] = [claim |-> n, verdict |-> target]]
                          ELSE result
  <2>1. SettledRow(ticket[t], target) \in TicketRow
    BY RowTypes DEF SettleTarget, TicketStatus, Pending, Terminal, TypeOK
  <2>2. ticket' \in [Ticket -> TicketRow]
    BY <1>3, <2>1 DEF TypeOK
  <2>3. job' \in [Job -> JobRow]
    BY <1>3, RecomputeJobsType DEF TypeOK
  <2>4. target \in Verdict => [claim |-> n, verdict |-> target] \in ResultRow
    BY LifecycleAssumption DEF ResultRow, Claim
  <2>5. result' \in [Ticket -> ResultRow]
    BY <1>3, <2>4 DEF TypeOK
  <2> QED
    BY <1>1, <2>2, <2>3, <2>5 DEF Settle, TypeOK
<1> QED
  BY <1>2, <1>3 DEF Settle

-----------------------------------------------------------------------------
(* Type correctness.                                                       *)

LEMMA InitType == Init => TypeOK
<1> SUFFICES ASSUME Init PROVE TypeOK
  OBVIOUS
<1> USE LifecycleAssumption
<1>1. job \in [Job -> JobRow]
  BY DEF Init, JobRow, JobStatus, OpenJobStatus
<1>2. ticket \in [Ticket -> TicketRow]
  BY DEF Init, TicketRow, TicketStatus, Pending
<1>3. result \in [Ticket -> ResultRow]
  BY DEF Init, NoResult, ResultRow
<1>4. exec \in [Ticket -> [Claim -> Exec]]
  BY DEF Init, NoExec, Exec, ThreadState
<1>5. claims \in [Ticket -> 0 .. MaxClaims] /\ up \in SUBSET Worker /\ resets \in 0 .. MaxResets
  BY DEF Init
<1> QED
  BY <1>1, <1>2, <1>3, <1>4, <1>5 DEF TypeOK

LEMMA ClaimType ==
    ASSUME TypeOK, NEW w \in Worker, NEW S \in SUBSET Ticket, ClaimTickets(w, S)
    PROVE  TypeOK'
<1>1. ticket' \in [Ticket -> TicketRow]
  BY RowTypes DEF ClaimTickets, TypeOK
<1>2. job' \in [Job -> JobRow]
  <2>1. PICK J \in SUBSET {JobOf[t] : t \in S} : job' = MarkRunning(J)
    BY DEF ClaimTickets
  <2>2. \A row \in JobRow : [row EXCEPT !.status = "RUNNING"] \in JobRow
    BY DEF JobRow, JobStatus, OpenJobStatus
  <2> QED
    BY <2>1, <2>2 DEF MarkRunning, TypeOK
<1>3. claims' \in [Ticket -> 0 .. MaxClaims]
  <2>1. \A t \in S : claims[t] + 1 \in 0 .. MaxClaims
    BY LifecycleAssumption DEF ClaimTickets, TypeOK
  <2> QED
    BY <2>1 DEF ClaimTickets, TypeOK
<1>4. exec' \in [Ticket -> [Claim -> Exec]]
  <2> DEFINE Taken(t) == [exec[t] EXCEPT ![claims[t] + 1] =
                           [pc |-> "claimed", worker |-> w,
                            attempt |-> ticket[t].attempt + 1]]
  <2>1. ASSUME NEW t \in S
        PROVE  Taken(t) \in [Claim -> Exec]
    <3>1. ticket[t].attempt + 1 \in Nat
      BY DEF TypeOK, TicketRow
    <3>2. [pc |-> "claimed", worker |-> w, attempt |-> ticket[t].attempt + 1] \in Exec
      BY <3>1 DEF Exec, ThreadState
    <3> QED
      BY <3>2 DEF TypeOK
  <2>2. \/ exec' = [t \in Ticket |-> IF t \in S THEN Taken(t) ELSE exec[t]]
        \/ exec' = exec
    BY DEF ClaimTickets
  <2> HIDE DEF Taken
  <2> QED
    BY <2>1, <2>2 DEF TypeOK
<1> QED
  BY <1>1, <1>2, <1>3, <1>4 DEF ClaimTickets, TypeOK

LEMMA RecoverType ==
    ASSUME TypeOK, NEW S \in SUBSET Ticket, NEW C \in SUBSET Ticket, Recover(S, C)
    PROVE  TypeOK'
<1>1. ticket' \in [Ticket -> TicketRow]
  BY RowTypes DEF Recover, TypeOK
<1>2. job' \in [Job -> JobRow]
  BY RecomputeJobsType DEF Recover, TypeOK
<1> QED
  BY <1>1, <1>2 DEF Recover, TypeOK

LEMMA CancelType ==
    ASSUME TypeOK, NEW j \in Job, CancelJob(j)
    PROVE  TypeOK'
<1>1. ticket' \in [Ticket -> TicketRow]
  BY RowTypes DEF CancelJob, TypeOK
<1>2. job' \in [Job -> JobRow]
  <2>1. \A row \in JobRow : [row EXCEPT !.cancel = TRUE] \in JobRow
    BY DEF JobRow
  <2>2. Recomputed([job[j] EXCEPT !.cancel = TRUE], j, ticket') \in JobRow
    BY <2>1, RecomputedType DEF TypeOK
  <2> QED
    BY <2>2 DEF CancelJob, TypeOK
<1> QED
  BY <1>1, <1>2 DEF CancelJob, TypeOK

LEMMA ResetType ==
    ASSUME TypeOK, NEW j \in Job, RetryFailedTickets(j)
    PROVE  TypeOK'
<1>1. ticket' \in [Ticket -> TicketRow]
  BY RowTypes DEF RetryFailedTickets, TypeOK
<1>2. job' \in [Job -> JobRow]
  BY RecomputeJobsType DEF RetryFailedTickets, TypeOK
<1>3. resets' \in 0 .. MaxResets
  BY LifecycleAssumption DEF RetryFailedTickets, TypeOK
<1> QED
  BY <1>1, <1>2, <1>3 DEF RetryFailedTickets, TypeOK

LEMMA LeaseType ==
    ASSUME TypeOK, NEW t \in Ticket,
           LeaseExpires(t) \/ \E n \in Claim : Heartbeat(t, n)
    PROVE  TypeOK'
<1>1. \A row \in TicketRow, l \in {"live", "expired"} : [row EXCEPT !.lease = l] \in TicketRow
  BY DEF TicketRow
<1>2. [ticket EXCEPT ![t].lease = "live"] \in [Ticket -> TicketRow]
  BY <1>1 DEF TypeOK
<1>3. [ticket EXCEPT ![t].lease = "expired"] \in [Ticket -> TicketRow]
  BY <1>1 DEF TypeOK
<1> QED
  BY <1>2, <1>3 DEF LeaseExpires, Heartbeat, TypeOK

LEMMA CrashType ==
    ASSUME TypeOK, NEW w \in Worker, Crash(w)
    PROVE  TypeOK'
<1>1. NoExec \in Exec
  BY DEF NoExec, Exec, ThreadState
<1>2. exec' \in [Ticket -> [Claim -> Exec]]
  BY <1>1 DEF Crash, TypeOK
<1> QED
  BY <1>2 DEF Crash, TypeOK

(* Every step keeps every variable in its type. *)
LEMMA NextType == TypeOK /\ [Next]_vars => TypeOK'
<1> SUFFICES ASSUME TypeOK, [Next]_vars PROVE TypeOK'
  OBVIOUS
<1>1. ASSUME NEW t \in Ticket, NEW n \in Claim, ThreadStep(t, n) PROVE TypeOK'
  BY <1>1, ThreadStepCases, SettleType DEF TypeOK
<1>2. ASSUME NEW t \in Ticket, NEW n \in Claim, TransactionFails(t, n) PROVE TypeOK'
  BY <1>2, ThreadTypes DEF TransactionFails, TypeOK
<1>3. CASE Reconcile
  BY <1>3, RecomputeJobsType DEF Reconcile, TypeOK
<1>4. CASE UNCHANGED vars
  BY <1>4 DEF vars, TypeOK
<1> QED
  BY <1>1, <1>2, <1>3, <1>4, ClaimType, RecoverType, CancelType, ResetType,
     LeaseType, CrashType DEF Next, Operation

(* Types hold in every reachable state. *)
THEOREM TypeCorrect == Spec => []TypeOK
BY InitType, NextType, PTL DEF Spec

-----------------------------------------------------------------------------
(* The rows: RowShape and ResultMatchesTicket.  Neither is inductive alone  *)
(* (a settled row may show its verdict because it was RUNNING, and a        *)
(* RUNNING row shows none), so both are proved at once, row by row.         *)

Sound(row, res) ==
    /\ row.lease # "none" <=> row.status = "RUNNING"
    /\ row.status = "RUNNING" => row.worker # NoWorker /\ row.attempt > 0
    /\ row.status \in Pending => row.worker = NoWorker
    /\ row.linked => row.status \in Verdict /\ res.verdict = row.status
    /\ row.status \in {"DONE", "NOT_APPLICABLE"} => row.linked

Leased(row, l) == [row EXCEPT !.lease = l]

RowsSound == \A t \in Ticket : Sound(ticket[t], result[t])

(* Each operation on a row in the status it applies to gives a sound row. *)
LEMMA SoundOperations ==
    ASSUME NEW row \in TicketRow, NEW res \in ResultRow, Sound(row, res)
    PROVE  /\ \A target \in SettleTarget, n \in Claim :
                row.status = "RUNNING" =>
                  Sound(SettledRow(row, target),
                        IF target \in Verdict THEN [claim |-> n, verdict |-> target] ELSE res)
           /\ \A cancel, max :
                row.status = "RUNNING" => Sound(RecoveredRow(row, cancel, max), res)
           /\ row.status \in Pending \cup {"RUNNING"} => Sound(SweptRow(row), res)
           /\ row.status = "FAILED" => Sound(ResetRow(row), res)
           /\ \A w \in Worker : row.status \in Pending => Sound(ClaimedRow(row, w), res)
           /\ \A l \in {"live", "expired"} :
                row.status = "RUNNING" => Sound(Leased(row, l), res)
<1> USE DEF Sound, TicketRow, Pending, Verdict
<1>1. ASSUME NEW target \in SettleTarget, NEW n \in Claim, row.status = "RUNNING"
      PROVE  Sound(SettledRow(row, target),
                   IF target \in Verdict THEN [claim |-> n, verdict |-> target] ELSE res)
  BY <1>1 DEF SettledRow, SettleTarget
<1>2. ASSUME NEW cancel, NEW max, row.status = "RUNNING"
      PROVE  Sound(RecoveredRow(row, cancel, max), res)
  BY <1>2 DEF RecoveredRow
<1>3. row.status \in Pending \cup {"RUNNING"} => Sound(SweptRow(row), res)
  BY DEF SweptRow
<1>4. row.status = "FAILED" => Sound(ResetRow(row), res)
  BY DEF ResetRow
<1>5. ASSUME NEW w \in Worker, row.status \in Pending
      PROVE  Sound(ClaimedRow(row, w), res)
  <2>1. row.attempt + 1 > 0
    OBVIOUS
  <2> QED
    BY <1>5, <2>1, LifecycleAssumption DEF ClaimedRow
<1>6. ASSUME NEW l \in {"live", "expired"}, row.status = "RUNNING"
      PROVE  Sound(Leased(row, l), res)
  BY <1>6 DEF Leased
<1> HIDE DEF Sound, TicketRow, Pending, Verdict
<1> QED
  BY <1>1, <1>2, <1>3, <1>4, <1>5, <1>6

(* What one step does to the row of ticket t and to its result row: the     *)
(* operations of the code, each with the conditions under which it applies. *)
RowSettled(t, n, target) ==
    /\ Owns(t, exec[t][n].worker)
    /\ job[JobOf[t]].cancel => target \in {"CANCELLED", "RETRY"}
    /\ ticket'[t] = SettledRow(ticket[t], target)
    /\ result'[t] = IF target \in Verdict THEN [claim |-> n, verdict |-> target]
                                          ELSE result[t]

RowRecovered(t) ==
    /\ ticket[t].status = "RUNNING"
    /\ ticket'[t] = RecoveredRow(ticket[t], job[JobOf[t]].cancel, MaxAttempts[t])
    /\ result'[t] = result[t]

RowSwept(t) ==
    /\ ticket[t].status \in Pending \cup {"RUNNING"}
    /\ ticket'[t] = SweptRow(ticket[t])
    /\ result'[t] = result[t]

RowReset(t) ==
    /\ ticket[t].status = "FAILED"
    /\ ~job[JobOf[t]].cancel
    /\ ticket'[t] = ResetRow(ticket[t])
    /\ result'[t] = result[t]

RowClaimed(t, w) ==
    /\ ticket[t].status \in Pending
    /\ ticket'[t] = ClaimedRow(ticket[t], w)
    /\ result'[t] = result[t]

RowLeased(t, l) ==
    /\ ticket[t].lease # "none"
    /\ ticket'[t] = Leased(ticket[t], l)
    /\ result'[t] = result[t]

RowStep(t) ==
    \/ \E n \in Claim, target \in SettleTarget : RowSettled(t, n, target)
    \/ RowRecovered(t)
    \/ RowSwept(t)
    \/ RowReset(t)
    \/ \E w \in Worker : RowClaimed(t, w)
    \/ \E l \in {"live", "expired"} : RowLeased(t, l)
    \/ ticket'[t] = ticket[t] /\ result'[t] = result[t]

(* Every step of the specification is such a step for every ticket. *)
LEMMA NextRowStep ==
    ASSUME TypeOK, [Next]_vars, NEW t \in Ticket
    PROVE  RowStep(t)
<1>1. ASSUME NEW u \in Ticket, NEW n \in Claim, ThreadStep(u, n)
      PROVE  RowStep(t)
  <2>1. CASE UNCHANGED <<ticket, result>>
    BY <2>1 DEF RowStep
  <2>2. ASSUME NEW target \in SettleTarget, Settle(u, n, target),
               job[JobOf[u]].cancel => target \in {"CANCELLED", "RETRY"}
        PROVE  RowStep(t)
    <3>1. CASE UNCHANGED <<ticket, result>>
      BY <3>1 DEF RowStep
    <3>2. CASE /\ Owns(u, exec[u][n].worker)
               /\ ticket' = [ticket EXCEPT ![u] = SettledRow(@, target)]
               /\ result' = IF target \in Verdict
                              THEN [result EXCEPT ![u] = [claim |-> n, verdict |-> target]]
                              ELSE result
      <4>1. CASE u = t
        <5>1. ticket'[t] = SettledRow(ticket[t], target)
          BY <3>2, <4>1 DEF TypeOK
        <5>2. result'[t] = IF target \in Verdict THEN [claim |-> n, verdict |-> target]
                                                 ELSE result[t]
          BY <3>2, <4>1 DEF TypeOK
        <5>3. RowSettled(t, n, target)
          BY <2>2, <3>2, <4>1, <5>1, <5>2 DEF RowSettled
        <5> QED
          BY <5>3 DEF RowStep
      <4>2. CASE u # t
        BY <3>2, <4>2 DEF TypeOK, RowStep
      <4> QED
        BY <4>1, <4>2
    <3> QED
      BY <2>2, <3>1, <3>2 DEF Settle
  <2> QED
    BY <1>1, <2>1, <2>2, ThreadStepCases
<1>2. ASSUME NEW w \in Worker, NEW S \in SUBSET Ticket, ClaimTickets(w, S)
      PROVE  RowStep(t)
  <2>1. CASE t \in S
    <3>1. RowClaimed(t, w)
      BY <1>2, <2>1 DEF ClaimTickets, Claimable, RowClaimed
    <3> QED
      BY <3>1 DEF RowStep
  <2>2. CASE t \notin S
    BY <1>2, <2>2 DEF ClaimTickets, RowStep
  <2> QED
    BY <2>1, <2>2
<1>3. ASSUME NEW S \in SUBSET Ticket, NEW C \in SUBSET Ticket, Recover(S, C)
      PROVE  RowStep(t)
  <2>1. result' = result /\ (t \in S \cup C => ticket[t].status = "RUNNING")
    BY <1>3 DEF Recover, Expired
  <2>2. CASE t \in S
    BY <1>3, <2>1, <2>2 DEF Recover, RowRecovered, RowStep
  <2>3. CASE t \in C \ S
    BY <1>3, <2>1, <2>3 DEF Recover, RowSwept, RowStep
  <2>4. CASE t \notin S \cup C
    BY <1>3, <2>1, <2>4 DEF Recover, RowStep
  <2> QED
    BY <2>2, <2>3, <2>4
<1>4. ASSUME NEW j \in Job, CancelJob(j)
      PROVE  RowStep(t)
  BY <1>4 DEF CancelJob, RowSwept, RowStep
<1>5. ASSUME NEW j \in Job, RetryFailedTickets(j)
      PROVE  RowStep(t)
  BY <1>5 DEF RetryFailedTickets, RowReset, RowStep
<1>6. ASSUME NEW u \in Ticket, LeaseExpires(u) \/ \E n \in Claim : Heartbeat(u, n)
      PROVE  RowStep(t)
  <2>1. PICK l \in {"live", "expired"} : /\ ticket' = [ticket EXCEPT ![u] = Leased(@, l)]
                                         /\ result' = result
                                         /\ ticket[u].lease # "none"
    BY <1>6 DEF LeaseExpires, Heartbeat, Leased
  <2>2. CASE u = t
    <3>1. RowLeased(t, l)
      BY <2>1, <2>2 DEF TypeOK, RowLeased
    <3> QED
      BY <3>1 DEF RowStep
  <2>3. CASE u # t
    BY <2>1, <2>3 DEF TypeOK, RowStep
  <2> QED
    BY <2>2, <2>3
<1>7. CASE UNCHANGED <<ticket, result>>
  BY <1>7 DEF RowStep
<1> QED
  BY <1>1, <1>2, <1>3, <1>4, <1>5, <1>6, <1>7
     DEF Next, Operation, TransactionFails, Reconcile, Crash, vars

(* Every step keeps every row sound. *)
LEMMA NextSound == TypeOK /\ RowsSound /\ [Next]_vars => RowsSound'
<1> SUFFICES ASSUME TypeOK, RowsSound, [Next]_vars, NEW t \in Ticket
             PROVE  Sound(ticket'[t], result'[t])
  BY DEF RowsSound
<1>1. ticket[t] \in TicketRow /\ result[t] \in ResultRow /\ Sound(ticket[t], result[t])
  BY DEF TypeOK, RowsSound
<1>2. RowStep(t)
  BY NextRowStep
<1>3. ASSUME NEW n \in Claim, NEW target \in SettleTarget, RowSettled(t, n, target)
      PROVE  Sound(ticket'[t], result'[t])
  BY <1>1, <1>3, SoundOperations DEF RowSettled, Owns
<1>4. CASE RowRecovered(t)
  BY <1>1, <1>4, SoundOperations DEF RowRecovered
<1>5. CASE RowSwept(t)
  BY <1>1, <1>5, SoundOperations DEF RowSwept
<1>6. CASE RowReset(t)
  BY <1>1, <1>6, SoundOperations DEF RowReset
<1>7. ASSUME NEW w \in Worker, RowClaimed(t, w)
      PROVE  Sound(ticket'[t], result'[t])
  BY <1>1, <1>7, SoundOperations DEF RowClaimed
<1>8. ASSUME NEW l \in {"live", "expired"}, RowLeased(t, l)
      PROVE  Sound(ticket'[t], result'[t])
  <2>1. ticket[t].status = "RUNNING"
    BY <1>1, <1>8 DEF RowLeased, Sound
  <2> QED
    BY <1>1, <1>8, <2>1, SoundOperations DEF RowLeased
<1>9. CASE ticket'[t] = ticket[t] /\ result'[t] = result[t]
  BY <1>1, <1>9
<1> QED
  BY <1>2, <1>3, <1>4, <1>5, <1>6, <1>7, <1>8, <1>9 DEF RowStep

LEMMA InitSound == Init => RowsSound
BY DEF Init, RowsSound, Sound, Pending, Verdict

(* A row is owned and leased exactly while it is RUNNING. *)
THEOREM RowShapeHolds == Spec => []RowShape
<1>1. RowsSound => RowShape
  BY DEF RowsSound, Sound, RowShape
<1> QED
  BY <1>1, TypeCorrect, InitSound, NextSound, PTL DEF Spec

(* A ticket shows a result exactly while it is settled with that verdict. *)
THEOREM ResultMatchesTicketHolds == Spec => []ResultMatchesTicket
<1>1. RowsSound => ResultMatchesTicket
  BY DEF RowsSound, Sound, ResultMatchesTicket
<1> QED
  BY <1>1, TypeCorrect, InitSound, NextSound, PTL DEF Spec

-----------------------------------------------------------------------------
(* What a step may never do, read off the row steps.                       *)

(* No verdict is recorded for a ticket whose job's cancellation is         *)
(* committed: whatever a thread was evaluating, a result row never changes *)
(* again and no ticket newly becomes DONE, FAILED or NOT_APPLICABLE.       *)
THEOREM NoVerdictAfterCancelHolds == Spec => NoVerdictAfterCancel
<1>1. ASSUME TypeOK, [Next]_vars, NEW t \in Ticket, job[JobOf[t]].cancel
      PROVE  /\ result'[t] = result[t]
             /\ ticket'[t].status \in Verdict => ticket[t].status = ticket'[t].status
  <2> USE DEF TicketRow, Verdict
  <2>1. ticket[t] \in TicketRow /\ RowStep(t)
    BY <1>1, NextRowStep DEF TypeOK
  <2>2. CASE \E n \in Claim, target \in SettleTarget : RowSettled(t, n, target)
    BY <1>1, <2>1, <2>2 DEF RowSettled, SettledRow
  <2>3. CASE RowRecovered(t)
    BY <1>1, <2>1, <2>3 DEF RowRecovered, RecoveredRow
  <2>4. CASE RowSwept(t)
    BY <2>1, <2>4 DEF RowSwept, SweptRow
  <2>5. CASE RowReset(t)
    BY <1>1, <2>5 DEF RowReset
  <2>6. CASE \E w \in Worker : RowClaimed(t, w)
    BY <2>1, <2>6 DEF RowClaimed, ClaimedRow
  <2>7. CASE \E l \in {"live", "expired"} : RowLeased(t, l)
    BY <2>1, <2>7 DEF RowLeased, Leased
  <2> QED
    BY <2>1, <2>2, <2>3, <2>4, <2>5, <2>6, <2>7 DEF RowStep
<1>2. TypeOK /\ [Next]_vars =>
        [\A t \in Ticket :
           job[JobOf[t]].cancel =>
             /\ result'[t] = result[t]
             /\ ticket'[t].status \in Verdict => ticket[t].status = ticket'[t].status]_vars
  BY <1>1
<1> QED
  BY <1>2, TypeCorrect, PTL DEF Spec, NoVerdictAfterCancel

(* DONE, NOT_APPLICABLE and CANCELLED are final, and FAILED is but for an  *)
(* operator's reset on a job that is not cancelled: neither a late thread  *)
(* nor a sweep nor a cancellation touches a settled ticket or its result.  *)
THEOREM VerdictsAreFinalHolds == Spec => VerdictsAreFinal
<1>1. ASSUME TypeOK, RowsSound, [Next]_vars, NEW t \in Ticket,
             ticket[t].status \in Terminal
      PROVE  /\ result'[t] = result[t]
             /\ \/ ticket'[t] = ticket[t]
                \/ /\ ticket[t].status = "FAILED"
                   /\ ticket'[t].status = "READY"
                   /\ ~job[JobOf[t]].cancel
  <2>1. ticket[t] \in TicketRow /\ RowStep(t) /\ ticket[t].lease = "none"
    BY <1>1, NextRowStep DEF TypeOK, RowsSound, Sound, Terminal
  <2>2. ticket[t].status \notin Pending \cup {"RUNNING"}
    BY <1>1 DEF Terminal, Pending
  <2>3. CASE RowReset(t)
    BY <2>1, <2>3 DEF RowReset, ResetRow, TicketRow
  <2> QED
    BY <2>1, <2>2, <2>3 DEF RowStep, RowSettled, RowRecovered, RowSwept, RowClaimed,
                            RowLeased, Owns
<1>2. TypeOK /\ RowsSound /\ [Next]_vars =>
        [\A t \in Ticket :
           ticket[t].status \in Terminal =>
             /\ result'[t] = result[t]
             /\ \/ ticket'[t] = ticket[t]
                \/ /\ ticket[t].status = "FAILED"
                   /\ ticket'[t].status = "READY"
                   /\ ~job[JobOf[t]].cancel]_vars
  BY <1>1
<1> QED
  BY <1>2, TypeCorrect, InitSound, NextSound, PTL DEF Spec, VerdictsAreFinal

(* A result row is written only while the ticket is RUNNING and only by a  *)
(* thread of the runner that owns it.                                      *)
THEOREM OnlyOwnerRecordsHolds == Spec => OnlyOwnerRecords
<1>1. ASSUME TypeOK, [Next]_vars, NEW t \in Ticket, result'[t] # result[t]
      PROVE  /\ ticket[t].status = "RUNNING"
             /\ exec[t][result'[t].claim].worker = ticket[t].worker
  <2>1. PICK n \in Claim, target \in SettleTarget : RowSettled(t, n, target)
    BY <1>1, NextRowStep DEF RowStep, RowRecovered, RowSwept, RowReset, RowClaimed, RowLeased
  <2>2. result'[t] = [claim |-> n, verdict |-> target]
    BY <1>1, <2>1 DEF RowSettled
  <2> QED
    BY <2>1, <2>2 DEF RowSettled, Owns
<1>2. TypeOK /\ [Next]_vars =>
        [\A t \in Ticket :
           result'[t] # result[t] =>
             /\ ticket[t].status = "RUNNING"
             /\ exec[t][result'[t].claim].worker = ticket[t].worker]_vars
  BY <1>1
<1> QED
  BY <1>2, TypeCorrect, PTL DEF Spec, OnlyOwnerRecords

-----------------------------------------------------------------------------
(* The counters and the status of a job.                                   *)

JobExact(row, j, tk) ==
    /\ \A s \in Terminal :
          row.count[s] = Cardinality({t \in TicketsOf(j) : tk[t].status = s})
    /\ row.status \in OpenJobStatus
          <=> \E t \in TicketsOf(j) : tk[t].status \notin Terminal
    /\ row.status = "CANCELLED" => row.count["CANCELLED"] > 0
    /\ row.status = "COMPLETED" => row.count["FAILED"] = 0
    /\ row.status \in {"FAILED", "PARTIAL_FAILED"} => row.count["FAILED"] > 0
    /\ row.status = "FAILED" => row.count["DONE"] = 0

LEMMA ExactEachJob == ProgressExact <=> \A j \in Job : JobExact(job[j], j, ticket)
BY DEF ProgressExact, JobExact

(* A counter is positive exactly when its status is present. *)
LEMMA TallyPositive ==
    ASSUME NEW j, NEW tk, NEW s \in Terminal
    PROVE  /\ s \in Present(j, tk) => Tally(j, tk)[s] > 0
           /\ s \notin Present(j, tk) => Tally(j, tk)[s] = 0
<1> DEFINE T == {t \in TicketsOf(j) : tk[t].status = s}
<1>1. IsFiniteSet(T)
  <2>1. T \subseteq Ticket
    BY DEF TicketsOf
  <2> QED
    BY <2>1, LifecycleAssumption, FS_Subset
<1>2. Tally(j, tk)[s] = Cardinality(T)
  BY DEF Tally
<1>3. T = {} <=> s \notin Present(j, tk)
  BY DEF Present
<1>4. Cardinality(T) \in Nat /\ (Cardinality(T) = 0 <=> T = {})
  BY <1>1, FS_CardinalityType, FS_EmptySet
<1> HIDE DEF T
<1> QED
  BY <1>2, <1>3, <1>4

(* Recomputing makes a job row exact. *)
LEMMA RecomputedExact ==
    ASSUME NEW row \in JobRow, NEW j \in Job, NEW tk
    PROVE  JobExact(Recomputed(row, j, tk), j, tk)
<1> DEFINE new == Recomputed(row, j, tk)
           present == Present(j, tk)
<1>1. new.count = Tally(j, tk) /\ new.status = ProgressStatus(row.cancel, present)
  BY DEF Recomputed, JobRow
<1>2. \A s \in Terminal :
         new.count[s] = Cardinality({t \in TicketsOf(j) : tk[t].status = s})
  BY <1>1 DEF Tally
<1>3. \A s \in Terminal : /\ s \in present => new.count[s] > 0
                          /\ s \notin present => new.count[s] = 0
  BY <1>1, TallyPositive
<1>4. present \subseteq Terminal <=> ~ \E t \in TicketsOf(j) : tk[t].status \notin Terminal
  BY DEF Present
<1> HIDE DEF new, present
<1>5. new.status \in OpenJobStatus <=> ~(present \subseteq Terminal)
  BY <1>1 DEF ProgressStatus, OpenJobStatus
<1>6. new.status = "CANCELLED" => "CANCELLED" \in present
  BY <1>1 DEF ProgressStatus
<1>7. new.status = "COMPLETED" => "FAILED" \notin present
  BY <1>1 DEF ProgressStatus
<1>8. new.status \in {"FAILED", "PARTIAL_FAILED"} => "FAILED" \in present
  BY <1>1 DEF ProgressStatus
<1>9. new.status = "FAILED" => "DONE" \notin present
  BY <1>1 DEF ProgressStatus
<1>10. JobExact(new, j, tk)
  BY <1>2, <1>3, <1>4, <1>5, <1>6, <1>7, <1>8, <1>9 DEF JobExact, Terminal
<1> QED
  BY <1>10 DEF new

(* A job stays exact while none of its tickets becomes or ceases to be     *)
(* terminal and its row keeps its counters and whether it is open.         *)
LEMMA ExactFrame ==
    ASSUME NEW j \in Job, NEW row, NEW new, NEW tk, NEW tk2,
           JobExact(row, j, tk),
           new.count = row.count,
           \/ new.status = row.status
           \/ new.status \in OpenJobStatus /\ row.status \in OpenJobStatus,
           \A t \in TicketsOf(j) : \/ tk2[t].status = tk[t].status
                                   \/ /\ tk2[t].status \notin Terminal
                                      /\ tk[t].status \notin Terminal
    PROVE  JobExact(new, j, tk2)
<1>1. ASSUME NEW s \in Terminal
      PROVE  {t \in TicketsOf(j) : tk2[t].status = s} = {t \in TicketsOf(j) : tk[t].status = s}
  OBVIOUS
<1>2. \A s \in Terminal :
         new.count[s] = Cardinality({t \in TicketsOf(j) : tk2[t].status = s})
  BY <1>1 DEF JobExact
<1> QED
  BY <1>2 DEF JobExact, OpenJobStatus

(* A step that recomputes every job whose tickets it changes. *)
LEMMA RecomputeStep ==
    ASSUME TypeOK, ProgressExact, NEW J,
           job' = RecomputeJobs(J, ticket'),
           \A t \in Ticket : JobOf[t] \notin J => ticket'[t] = ticket[t]
    PROVE  ProgressExact'
<1> SUFFICES ASSUME NEW j \in Job
             PROVE  JobExact(job'[j], j, ticket')
  BY DEF ProgressExact, JobExact
<1>1. CASE j \in J
  <2>1. job'[j] = Recomputed(job[j], j, ticket')
    BY <1>1 DEF RecomputeJobs
  <2> QED
    BY <2>1, RecomputedExact DEF TypeOK
<1>2. CASE j \notin J
  <2>1. job'[j] = job[j] /\ \A t \in TicketsOf(j) : ticket'[t] = ticket[t]
    BY <1>2 DEF RecomputeJobs, TicketsOf
  <2>2. JobExact(job[j], j, ticket)
    BY ExactEachJob
  <2> QED
    BY <2>1, <2>2, ExactFrame
<1> QED
  BY <1>1, <1>2

LEMMA NextExact == TypeOK /\ RowsSound /\ ProgressExact /\ [Next]_vars => ProgressExact'
<1> SUFFICES ASSUME TypeOK, RowsSound, ProgressExact, [Next]_vars
             PROVE  ProgressExact'
  OBVIOUS
<1>1. CASE UNCHANGED <<job, ticket>>
  BY <1>1 DEF ProgressExact
<1>2. ASSUME NEW t \in Ticket, NEW n \in Claim, ThreadStep(t, n)
      PROVE  ProgressExact'
  <2>1. ASSUME NEW target \in SettleTarget, Settle(t, n, target)
        PROVE  ProgressExact'
    <3>1. CASE /\ ticket' = [ticket EXCEPT ![t] = SettledRow(@, target)]
               /\ job' = RecomputeJobs({JobOf[t]}, ticket')
      <4>1. \A u \in Ticket : JobOf[u] \notin {JobOf[t]} => ticket'[u] = ticket[u]
        BY <3>1 DEF TypeOK
      <4> QED
        BY <3>1, <4>1, RecomputeStep
    <3> QED
      BY <1>1, <2>1, <3>1 DEF Settle
  <2> QED
    BY <1>1, <1>2, <2>1, ThreadStepCases
<1>3. ASSUME NEW w \in Worker, NEW S \in SUBSET Ticket, ClaimTickets(w, S)
      PROVE  ProgressExact'
  <2> SUFFICES ASSUME NEW j \in Job
               PROVE  JobExact(job'[j], j, ticket')
    BY DEF ProgressExact, JobExact
  <2>1. /\ job'[j].count = job[j].count
        /\ \/ job'[j].status = job[j].status
           \/ job'[j].status \in OpenJobStatus /\ job[j].status \in OpenJobStatus
    BY <1>3 DEF ClaimTickets, MarkRunning, TypeOK, JobRow, OpenJobStatus
  <2>2. ASSUME NEW t \in TicketsOf(j)
        PROVE  \/ ticket'[t].status = ticket[t].status
               \/ ticket'[t].status \notin Terminal /\ ticket[t].status \notin Terminal
    <3>1. ticket[t] \in TicketRow
      BY DEF TypeOK, TicketsOf
    <3>2. CASE t \in S
      <4>1. ticket[t].status \in Pending /\ ticket'[t] = ClaimedRow(ticket[t], w)
        BY <1>3, <3>2 DEF ClaimTickets, Claimable
      <4> QED
        BY <3>1, <4>1 DEF ClaimedRow, TicketRow, Pending, Terminal
    <3>3. CASE t \notin S
      BY <1>3, <3>3 DEF ClaimTickets, TicketsOf
    <3> QED
      BY <3>2, <3>3
  <2>3. JobExact(job[j], j, ticket)
    BY ExactEachJob
  <2> QED
    BY <2>1, <2>2, <2>3, ExactFrame
<1>4. ASSUME NEW S \in SUBSET Ticket, NEW C \in SUBSET Ticket, Recover(S, C)
      PROVE  ProgressExact'
  <2>1. \A t \in Ticket : JobOf[t] \notin {JobOf[u] : u \in S \cup C} => ticket'[t] = ticket[t]
    BY <1>4 DEF Recover
  <2> QED
    BY <1>4, <2>1, RecomputeStep DEF Recover
<1>5. CASE Reconcile
  <2> DEFINE J == {JobOf[t] : t \in {u \in Ticket : ticket[u].status \notin Terminal}}
  <2>1. ticket' = ticket /\ job' = RecomputeJobs(J, ticket')
    BY <1>5 DEF Reconcile
  <2> QED
    BY <2>1, RecomputeStep
<1>6. ASSUME NEW j \in Job, RetryFailedTickets(j)
      PROVE  ProgressExact'
  <2>1. \A t \in Ticket : JobOf[t] \notin {j} => ticket'[t] = ticket[t]
    BY <1>6 DEF RetryFailedTickets
  <2> QED
    BY <1>6, <2>1, RecomputeStep DEF RetryFailedTickets
<1>7. ASSUME NEW j \in Job, CancelJob(j)
      PROVE  ProgressExact'
  <2> SUFFICES ASSUME NEW i \in Job
               PROVE  JobExact(job'[i], i, ticket')
    BY DEF ProgressExact, JobExact
  <2>1. CASE i = j
    <3>1. \A row \in JobRow : [row EXCEPT !.cancel = TRUE] \in JobRow
      BY DEF JobRow
    <3>2. [job[j] EXCEPT !.cancel = TRUE] \in JobRow
      BY <3>1 DEF TypeOK
    <3>3. job'[i] = Recomputed([job[j] EXCEPT !.cancel = TRUE], j, ticket')
      BY <1>7, <2>1 DEF CancelJob, TypeOK
    <3> QED
      BY <2>1, <3>2, <3>3, RecomputedExact
  <2>2. CASE i # j
    <3>1. job'[i] = job[i] /\ \A t \in TicketsOf(i) : ticket'[t] = ticket[t]
      BY <1>7, <2>2 DEF CancelJob, TypeOK, TicketsOf
    <3>2. JobExact(job[i], i, ticket)
      BY ExactEachJob
    <3> QED
      BY <3>1, <3>2, ExactFrame
  <2> QED
    BY <2>1, <2>2
<1>8. ASSUME NEW u \in Ticket, LeaseExpires(u) \/ \E n \in Claim : Heartbeat(u, n)
      PROVE  ProgressExact'
  <2> SUFFICES ASSUME NEW j \in Job
               PROVE  JobExact(job'[j], j, ticket')
    BY DEF ProgressExact, JobExact
  <2>1. PICK l \in {"live", "expired"} : job' = job /\ ticket' = [ticket EXCEPT ![u] = Leased(@, l)]
    BY <1>8 DEF LeaseExpires, Heartbeat, Leased
  <2>2. \A row \in TicketRow : Leased(row, l).status = row.status
    BY DEF Leased, TicketRow
  <2>3. \A t \in TicketsOf(j) : ticket'[t].status = ticket[t].status
    BY <2>1, <2>2 DEF TypeOK, TicketsOf
  <2>4. JobExact(job[j], j, ticket)
    BY ExactEachJob
  <2>5. job'[j] = job[j]
    BY <2>1
  <2> QED
    BY <2>3, <2>4, <2>5, ExactFrame
<1>9. ASSUME \/ UNCHANGED vars
             \/ \E t \in Ticket, n \in Claim : TransactionFails(t, n)
             \/ \E w \in Worker : Crash(w)
      PROVE  ProgressExact'
  BY <1>1, <1>9 DEF TransactionFails, Crash, vars
<1> QED
  BY <1>2, <1>3, <1>4, <1>5, <1>6, <1>7, <1>8, <1>9 DEF Next, Operation

LEMMA InitExact == Init => ProgressExact
<1> SUFFICES ASSUME Init, NEW j \in Job
             PROVE  JobExact(job[j], j, ticket)
  BY ExactEachJob
<1>1. job[j] = [status |-> "READY", cancel |-> FALSE, count |-> [s \in Terminal |-> 0]]
  BY DEF Init
<1>2. \A t \in Ticket : ticket[t].status = "READY"
  BY DEF Init
<1>3. ASSUME NEW s \in Terminal
      PROVE  Cardinality({t \in TicketsOf(j) : ticket[t].status = s}) = 0
  <2>1. {t \in TicketsOf(j) : ticket[t].status = s} = {}
    BY <1>2 DEF Terminal, TicketsOf
  <2> QED
    BY <2>1, FS_EmptySet
<1>4. \E t \in TicketsOf(j) : ticket[t].status \notin Terminal
  BY <1>2, LifecycleAssumption DEF TicketsOf, Terminal
<1> QED
  BY <1>1, <1>3, <1>4 DEF JobExact, OpenJobStatus

(* Whatever happens, the counters of a job are those of its tickets and    *)
(* its status is terminal exactly when theirs all are, and of their kind.  *)
THEOREM ProgressExactHolds == Spec => []ProgressExact
BY TypeCorrect, InitSound, NextSound, InitExact, NextExact, PTL DEF Spec

-----------------------------------------------------------------------------
(* A runner has at most one thread. *)
OneThread ==
    \A t, u \in Ticket, n, m \in Claim :
        /\ exec[t][n].worker # NoWorker
        /\ exec[t][n].worker = exec[u][m].worker
        => t = u /\ n = m

(* A thread whose runner owns its ticket is that of the latest claim, and   *)
(* counts attempts as the row does.                                         *)
Current ==
    \A t \in Ticket, n \in Claim :
        Owns(t, exec[t][n].worker) =>
            n = claims[t] /\ exec[t][n].attempt = ticket[t].attempt

(* A ticket that is pending has an attempt left. *)
AttemptLeft ==
    \A t \in Ticket :
        /\ ticket[t].attempt <= MaxAttempts[t]
        /\ ticket[t].status \in Pending => ticket[t].attempt < MaxAttempts[t]

AInv == TypeOK /\ RowsSound /\ OneThread /\ Current /\ AttemptLeft

-----------------------------------------------------------------------------
(* What the operations on a row do to status, worker and attempt. *)
LEMMA RowFields ==
    ASSUME NEW row \in TicketRow
    PROVE  /\ \A target : /\ SettledRow(row, target).status = target
                          /\ SettledRow(row, target).attempt = row.attempt
           /\ \A cancel, max :
                /\ RecoveredRow(row, cancel, max).attempt = row.attempt
                /\ RecoveredRow(row, cancel, max).status \in {"CANCELLED", "FAILED", "RETRY"}
                /\ RecoveredRow(row, cancel, max).status = "RETRY" => ~(row.attempt >= max)
           /\ SweptRow(row).status = "CANCELLED" /\ SweptRow(row).attempt = row.attempt
           /\ ResetRow(row).status = "READY" /\ ResetRow(row).attempt = 0
           /\ \A w : /\ ClaimedRow(row, w).status = "RUNNING"
                     /\ ClaimedRow(row, w).worker = w
                     /\ ClaimedRow(row, w).attempt = row.attempt + 1
           /\ \A l : /\ Leased(row, l).status = row.status
                     /\ Leased(row, l).worker = row.worker
                     /\ Leased(row, l).attempt = row.attempt
BY DEF TicketRow, SettledRow, RecoveredRow, SweptRow, ResetRow, ClaimedRow, Leased

(* The passing of time and a heartbeat change no more than a lease. *)
LEMMA LeaseStep ==
    ASSUME TypeOK, NEW u \in Ticket, LeaseExpires(u) \/ \E n \in Claim : Heartbeat(u, n),
           NEW t \in Ticket
    PROVE  /\ ticket'[t].status = ticket[t].status
           /\ ticket'[t].worker = ticket[t].worker
           /\ ticket'[t].attempt = ticket[t].attempt
<1>1. PICK l \in {"live", "expired"} : ticket' = [ticket EXCEPT ![u] = Leased(@, l)]
  BY DEF LeaseExpires, Heartbeat, Leased
<1>2. ticket'[t] = Leased(ticket[t], l) \/ ticket'[t] = ticket[t]
  BY <1>1 DEF TypeOK
<1> QED
  BY <1>2, RowFields DEF TypeOK

-----------------------------------------------------------------------------
(* Threads. *)

(* Threads go on or end, but for a claim. *)
ThreadsGoOn ==
    \A t \in Ticket, n \in Claim :
        \/ exec'[t][n].worker = NoWorker
        \/ /\ exec'[t][n].worker = exec[t][n].worker
           /\ exec'[t][n].attempt = exec[t][n].attempt

LEMMA GoingOn ==
    ASSUME TypeOK, NEW t \in Ticket, NEW n \in Claim,
           \/ \E pc \in ThreadState : exec' = Goto(t, n, pc)
           \/ exec' = Ended(t, n)
           \/ exec' = AfterError(t, n)
           \/ exec' = exec
    PROVE  ThreadsGoOn
<1>1. ASSUME NEW pc \in ThreadState, exec' = Goto(t, n, pc)
      PROVE  ThreadsGoOn
  BY <1>1 DEF Goto, ThreadsGoOn, TypeOK, Exec
<1>2. CASE exec' = Ended(t, n)
  BY <1>2 DEF Ended, NoExec, ThreadsGoOn, TypeOK
<1>3. CASE exec' = AfterError(t, n)
  BY <1>1, <1>2, <1>3 DEF AfterError, ThreadState
<1>4. CASE exec' = exec
  BY <1>4 DEF ThreadsGoOn
<1> QED
  BY <1>1, <1>2, <1>3, <1>4

(* Of a thread's steps only a settlement touches rows, and it asks for a    *)
(* retry only with an attempt left by the thread's own count.               *)
LEMMA ThreadStepGrants ==
    ASSUME TypeOK, NEW t \in Ticket, NEW n \in Claim, ThreadStep(t, n)
    PROVE  /\ ThreadsGoOn
           /\ UNCHANGED claims
           /\ \/ UNCHANGED <<ticket, result>>
              \/ \E target \in SettleTarget :
                    /\ Owns(t, exec[t][n].worker)
                    /\ ticket' = [ticket EXCEPT ![t] = SettledRow(@, target)]
                    /\ result' = IF target \in Verdict
                                   THEN [result EXCEPT ![t] = [claim |-> n, verdict |-> target]]
                                   ELSE result
                    /\ target = "RETRY" => exec[t][n].attempt < MaxAttempts[t]
<1> DEFINE Grants == \E target \in SettleTarget :
                        /\ Settle(t, n, target)
                        /\ target = "RETRY" => exec[t][n].attempt < MaxAttempts[t]
           Goes == /\ \E pc \in ThreadState : exec' = Goto(t, n, pc)
                   /\ UNCHANGED <<ticket, result, claims>>
<1>1. ASSUME NEW target \in {"DONE", "NOT_APPLICABLE", "FAILED", RetryOrFail(t, n)},
             Persist(t, n, target)
      PROVE  Grants
  BY <1>1 DEF Persist, PersistTarget, SettleTarget, RetryOrFail
<1>2. CASE Load(t, n) \/ EvaluationRaises(t, n)
  <2>1. Goes
    BY <1>2 DEF Load, EvaluationRaises, ThreadState
  <2> QED
    BY <2>1, GoingOn
<1>3. ASSUME ~(Load(t, n) \/ EvaluationRaises(t, n))
      PROVE  Grants
  <2>1. CASE SettleCancelled(t, n)
    BY <2>1 DEF SettleCancelled, SettleTarget
  <2>2. CASE PersistOutput(t, n)
    BY <1>1, <2>2 DEF PersistOutput
  <2>3. CASE HandleTransient(t, n)
    BY <1>1, <2>3 DEF HandleTransient, RetryOrFail, SettleTarget
  <2>4. CASE GiveUp(t, n)
    BY <1>1, <2>4 DEF GiveUp
  <2> QED
    BY <1>3, <2>1, <2>2, <2>3, <2>4 DEF ThreadStep
<1>4. ASSUME Grants
      PROVE  /\ ThreadsGoOn
             /\ UNCHANGED claims
             /\ \/ UNCHANGED <<ticket, result>>
                \/ \E target \in SettleTarget :
                      /\ Owns(t, exec[t][n].worker)
                      /\ ticket' = [ticket EXCEPT ![t] = SettledRow(@, target)]
                      /\ result' = IF target \in Verdict
                                     THEN [result EXCEPT ![t] = [claim |-> n, verdict |-> target]]
                                     ELSE result
                      /\ target = "RETRY" => exec[t][n].attempt < MaxAttempts[t]
  <2>1. PICK target \in SettleTarget :
              /\ Settle(t, n, target)
              /\ target = "RETRY" => exec[t][n].attempt < MaxAttempts[t]
    BY <1>4
  <2>2. exec' = Ended(t, n) \/ exec' = AfterError(t, n)
    BY <2>1 DEF Settle
  <2>3. ThreadsGoOn
    BY <2>2, GoingOn
  <2> QED
    BY <2>1, <2>3 DEF Settle
<1> QED
  BY <1>2, <1>3, <1>4

(* A runner of one thread claims one ticket, and only when it is idle. *)
LEMMA ClaimsOne ==
    ASSUME TypeOK, Capacity = 1, NEW w \in Worker, NEW S \in SUBSET Ticket, ClaimTickets(w, S)
    PROVE  /\ \E t \in Ticket : S = {t}
           /\ \A u \in Ticket, m \in Claim : exec[u][m].worker # w
<1>1. IsFiniteSet(S) /\ IsFiniteSet(InFlight(w))
  <2>1. IsFiniteSet(Claim)
    BY LifecycleAssumption, FS_Interval DEF Claim
  <2>2. IsFiniteSet(Ticket \X Claim)
    BY <2>1, LifecycleAssumption, FS_Product
  <2> QED
    BY <2>2, LifecycleAssumption, FS_Subset DEF InFlight
<1>2. /\ Cardinality(S) \in Nat /\ Cardinality(InFlight(w)) \in Nat
      /\ Cardinality(S) # 0
  BY <1>1, FS_CardinalityType, FS_EmptySet DEF ClaimTickets
<1>3. Cardinality(S) + Cardinality(InFlight(w)) <= 1
  BY DEF ClaimTickets
<1>4. Cardinality(S) = 1 /\ Cardinality(InFlight(w)) = 0
  BY <1>2, <1>3
<1>5. InFlight(w) = {} /\ \E t : S = {t}
  BY <1>1, <1>4, FS_EmptySet, FS_Singleton
<1>6. ASSUME NEW u \in Ticket, NEW m \in Claim
      PROVE  exec[u][m].worker # w
  <2>1. <<u, m>> \notin InFlight(w)
    BY <1>5
  <2> QED
    BY <2>1 DEF InFlight
<1> QED
  BY <1>5, <1>6

(* The steps that do not claim. *)
Unclaiming == Next /\ ~\E w \in Worker, S \in SUBSET Ticket : ClaimTickets(w, S)

LEMMA UnclaimingThreads ==
    ASSUME TypeOK, Unclaiming
    PROVE  ThreadsGoOn /\ UNCHANGED claims
<1>1. ASSUME NEW t \in Ticket, NEW n \in Claim, TransactionFails(t, n)
      PROVE  ThreadsGoOn /\ UNCHANGED claims
  BY <1>1, GoingOn DEF TransactionFails
<1>2. ASSUME NEW w \in Worker, Crash(w)
      PROVE  ThreadsGoOn /\ UNCHANGED claims
  BY <1>2 DEF Crash, ThreadsGoOn, NoExec
<1>3. ASSUME UNCHANGED <<exec, claims>>
      PROVE  ThreadsGoOn /\ UNCHANGED claims
  BY <1>3 DEF ThreadsGoOn
<1> QED
  BY <1>1, <1>2, <1>3, ThreadStepGrants DEF Unclaiming, Next, Operation, Heartbeat, Recover,
     Reconcile, CancelJob, RetryFailedTickets, LeaseExpires

(* A row that is RUNNING after such a step was so before it, for the same   *)
(* runner and with the same number of attempts.                             *)
LEMMA StillRunning ==
    ASSUME TypeOK, Unclaiming, NEW t \in Ticket, ticket'[t].status = "RUNNING"
    PROVE  /\ ticket[t].status = "RUNNING"
           /\ ticket'[t].worker = ticket[t].worker
           /\ ticket'[t].attempt = ticket[t].attempt
<1>1. ticket[t] \in TicketRow
  BY DEF TypeOK
<1>2. ASSUME NEW n \in Claim, ThreadStep(t, n)
      PROVE  ticket' = ticket
  <2>1. ASSUME NEW target \in SettleTarget, ticket' = [ticket EXCEPT ![t] = SettledRow(@, target)]
        PROVE  FALSE
    <3>1. ticket'[t] = SettledRow(ticket[t], target)
      BY <2>1 DEF TypeOK
    <3> QED
      BY <1>1, <3>1, RowFields DEF SettleTarget
  <2> QED
    BY <1>2, <2>1, ThreadStepGrants
<1>3. ASSUME NEW u \in Ticket, u # t, NEW n \in Claim, ThreadStep(u, n)
      PROVE  ticket'[t] = ticket[t]
  BY <1>3, ThreadStepGrants DEF TypeOK
<1>4. ASSUME NEW S \in SUBSET Ticket, NEW C \in SUBSET Ticket, Recover(S, C)
      PROVE  ticket'[t] = ticket[t]
  <2>1. \/ ticket'[t] = RecoveredRow(ticket[t], job[JobOf[t]].cancel, MaxAttempts[t])
        \/ ticket'[t] = SweptRow(ticket[t])
        \/ ticket'[t] = ticket[t]
    BY <1>4 DEF Recover
  <2> QED
    BY <1>1, <2>1, RowFields
<1>5. ASSUME NEW j \in Job, CancelJob(j) \/ RetryFailedTickets(j)
      PROVE  ticket'[t] = ticket[t]
  <2>1. \/ ticket'[t] \in {SweptRow(ticket[t]), ResetRow(ticket[t])}
        \/ ticket'[t] = ticket[t]
    BY <1>5 DEF CancelJob, RetryFailedTickets
  <2> QED
    BY <1>1, <2>1, RowFields
<1>6. ASSUME NEW u \in Ticket, LeaseExpires(u) \/ \E n \in Claim : Heartbeat(u, n)
      PROVE  /\ ticket[t].status = "RUNNING"
             /\ ticket'[t].worker = ticket[t].worker
             /\ ticket'[t].attempt = ticket[t].attempt
  BY <1>6, LeaseStep
<1>7. ASSUME UNCHANGED ticket
      PROVE  ticket'[t] = ticket[t]
  BY <1>7
<1> QED
  BY <1>2, <1>3, <1>4, <1>5, <1>6, <1>7
     DEF Unclaiming, Next, Operation, TransactionFails, Reconcile, Crash

-----------------------------------------------------------------------------
(* The invariant. *)

LEMMA OneThreadStep ==
    ASSUME TypeOK, Capacity = 1, OneThread, Next
    PROVE  OneThread'
<1>1. CASE Unclaiming
  BY <1>1, UnclaimingThreads DEF OneThread, ThreadsGoOn
<1>2. ASSUME NEW w \in Worker, NEW S \in SUBSET Ticket, ClaimTickets(w, S)
      PROVE  OneThread'
  <2>1. PICK t \in Ticket : S = {t}
    BY <1>2, ClaimsOne
  <2>2. \A u \in Ticket, m \in Claim : exec[u][m].worker # w
    BY <1>2, ClaimsOne
  <2>3. \A u \in Ticket, m \in Claim :
            \/ exec'[u][m].worker = exec[u][m].worker
            \/ u = t /\ m = claims[t] + 1 /\ exec'[u][m].worker = w
    <3> DEFINE New == [pc |-> "claimed", worker |-> w, attempt |-> ticket[t].attempt + 1]
    <3> SUFFICES ASSUME NEW u \in Ticket, NEW m \in Claim
                 PROVE  \/ exec'[u][m].worker = exec[u][m].worker
                        \/ u = t /\ m = claims[t] + 1 /\ exec'[u][m].worker = w
      OBVIOUS
    <3>1. \/ exec'[u] = exec[u]
          \/ u = t /\ exec'[t] = [exec[t] EXCEPT ![claims[t] + 1] = New]
      BY <1>2, <2>1 DEF ClaimTickets
    <3>2. exec[t] \in [Claim -> Exec]
      BY DEF TypeOK
    <3>3. ASSUME u = t, exec'[t] = [exec[t] EXCEPT ![claims[t] + 1] = New]
          PROVE  exec'[t][m] = IF m = claims[t] + 1 THEN New ELSE exec[t][m]
      BY <3>2, <3>3
    <3>4. New.worker = w
      OBVIOUS
    <3> QED
      BY <3>1, <3>3, <3>4
  <2> QED
    BY <2>2, <2>3 DEF OneThread
<1> QED
  BY <1>1, <1>2 DEF Unclaiming

LEMMA CurrentStep ==
    ASSUME TypeOK, RowsSound, Capacity = 1, Current, Next
    PROVE  Current'
<1> SUFFICES ASSUME NEW t \in Ticket, NEW n \in Claim, Owns(t, exec[t][n].worker)'
             PROVE  n = claims'[t] /\ exec'[t][n].attempt = ticket'[t].attempt
  BY DEF Current
<1>1. ticket'[t].status = "RUNNING" /\ ticket'[t].worker = exec'[t][n].worker
  BY DEF Owns
<1>2. CASE Unclaiming
  <2>1. /\ ticket[t].status = "RUNNING"
        /\ ticket'[t].worker = ticket[t].worker
        /\ ticket'[t].attempt = ticket[t].attempt
    BY <1>1, <1>2, StillRunning
  <2>2. ticket[t].worker # NoWorker
    BY <2>1 DEF RowsSound, Sound
  <2>3. /\ exec'[t][n].worker = exec[t][n].worker
        /\ exec'[t][n].attempt = exec[t][n].attempt
        /\ claims' = claims
    BY <1>1, <1>2, <2>1, <2>2, UnclaimingThreads DEF ThreadsGoOn
  <2> QED
    BY <1>1, <2>1, <2>3 DEF Current, Owns
<1>3. ASSUME NEW w \in Worker, NEW S \in SUBSET Ticket, ClaimTickets(w, S)
      PROVE  n = claims'[t] /\ exec'[t][n].attempt = ticket'[t].attempt
  <2>1. \A u \in Ticket, m \in Claim : exec[u][m].worker # w
    BY <1>3, ClaimsOne
  <2>2. CASE t \in S
    <3>1. ticket'[t].worker = w /\ ticket'[t].attempt = ticket[t].attempt + 1
      BY <1>3, <2>2 DEF ClaimTickets, ClaimedRow, TypeOK, TicketRow
    <3>2. exec'[t] = [exec[t] EXCEPT ![claims[t] + 1] =
                        [pc |-> "claimed", worker |-> w, attempt |-> ticket[t].attempt + 1]]
      BY <1>1, <1>3, <2>1, <2>2, <3>1 DEF ClaimTickets
    <3>3. n = claims[t] + 1 /\ exec'[t][n].attempt = ticket[t].attempt + 1
      <4> DEFINE New == [pc |-> "claimed", worker |-> w, attempt |-> ticket[t].attempt + 1]
      <4>1. exec[t] \in [Claim -> Exec]
        BY DEF TypeOK
      <4>2. exec'[t][n] = IF n = claims[t] + 1 THEN New ELSE exec[t][n]
        BY <3>2, <4>1
      <4>3. exec'[t][n].worker = w
        BY <1>1, <3>1
      <4>4. n = claims[t] + 1
        BY <2>1, <4>2, <4>3
      <4> QED
        BY <4>2, <4>4
    <3> QED
      BY <1>3, <2>2, <3>1, <3>3 DEF ClaimTickets
  <2>3. CASE t \notin S
    <3>1. ticket'[t] = ticket[t] /\ exec'[t] = exec[t] /\ claims'[t] = claims[t]
      BY <1>3, <2>3 DEF ClaimTickets
    <3> QED
      BY <1>1, <3>1 DEF Current, Owns
  <2> QED
    BY <2>2, <2>3
<1> QED
  BY <1>2, <1>3 DEF Unclaiming

LEMMA AttemptLeftStep ==
    ASSUME TypeOK, RowsSound, Current, AttemptLeft, Next
    PROVE  AttemptLeft'
<1> SUFFICES ASSUME NEW t \in Ticket
             PROVE  /\ ticket'[t].attempt <= MaxAttempts[t]
                    /\ ticket'[t].status \in Pending => ticket'[t].attempt < MaxAttempts[t]
  BY DEF AttemptLeft
<1> DEFINE Left == /\ ticket'[t].attempt <= MaxAttempts[t]
                   /\ ticket'[t].status \in Pending => ticket'[t].attempt < MaxAttempts[t]
<1>1. /\ ticket[t] \in TicketRow /\ ticket[t].attempt \in Nat /\ MaxAttempts[t] \in Nat \ {0}
      /\ ticket[t].attempt <= MaxAttempts[t]
      /\ ticket[t].status \in Pending => ticket[t].attempt < MaxAttempts[t]
  BY LifecycleAssumption DEF TypeOK, TicketRow, AttemptLeft
<1>2. ASSUME ticket'[t] = ticket[t]
      PROVE  Left
  BY <1>1, <1>2
<1>3. ASSUME NEW n \in Claim, ThreadStep(t, n), ticket' # ticket
      PROVE  Left
  <2>1. PICK target \in SettleTarget :
              /\ Owns(t, exec[t][n].worker)
              /\ ticket' = [ticket EXCEPT ![t] = SettledRow(@, target)]
              /\ target = "RETRY" => exec[t][n].attempt < MaxAttempts[t]
    BY <1>3, ThreadStepGrants
  <2>2. exec[t][n].attempt = ticket[t].attempt
    BY <2>1 DEF Current
  <2>3. ticket'[t].attempt = ticket[t].attempt /\ ticket'[t].status = target
    BY <1>1, <2>1 DEF SettledRow, TypeOK, TicketRow
  <2> QED
    BY <1>1, <2>1, <2>2, <2>3 DEF SettleTarget, Pending
<1>4. ASSUME NEW u \in Ticket, u # t, NEW n \in Claim, ThreadStep(u, n)
      PROVE  Left
  BY <1>2, <1>4, ThreadStepGrants DEF TypeOK
<1>5. ASSUME NEW w \in Worker, NEW S \in SUBSET Ticket, ClaimTickets(w, S)
      PROVE  Left
  <2>1. t \in S => ticket[t].status \in Pending /\ ticket'[t] = ClaimedRow(ticket[t], w)
    BY <1>5 DEF ClaimTickets, Claimable
  <2>2. t \in S => ticket'[t].attempt = ticket[t].attempt + 1 /\ ticket'[t].status = "RUNNING"
    BY <1>1, <2>1 DEF ClaimedRow, TicketRow
  <2>3. t \notin S => ticket'[t] = ticket[t]
    BY <1>5 DEF ClaimTickets
  <2> QED
    BY <1>1, <1>2, <2>1, <2>2, <2>3 DEF Pending
<1>6. ASSUME NEW S \in SUBSET Ticket, NEW C \in SUBSET Ticket, Recover(S, C)
      PROVE  Left
  <2>1. t \in S => ticket'[t] = RecoveredRow(ticket[t], job[JobOf[t]].cancel, MaxAttempts[t])
    BY <1>6 DEF Recover
  <2>2. t \in C \ S => ticket'[t] = SweptRow(ticket[t])
    BY <1>6 DEF Recover
  <2>3. t \notin S \cup C => ticket'[t] = ticket[t]
    BY <1>6 DEF Recover
  <2>4. CASE t \in S
    <3>1. /\ ticket'[t].attempt = ticket[t].attempt
          /\ ticket'[t].status \in {"CANCELLED", "FAILED", "RETRY"}
          /\ ticket'[t].status = "RETRY" => ~(ticket[t].attempt >= MaxAttempts[t])
      BY <1>1, <2>1, <2>4, RowFields
    <3>2. ticket'[t].status \in Pending => ticket'[t].status = "RETRY"
      BY <3>1 DEF Pending
    <3> QED
      BY <1>1, <3>1, <3>2
  <2>5. CASE t \in C \ S
    BY <1>1, <2>2, <2>5, RowFields DEF Pending
  <2> QED
    BY <1>2, <2>3, <2>4, <2>5
<1>7. ASSUME NEW j \in Job, CancelJob(j)
      PROVE  Left
  <2>1. ticket'[t] = SweptRow(ticket[t]) \/ ticket'[t] = ticket[t]
    BY <1>7 DEF CancelJob
  <2> QED
    BY <1>1, <1>2, <2>1, RowFields DEF Pending
<1>8. ASSUME NEW j \in Job, RetryFailedTickets(j)
      PROVE  Left
  <2>1. ticket'[t] = ResetRow(ticket[t]) \/ ticket'[t] = ticket[t]
    BY <1>8 DEF RetryFailedTickets
  <2> QED
    BY <1>1, <1>2, <2>1, RowFields
<1>9. ASSUME NEW u \in Ticket, LeaseExpires(u) \/ \E n \in Claim : Heartbeat(u, n)
      PROVE  Left
  <2>1. ticket'[t].attempt = ticket[t].attempt /\ ticket'[t].status = ticket[t].status
    BY <1>9, LeaseStep
  <2> QED
    BY <1>1, <2>1
<1> QED
  BY <1>2, <1>3, <1>4, <1>5, <1>6, <1>7, <1>8, <1>9
     DEF Next, Operation, TransactionFails, Reconcile, Crash

LEMMA AInvInit == Init => AInv
<1> SUFFICES ASSUME Init PROVE AInv
  OBVIOUS
<1>1. OneThread /\ Current
  BY DEF Init, OneThread, Current, Owns, NoExec
<1>2. AttemptLeft
  BY LifecycleAssumption DEF Init, AttemptLeft
<1> QED
  BY <1>1, <1>2, InitType, InitSound DEF AInv

LEMMA AInvStep == Capacity = 1 /\ AInv /\ [Next]_vars => AInv'
<1> SUFFICES ASSUME Capacity = 1, AInv, [Next]_vars PROVE AInv'
  OBVIOUS
<1>1. TypeOK' /\ RowsSound'
  BY NextType, NextSound DEF AInv
<1>2. CASE Next
  BY <1>1, <1>2, OneThreadStep, CurrentStep, AttemptLeftStep DEF AInv
<1>3. CASE UNCHANGED vars
  BY <1>1, <1>3 DEF vars, AInv, OneThread, Current, Owns, AttemptLeft
<1> QED
  BY <1>2, <1>3

(* A ticket is never granted more than max_attempts attempts, however its   *)
(* leases are lost, when runners have one thread each: the settlement that  *)
(* asks for a retry (evaluation_service.py:489) counts as the row does.     *)
THEOREM AttemptsBoundedHolds ==
    ASSUME Capacity = 1
    PROVE  Spec => []AttemptsBounded
<1>1. AInv => AttemptsBounded
  BY DEF AInv, AttemptLeft, AttemptsBounded
<1>2. AInv /\ [Next]_vars => AInv'
  BY AInvStep
<1> QED
  BY <1>1, <1>2, AInvInit, PTL DEF Spec

(* With one thread per runner a result is always that of the latest claim:  *)
(* the check of worker_id (ticket_repository.py:204) is then one of claims. *)
THEOREM LatestClaimRecordsHolds ==
    ASSUME Capacity = 1
    PROVE  Spec => LatestClaimRecords
<1> DEFINE Latest == \A t \in Ticket : result'[t] # result[t] => result'[t].claim = claims[t]
<1>1. AInv /\ [Next]_vars => Latest
  <2> SUFFICES ASSUME AInv, [Next]_vars, NEW t \in Ticket, result'[t] # result[t]
               PROVE  result'[t].claim = claims[t]
    OBVIOUS
  <2>1. RowStep(t)
    BY NextRowStep DEF AInv
  <2>2. PICK n \in Claim, target \in SettleTarget : RowSettled(t, n, target)
    BY <2>1 DEF RowStep, RowRecovered, RowSwept, RowReset, RowClaimed, RowLeased
  <2>3. result'[t].claim = n
    BY <2>2 DEF RowSettled
  <2>4. n = claims[t]
    BY <2>2 DEF RowSettled, AInv, Current
  <2> QED
    BY <2>3, <2>4
<1>2. AInv /\ [Next]_vars => AInv'
  BY AInvStep
<1> QED
  BY <1>1, <1>2, AInvInit, PTL DEF Spec, LatestClaimRecords

-----------------------------------------------------------------------------
(* TicketLifecycle implements TicketVerdicts. *)
(* A ticket is CANCELLED, and a thread about to settle it so, only after    *)
(* its job's cancellation was requested.                                    *)

CancelledAsked ==
    \A t \in Ticket :
        /\ ticket[t].status = "CANCELLED" => job[JobOf[t]].cancel
        /\ \A n \in Claim : exec[t][n].pc = "cancelling" => job[JobOf[t]].cancel

(* A job that is through is listed under what its tickets came to. *)
ReportFollows == ReportSeen = Promise!Report(VerdictSeen)

(* The status recompute_progress gives is the one the promise lists. *)
LEMMA ListedStatus ==
    ASSUME NEW j \in Job, NEW tk, NEW cancel,
           \A t \in TicketsOf(j) : tk[t].status \in TicketStatus,
           \A t \in TicketsOf(j) : tk[t].status = "CANCELLED" => cancel,
           TicketsOf(j) # {}
    PROVE  LET seen == [t \in Ticket |-> IF tk[t].status \in Terminal THEN tk[t].status ELSE "open"]
               new  == ProgressStatus(cancel, Present(j, tk))
           IN  (IF new \in OpenJobStatus THEN "open" ELSE new) = Promise!Listed(j, seen)
<1> DEFINE seen == [t \in Ticket |-> IF tk[t].status \in Terminal THEN tk[t].status ELSE "open"]
           present == Present(j, tk)
           came == {seen[t] : t \in {u \in Ticket : JobOf[u] = j}}
           new == ProgressStatus(cancel, present)
<1>1. came = {IF s \in Terminal THEN s ELSE "open" : s \in present}
  BY DEF Present, TicketsOf
<1>2. present \subseteq TicketStatus /\ present # {}
  BY DEF Present
<1>3. "CANCELLED" \in present => cancel
  BY DEF Present
<1>4. Promise!Listed(j, seen) =
        IF "open" \in came THEN "open"
        ELSE IF "CANCELLED" \in came THEN "CANCELLED"
        ELSE IF "FAILED" \notin came THEN "COMPLETED"
        ELSE IF came = {"FAILED"} THEN "FAILED" ELSE "PARTIAL_FAILED"
  BY DEF Promise!Listed
<1> HIDE DEF seen, present, came
<1>5. CASE ~(present \subseteq Terminal)
  <2>1. "open" \in came
    BY <1>1, <1>5
  <2>2. new \in OpenJobStatus
    BY <1>5 DEF ProgressStatus, OpenJobStatus
  <2> QED
    BY <1>4, <2>1, <2>2 DEF seen, present
<1>6. CASE present \subseteq Terminal
  <2>1. came = present
    BY <1>1, <1>6
  <2>2. "open" \notin present
    BY <1>6 DEF Terminal
  <2>3. new \notin OpenJobStatus /\ new = Promise!Listed(j, seen)
    BY <1>2, <1>3, <1>4, <1>6, <2>1, <2>2 DEF ProgressStatus, OpenJobStatus, Terminal
  <2> QED
    BY <2>3 DEF seen, present
<1> QED
  BY <1>5, <1>6

-----------------------------------------------------------------------------
(* CancelledAsked is preserved.                                             *)

(* Recomputing a job row leaves its cancellation request alone. *)
LEMMA RecomputedCancel ==
    ASSUME job \in [Job -> JobRow], NEW J, NEW tk, NEW j \in Job
    PROVE  RecomputeJobs(J, tk)[j].cancel = job[j].cancel
<1>1. \A row \in JobRow : Recomputed(row, j, tk).cancel = row.cancel
  BY DEF Recomputed, JobRow
<1> QED
  BY <1>1 DEF RecomputeJobs

(* A request to cancel is never taken back, and only CancelJob makes one. *)
LEMMA CancelKept ==
    ASSUME TypeOK, [Next]_vars
    PROVE  \/ \A j \in Job : job'[j].cancel = job[j].cancel
           \/ \E j \in Job : CancelJob(j)
<1>1. ASSUME NEW t \in Ticket, NEW n \in Claim, ThreadStep(t, n)
      PROVE  \A j \in Job : job'[j].cancel = job[j].cancel
  <2>1. job' = job \/ job' = RecomputeJobs({JobOf[t]}, ticket')
    BY <1>1, ThreadStepCases DEF Settle
  <2> QED
    BY <2>1, RecomputedCancel DEF TypeOK
<1>2. ASSUME NEW w \in Worker, NEW S \in SUBSET Ticket, ClaimTickets(w, S)
      PROVE  \A j \in Job : job'[j].cancel = job[j].cancel
  BY <1>2 DEF ClaimTickets, MarkRunning, TypeOK, JobRow
<1>3. ASSUME NEW S \in SUBSET Ticket, NEW C \in SUBSET Ticket, Recover(S, C)
      PROVE  \A j \in Job : job'[j].cancel = job[j].cancel
  BY <1>3, RecomputedCancel DEF Recover, TypeOK
<1>4. CASE Reconcile
  BY <1>4, RecomputedCancel DEF Reconcile, TypeOK
<1>5. ASSUME NEW i \in Job, RetryFailedTickets(i)
      PROVE  \A j \in Job : job'[j].cancel = job[j].cancel
  BY <1>5, RecomputedCancel DEF RetryFailedTickets, TypeOK
<1>6. CASE UNCHANGED job
  BY <1>6
<1> QED
  BY <1>1, <1>2, <1>3, <1>4, <1>5, <1>6
     DEF Next, Operation, TransactionFails, Heartbeat, LeaseExpires, Crash, vars

(* What CancelJob makes of the job rows. *)
LEMMA CancelJobRows ==
    ASSUME TypeOK, NEW j \in Job, CancelJob(j), NEW i \in Job
    PROVE  /\ i # j => job'[i] = job[i]
           /\ i = j => /\ job'[i].cancel
                       /\ job'[i].status = ProgressStatus(TRUE, Present(j, ticket'))
<1>1. \A row \in JobRow : /\ [row EXCEPT !.cancel = TRUE] \in JobRow
                          /\ [row EXCEPT !.cancel = TRUE].cancel
  BY DEF JobRow
<1>2. \A row \in JobRow : /\ Recomputed(row, j, ticket').cancel = row.cancel
                          /\ Recomputed(row, j, ticket').status
                               = ProgressStatus(row.cancel, Present(j, ticket'))
  BY DEF Recomputed, JobRow
<1>3. job' = [job EXCEPT ![j] = Recomputed([@ EXCEPT !.cancel = TRUE], j, ticket')]
  BY DEF CancelJob
<1>4. job[j] \in JobRow
  BY DEF TypeOK
<1>5. CASE i = j
  <2> DEFINE asked == [job[j] EXCEPT !.cancel = TRUE]
  <2>1. asked \in JobRow /\ asked.cancel = TRUE
    BY <1>1, <1>4, Zenon DEF JobRow
  <2>2. job'[i] = Recomputed(asked, j, ticket')
    BY <1>3, <1>5 DEF TypeOK
  <2> HIDE DEF asked
  <2> QED
    BY <1>2, <1>5, <2>1, <2>2
<1>6. CASE i # j
  BY <1>3, <1>6 DEF TypeOK
<1> QED
  BY <1>5, <1>6

(* A request to cancel is never taken back. *)
LEMMA CancelStays ==
    ASSUME TypeOK, [Next]_vars, NEW j \in Job, job[j].cancel
    PROVE  job'[j].cancel
<1>1. ASSUME NEW i \in Job, CancelJob(i)
      PROVE  job'[j].cancel
  BY <1>1, CancelJobRows
<1> QED
  BY <1>1, CancelKept

(* Only Load sends a thread to settle its ticket as CANCELLED. *)
NotToCancelling(e) ==
    \A t \in Ticket, n \in Claim : e[t][n].pc = "cancelling" => exec[t][n].pc = "cancelling"

LEMMA ThreadEnds ==
    ASSUME TypeOK, NEW u \in Ticket, NEW m \in Claim
    PROVE  /\ \A pc \in ThreadState \ {"cancelling"} : NotToCancelling(Goto(u, m, pc))
           /\ NotToCancelling(Ended(u, m))
           /\ NotToCancelling(AfterError(u, m))
<1>1. \A e \in Exec, pc \in ThreadState : [e EXCEPT !.pc = pc].pc = pc
  BY DEF Exec
<1>2. ASSUME NEW new, new.pc # "cancelling"
      PROVE  NotToCancelling([exec EXCEPT ![u][m] = new])
  BY <1>2 DEF NotToCancelling, TypeOK
<1>3. ASSUME NEW pc \in ThreadState \ {"cancelling"}
      PROVE  NotToCancelling(Goto(u, m, pc))
  <2>1. exec[u][m] \in Exec
    BY DEF TypeOK
  <2> DEFINE new == [exec[u][m] EXCEPT !.pc = pc]
  <2>2. new.pc # "cancelling"
    BY <1>1, <2>1
  <2>3. Goto(u, m, pc) = [exec EXCEPT ![u][m] = new]
    BY DEF Goto
  <2> HIDE DEF new
  <2> QED
    BY <1>2, <2>2, <2>3
<1>4. NotToCancelling(Ended(u, m))
  BY <1>2 DEF Ended, NoExec
<1> QED
  BY <1>3, <1>4 DEF AfterError, ThreadState

LEMMA CancellingArises ==
    ASSUME TypeOK, [Next]_vars, NEW t \in Ticket, NEW n \in Claim,
           exec'[t][n].pc = "cancelling"
    PROVE  \/ exec[t][n].pc = "cancelling"
           \/ job[JobOf[t]].cancel
           \/ job[JobOf[t]].status = "CANCELLED"
<1> DEFINE Asked == \/ exec[t][n].pc = "cancelling"
                    \/ job[JobOf[t]].cancel
                    \/ job[JobOf[t]].status = "CANCELLED"
<1>1. CASE NotToCancelling(exec')
  BY <1>1 DEF NotToCancelling
<1>2. ASSUME NEW u \in Ticket, NEW m \in Claim,
             exec' \in {Ended(u, m), AfterError(u, m)}
      PROVE  Asked
  BY <1>1, <1>2, ThreadEnds
<1>3. ASSUME NEW u \in Ticket, NEW m \in Claim, NEW target, Settle(u, m, target)
      PROVE  Asked
  BY <1>2, <1>3 DEF Settle
<1>4. ASSUME NEW u \in Ticket, NEW m \in Claim, ThreadStep(u, m)
      PROVE  Asked
  <2>1. CASE Load(u, m)
    <3>1. CASE job[JobOf[u]].cancel \/ job[JobOf[u]].status = "CANCELLED"
      <4>1. exec' = Goto(u, m, "cancelling")
        BY <2>1, <3>1 DEF Load
      <4> QED
        BY <3>1, <4>1 DEF Goto, TypeOK
    <3>2. CASE ~(job[JobOf[u]].cancel \/ job[JobOf[u]].status = "CANCELLED")
      <4>1. exec' = Goto(u, m, "evaluating")
        BY <2>1, <3>2 DEF Load
      <4> QED
        BY <1>1, <4>1, ThreadEnds DEF ThreadState
    <3> QED
      BY <3>1, <3>2
  <2>2. CASE EvaluationRaises(u, m)
    BY <1>1, <2>2, ThreadEnds DEF EvaluationRaises, ThreadState
  <2> QED
    BY <1>3, <1>4, <2>1, <2>2
       DEF ThreadStep, SettleCancelled, PersistOutput, HandleTransient, GiveUp, Persist
<1>5. ASSUME NEW w \in Worker, NEW S \in SUBSET Ticket, ClaimTickets(w, S)
      PROVE  Asked
  <2>1. \/ exec' = exec
        \/ exec' = [u \in Ticket |->
                     IF u \in S
                       THEN [exec[u] EXCEPT ![claims[u] + 1] =
                               [pc |-> "claimed", worker |-> w,
                                attempt |-> ticket[u].attempt + 1]]
                       ELSE exec[u]]
    BY <1>5 DEF ClaimTickets
  <2> DEFINE new(u) == [pc |-> "claimed", worker |-> w, attempt |-> ticket[u].attempt + 1]
  <2>2. \A u \in Ticket : new(u).pc # "cancelling"
    OBVIOUS
  <2> HIDE DEF new
  <2>3. ASSUME NEW u \in Ticket, NEW m \in Claim, exec'[u][m].pc = "cancelling"
        PROVE  exec[u][m].pc = "cancelling"
    <3>1. \/ exec'[u] = exec[u]
          \/ exec'[u] = [exec[u] EXCEPT ![claims[u] + 1] = new(u)]
      BY <2>1 DEF new
    <3>2. exec[u] \in [Claim -> Exec]
      BY DEF TypeOK
    <3> QED
      BY <2>2, <2>3, <3>1, <3>2
  <2>4. NotToCancelling(exec')
    BY <2>3 DEF NotToCancelling
  <2> QED
    BY <1>1, <2>4
<1>6. ASSUME NEW w \in Worker, Crash(w)
      PROVE  Asked
  <2>1. NotToCancelling(exec')
    BY <1>6 DEF Crash, NotToCancelling, NoExec
  <2> QED
    BY <1>1, <2>1
<1>7. ASSUME NEW u \in Ticket, NEW m \in Claim, TransactionFails(u, m)
      PROVE  Asked
  BY <1>2, <1>7 DEF TransactionFails
<1>8. CASE exec' = exec
  BY <1>8
<1> QED
  BY <1>4, <1>5, <1>6, <1>7, <1>8
     DEF Next, Operation, Heartbeat, LeaseExpires, Recover, Reconcile, CancelJob,
         RetryFailedTickets, vars

(* A ticket becomes CANCELLED only when the cancellation was requested. *)
LEMMA CancelledArises ==
    ASSUME TypeOK, CancelledAsked, [Next]_vars, NEW t \in Ticket,
           ticket'[t].status = "CANCELLED", ticket[t].status # "CANCELLED"
    PROVE  job'[JobOf[t]].cancel
<1>1. JobOf[t] \in Job /\ ticket[t] \in TicketRow
  BY LifecycleAssumption DEF TypeOK
<1>2. CASE job[JobOf[t]].cancel
  BY <1>1, <1>2, CancelStays
<1>3. ASSUME NEW u \in Ticket, NEW n \in Claim, ThreadStep(u, n)
      PROVE  job'[JobOf[t]].cancel
  <2>1. CASE ticket' = ticket
    BY <2>1
  <2>2. ASSUME NEW target \in SettleTarget, Settle(u, n, target),
               \/ target # "CANCELLED"
               \/ job[JobOf[u]].cancel \/ exec[u][n].pc = "cancelling"
        PROVE  job'[JobOf[t]].cancel
    <3>1. CASE ticket' = [ticket EXCEPT ![u] = SettledRow(@, target)]
      <4>1. u = t
        BY <3>1 DEF TypeOK
      <4>2. ticket'[t].status = target
        BY <1>1, <3>1, <4>1 DEF SettledRow, TypeOK, TicketRow
      <4>3. job[JobOf[u]].cancel
        BY <2>2, <4>2 DEF CancelledAsked
      <4> QED
        BY <1>2, <4>1, <4>3
    <3> QED
      BY <2>1, <2>2, <3>1 DEF Settle
  <2> QED
    BY <1>3, <2>1, <2>2, ThreadStepCases
<1>4. ASSUME NEW S \in SUBSET Ticket, NEW C \in SUBSET Ticket, Recover(S, C)
      PROVE  job'[JobOf[t]].cancel
  <2>1. CASE t \in S
    <3>1. ticket'[t] = RecoveredRow(ticket[t], job[JobOf[t]].cancel, MaxAttempts[t])
      BY <1>4, <2>1 DEF Recover
    <3>2. job[JobOf[t]].cancel
      BY <1>1, <3>1 DEF RecoveredRow, TicketRow
    <3> QED
      BY <1>2, <3>2
  <2>2. CASE t \in C
    BY <1>2, <1>4, <2>2 DEF Recover
  <2>3. CASE t \notin S \cup C
    BY <1>4, <2>3 DEF Recover
  <2> QED
    BY <2>1, <2>2, <2>3
<1>5. ASSUME NEW j \in Job, CancelJob(j)
      PROVE  job'[JobOf[t]].cancel
  <2>1. JobOf[t] = j
    BY <1>5 DEF CancelJob
  <2> QED
    BY <1>5, <2>1, CancelJobRows
<1>6. ASSUME NEW w \in Worker, NEW S \in SUBSET Ticket, ClaimTickets(w, S)
      PROVE  job'[JobOf[t]].cancel
  <2>1. ClaimedRow(ticket[t], w).status = "RUNNING"
    BY <1>1 DEF ClaimedRow, TicketRow
  <2> QED
    BY <1>6, <2>1 DEF ClaimTickets
<1>7. ASSUME NEW j \in Job, RetryFailedTickets(j)
      PROVE  job'[JobOf[t]].cancel
  <2>1. ResetRow(ticket[t]).status = "READY"
    BY <1>1 DEF ResetRow, TicketRow
  <2> QED
    BY <1>7, <2>1 DEF RetryFailedTickets
<1>8. ASSUME NEW u \in Ticket, LeaseExpires(u) \/ \E n \in Claim : Heartbeat(u, n)
      PROVE  job'[JobOf[t]].cancel
  <2>1. PICK l \in {"live", "expired"} : ticket' = [ticket EXCEPT ![u] = Leased(@, l)]
    BY <1>8 DEF LeaseExpires, Heartbeat, Leased
  <2>2. Leased(ticket[t], l).status = ticket[t].status
    BY <1>1 DEF Leased, TicketRow
  <2> QED
    BY <2>1, <2>2 DEF TypeOK
<1>9. CASE ticket' = ticket
  BY <1>9
<1> QED
  BY <1>3, <1>4, <1>5, <1>6, <1>7, <1>8, <1>9
     DEF Next, Operation, TransactionFails, Reconcile, Crash, vars

LEMMA NextAsked ==
    TypeOK /\ ProgressExact /\ CancelledAsked /\ [Next]_vars => CancelledAsked'
<1> SUFFICES ASSUME TypeOK, ProgressExact, CancelledAsked, [Next]_vars, NEW t \in Ticket
             PROVE  /\ ticket'[t].status = "CANCELLED" => job'[JobOf[t]].cancel
                    /\ \A n \in Claim :
                          exec'[t][n].pc = "cancelling" => job'[JobOf[t]].cancel
  BY DEF CancelledAsked
<1>1. JobOf[t] \in Job
  BY LifecycleAssumption
<1>2. ASSUME job[JobOf[t]].status = "CANCELLED"
      PROVE  job[JobOf[t]].cancel
  <2>1. Cardinality({u \in TicketsOf(JobOf[t]) : ticket[u].status = "CANCELLED"}) > 0
    BY <1>1, <1>2 DEF ProgressExact, Terminal
  <2>2. {u \in TicketsOf(JobOf[t]) : ticket[u].status = "CANCELLED"} # {}
    BY <2>1, FS_EmptySet
  <2> QED
    BY <2>2 DEF CancelledAsked, TicketsOf
<1>3. ticket'[t].status = "CANCELLED" => job'[JobOf[t]].cancel
  BY <1>1, CancelledArises, CancelStays DEF CancelledAsked
<1>4. ASSUME NEW n \in Claim, exec'[t][n].pc = "cancelling"
      PROVE  job'[JobOf[t]].cancel
  BY <1>1, <1>2, <1>4, CancellingArises, CancelStays DEF CancelledAsked
<1> QED
  BY <1>3, <1>4

-----------------------------------------------------------------------------
(* ReportFollows is preserved.                                              *)

(* What is listed of a job depends on its own tickets only. *)
LEMMA ListedFrame ==
    ASSUME NEW j \in Job, NEW v, NEW v2, \A t \in TicketsOf(j) : v2[t] = v[t]
    PROVE  Promise!Listed(j, v2) = Promise!Listed(j, v)
<1>1. {v2[t] : t \in TicketsOf(j)} = {v[t] : t \in TicketsOf(j)}
  OBVIOUS
<1> QED
  BY <1>1 DEF Promise!Listed, TicketsOf

(* A job whose tickets look the same and that is as open as before. *)
LEMMA ReportFrame ==
    ASSUME ReportFollows, NEW j \in Job,
           \/ job'[j].status = job[j].status
           \/ job'[j].status \in OpenJobStatus /\ job[j].status \in OpenJobStatus,
           \A t \in TicketsOf(j) : VerdictSeen'[t] = VerdictSeen[t]
    PROVE  ReportSeen'[j] = Promise!Listed(j, VerdictSeen')
<1>1. ReportSeen[j] = Promise!Listed(j, VerdictSeen)
  BY DEF ReportFollows, Promise!Report
<1>2. Promise!Listed(j, VerdictSeen') = Promise!Listed(j, VerdictSeen)
  BY ListedFrame
<1>3. ReportSeen'[j] = ReportSeen[j]
  BY DEF ReportSeen
<1> QED
  BY <1>1, <1>2, <1>3

(* A job recomputed from the rows the step leaves. *)
LEMMA ReportRecomputed ==
    ASSUME TypeOK', CancelledAsked', NEW j \in Job,
           job'[j].status = ProgressStatus(job'[j].cancel, Present(j, ticket'))
    PROVE  ReportSeen'[j] = Promise!Listed(j, VerdictSeen')
<1>1. \A t \in TicketsOf(j) : /\ ticket'[t].status \in TicketStatus
                              /\ ticket'[t].status = "CANCELLED" => job'[j].cancel
  BY DEF TypeOK, TicketRow, CancelledAsked, TicketsOf
<1>2. TicketsOf(j) # {}
  BY LifecycleAssumption DEF TicketsOf
<1>3. (IF job'[j].status \in OpenJobStatus THEN "open" ELSE job'[j].status)
        = Promise!Listed(j, VerdictSeen')
  BY <1>1, <1>2, ListedStatus DEF VerdictSeen
<1> QED
  BY <1>3 DEF ReportSeen

LEMMA ReportStep ==
    ASSUME TypeOK, TypeOK', CancelledAsked', ReportFollows, NEW J,
           job' = RecomputeJobs(J, ticket'),
           \A t \in Ticket : JobOf[t] \notin J => ticket'[t] = ticket[t]
    PROVE  ReportFollows'
<1>1. ASSUME NEW j \in Job
      PROVE  ReportSeen'[j] = Promise!Listed(j, VerdictSeen')
  <2>1. CASE j \in J
    <3>1. \A row \in JobRow : /\ Recomputed(row, j, ticket').cancel = row.cancel
                              /\ Recomputed(row, j, ticket').status
                                   = ProgressStatus(row.cancel, Present(j, ticket'))
      BY DEF Recomputed, JobRow
    <3>2. job'[j] = Recomputed(job[j], j, ticket') /\ job[j] \in JobRow
      BY <2>1 DEF RecomputeJobs, TypeOK
    <3> QED
      BY <3>1, <3>2, ReportRecomputed
  <2>2. CASE j \notin J
    <3>1. job'[j] = job[j] /\ \A t \in TicketsOf(j) : ticket'[t] = ticket[t]
      BY <2>2 DEF RecomputeJobs, TicketsOf
    <3>2. \A t \in TicketsOf(j) : VerdictSeen'[t] = VerdictSeen[t]
      BY <3>1 DEF VerdictSeen, TicketsOf
    <3> QED
      BY <3>1, <3>2, ReportFrame
  <2> QED
    BY <2>1, <2>2
<1> QED
  BY <1>1 DEF ReportFollows, Promise!Report, ReportSeen

(* Tickets that look the same, jobs that are as open as before. *)
LEMMA ReportUnchanged ==
    ASSUME ReportFollows, VerdictSeen' = VerdictSeen,
           \A j \in Job :
              \/ job'[j].status = job[j].status
              \/ job'[j].status \in OpenJobStatus /\ job[j].status \in OpenJobStatus
    PROVE  ReportFollows'
<1>1. \A j \in Job : ReportSeen'[j] = Promise!Listed(j, VerdictSeen')
  BY ReportFrame
<1> QED
  BY <1>1 DEF ReportFollows, Promise!Report, ReportSeen

(* Claims and leases change nothing an observer sees of the tickets. *)
LEMMA ClaimSeen ==
    ASSUME TypeOK, NEW w \in Worker, NEW S \in SUBSET Ticket, ClaimTickets(w, S)
    PROVE  VerdictSeen' = VerdictSeen /\ ResultSeen' = ResultSeen
<1> SUFFICES ASSUME NEW t \in Ticket
             PROVE  VerdictSeen'[t] = VerdictSeen[t] /\ ResultSeen'[t] = ResultSeen[t]
  BY DEF VerdictSeen, ResultSeen
<1>1. result' = result /\ ticket[t] \in TicketRow
  BY DEF ClaimTickets, TypeOK
<1>2. CASE t \in S
  <2>1. ticket[t].status \in Pending /\ ticket'[t] = ClaimedRow(ticket[t], w)
    BY <1>2 DEF ClaimTickets, Claimable
  <2>2. ticket'[t].status = "RUNNING" /\ ticket'[t].linked = ticket[t].linked
    BY <1>1, <2>1 DEF ClaimedRow, TicketRow
  <2> QED
    BY <1>1, <2>1, <2>2 DEF VerdictSeen, ResultSeen, Pending, Terminal
<1>3. CASE t \notin S
  BY <1>1, <1>3 DEF ClaimTickets, VerdictSeen, ResultSeen
<1> QED
  BY <1>2, <1>3

LEMMA LeaseSeen ==
    ASSUME TypeOK, NEW u \in Ticket, LeaseExpires(u) \/ \E n \in Claim : Heartbeat(u, n)
    PROVE  VerdictSeen' = VerdictSeen /\ ResultSeen' = ResultSeen
<1>1. PICK l \in {"live", "expired"} : ticket' = [ticket EXCEPT ![u] = Leased(@, l)]
  BY DEF LeaseExpires, Heartbeat, Leased
<1>2. \A row \in TicketRow : /\ Leased(row, l).status = row.status
                             /\ Leased(row, l).linked = row.linked
  BY DEF Leased, TicketRow
<1>3. \A t \in Ticket : /\ ticket'[t].status = ticket[t].status
                        /\ ticket'[t].linked = ticket[t].linked
  BY <1>1, <1>2 DEF TypeOK
<1>4. result' = result
  BY DEF LeaseExpires, Heartbeat
<1> QED
  BY <1>3, <1>4 DEF VerdictSeen, ResultSeen

LEMMA NextReport ==
    ASSUME TypeOK, TypeOK', CancelledAsked', ReportFollows, [Next]_vars
    PROVE  ReportFollows'
<1>1. ASSUME NEW t \in Ticket, NEW n \in Claim, ThreadStep(t, n)
      PROVE  ReportFollows'
  <2>1. CASE UNCHANGED <<job, ticket>>
    <3>1. VerdictSeen' = VerdictSeen
      BY <2>1 DEF VerdictSeen
    <3> QED
      BY <2>1, <3>1, ReportUnchanged
  <2>2. ASSUME NEW target \in SettleTarget, Settle(t, n, target)
        PROVE  ReportFollows'
    <3>1. CASE /\ ticket' = [ticket EXCEPT ![t] = SettledRow(@, target)]
               /\ job' = RecomputeJobs({JobOf[t]}, ticket')
      <4>1. \A u \in Ticket : JobOf[u] \notin {JobOf[t]} => ticket'[u] = ticket[u]
        BY <3>1 DEF TypeOK
      <4> QED
        BY <3>1, <4>1, ReportStep
    <3> QED
      BY <2>1, <2>2, <3>1 DEF Settle
  <2> QED
    BY <1>1, <2>1, <2>2, ThreadStepCases
<1>2. ASSUME NEW w \in Worker, NEW S \in SUBSET Ticket, ClaimTickets(w, S)
      PROVE  ReportFollows'
  <2>1. ASSUME NEW j \in Job
        PROVE  \/ job'[j].status = job[j].status
               \/ job'[j].status \in OpenJobStatus /\ job[j].status \in OpenJobStatus
    BY <1>2 DEF ClaimTickets, MarkRunning, TypeOK, JobRow, OpenJobStatus
  <2> QED
    BY <1>2, <2>1, ClaimSeen, ReportUnchanged
<1>3. ASSUME NEW S \in SUBSET Ticket, NEW C \in SUBSET Ticket, Recover(S, C)
      PROVE  ReportFollows'
  <2>1. \A t \in Ticket : JobOf[t] \notin {JobOf[u] : u \in S \cup C} => ticket'[t] = ticket[t]
    BY <1>3 DEF Recover
  <2> QED
    BY <1>3, <2>1, ReportStep DEF Recover
<1>4. CASE Reconcile
  <2> DEFINE J == {JobOf[t] : t \in {u \in Ticket : ticket[u].status \notin Terminal}}
  <2>1. ticket' = ticket /\ job' = RecomputeJobs(J, ticket')
    BY <1>4 DEF Reconcile
  <2> QED
    BY <2>1, ReportStep
<1>5. ASSUME NEW j \in Job, RetryFailedTickets(j)
      PROVE  ReportFollows'
  <2>1. \A t \in Ticket : JobOf[t] \notin {j} => ticket'[t] = ticket[t]
    BY <1>5 DEF RetryFailedTickets
  <2> QED
    BY <1>5, <2>1, ReportStep DEF RetryFailedTickets
<1>6. ASSUME NEW j \in Job, CancelJob(j)
      PROVE  ReportFollows'
  <2>1. ASSUME NEW i \in Job
        PROVE  ReportSeen'[i] = Promise!Listed(i, VerdictSeen')
    <3>1. CASE i = j
      <4>1. job'[i].cancel = TRUE
        BY <1>6, <3>1, CancelJobRows DEF TypeOK, JobRow
      <4>2. job'[i].status = ProgressStatus(job'[i].cancel, Present(i, ticket'))
        BY <1>6, <3>1, <4>1, CancelJobRows
      <4> QED
        BY <4>2, ReportRecomputed
    <3>2. CASE i # j
      <4>1. \A t \in TicketsOf(i) : ticket'[t] = ticket[t]
        BY <1>6, <3>2 DEF CancelJob, TicketsOf
      <4>2. \A t \in TicketsOf(i) : VerdictSeen'[t] = VerdictSeen[t]
        BY <4>1 DEF VerdictSeen, TicketsOf
      <4>3. job'[i] = job[i]
        BY <1>6, <3>2, CancelJobRows
      <4> QED
        BY <4>2, <4>3, ReportFrame
    <3> QED
      BY <3>1, <3>2
  <2> QED
    BY <2>1 DEF ReportFollows, Promise!Report, ReportSeen
<1>7. ASSUME NEW u \in Ticket, LeaseExpires(u) \/ \E n \in Claim : Heartbeat(u, n)
      PROVE  ReportFollows'
  <2>1. job' = job
    BY <1>7 DEF LeaseExpires, Heartbeat
  <2> QED
    BY <1>7, <2>1, LeaseSeen, ReportUnchanged
<1>8. CASE UNCHANGED <<job, ticket>>
  <2>1. VerdictSeen' = VerdictSeen
    BY <1>8 DEF VerdictSeen
  <2> QED
    BY <1>8, <2>1, ReportUnchanged
<1> QED
  BY <1>1, <1>2, <1>3, <1>4, <1>5, <1>6, <1>7, <1>8
     DEF Next, Operation, TransactionFails, Crash, vars

-----------------------------------------------------------------------------
(* Every step is one of the abstract queue, or not seen at all.             *)

SeenVars == <<VerdictSeen, ResultSeen, CancelSeen, ReportSeen>>

Inv == TypeOK /\ RowsSound /\ ProgressExact /\ CancelledAsked /\ ReportFollows

(* What a ticket shows, from its row and its result row. *)
SeenOf(row) == IF row.status \in Terminal THEN row.status ELSE "open"
ShownOf(row, res) == IF row.linked THEN res.verdict ELSE "none"

Kept(t) == VerdictSeen'[t] = VerdictSeen[t] /\ ResultSeen'[t] = ResultSeen[t]

Settled(t) ==
    /\ VerdictSeen[t] = "open"
    /\ VerdictSeen'[t] \in Terminal
    /\ VerdictSeen'[t] = "CANCELLED" <=> job[JobOf[t]].cancel
    /\ Promise!Shows(VerdictSeen'[t], ResultSeen'[t])

(* The rows of a RUNNING or pending ticket before and after it is settled. *)
LEMMA SeenOperations ==
    ASSUME NEW row \in TicketRow, NEW res \in ResultRow, Sound(row, res),
           row.status \in Pending \cup {"RUNNING"}
    PROVE  /\ SeenOf(row) = "open" /\ ~row.linked
           /\ \A target \in SettleTarget, n \in Claim :
                LET new == SettledRow(row, target)
                    res2 == IF target \in Verdict THEN [claim |-> n, verdict |-> target] ELSE res
                IN  IF target = "RETRY"
                      THEN SeenOf(new) = "open" /\ ShownOf(new, res2) = "none"
                      ELSE SeenOf(new) = target /\ Promise!Shows(target, ShownOf(new, res2))
           /\ \A cancel \in BOOLEAN, max \in Nat :
                LET new == RecoveredRow(row, cancel, max) IN
                /\ SeenOf(new) \in {"open", "CANCELLED", "FAILED"}
                /\ SeenOf(new) # "open" => (SeenOf(new) = "CANCELLED" <=> cancel)
                /\ ShownOf(new, res) = "none"
           /\ SeenOf(SweptRow(row)) = "CANCELLED" /\ ShownOf(SweptRow(row), res) = "none"
<1> USE DEF SeenOf, ShownOf, TicketRow, Sound, Terminal, Pending, Verdict
<1>1. SeenOf(row) = "open" /\ ~row.linked
  OBVIOUS
<1>2. ASSUME NEW target \in SettleTarget, NEW n \in Claim
      PROVE  LET new == SettledRow(row, target)
                 res2 == IF target \in Verdict THEN [claim |-> n, verdict |-> target] ELSE res
             IN  IF target = "RETRY"
                   THEN SeenOf(new) = "open" /\ ShownOf(new, res2) = "none"
                   ELSE SeenOf(new) = target /\ Promise!Shows(target, ShownOf(new, res2))
  <2> DEFINE new == SettledRow(row, target)
  <2>1. /\ new.status = target
        /\ new.linked = IF target \in Verdict THEN TRUE ELSE row.linked
    BY DEF SettledRow
  <2> HIDE DEF new
  <2>2. target = "RETRY" => SeenOf(new) = "open" /\ ~new.linked
    BY <1>1, <2>1
  <2>3. target \in Verdict => SeenOf(new) = target /\ new.linked
    BY <2>1
  <2>4. target = "CANCELLED" => SeenOf(new) = target /\ ~new.linked
    BY <1>1, <2>1
  <2> QED
    BY <2>2, <2>3, <2>4 DEF SettleTarget, Promise!Shows, new
<1>3. ASSUME NEW cancel \in BOOLEAN, NEW max \in Nat
      PROVE  LET new == RecoveredRow(row, cancel, max) IN
             /\ SeenOf(new) \in {"open", "CANCELLED", "FAILED"}
             /\ SeenOf(new) # "open" => (SeenOf(new) = "CANCELLED" <=> cancel)
             /\ ShownOf(new, res) = "none"
  <2> DEFINE new == RecoveredRow(row, cancel, max)
  <2>1. /\ new.status = IF cancel THEN "CANCELLED"
                        ELSE IF row.attempt >= max THEN "FAILED" ELSE "RETRY"
        /\ new.linked = row.linked
    BY DEF RecoveredRow
  <2> HIDE DEF new
  <2>2. /\ SeenOf(new) \in {"open", "CANCELLED", "FAILED"}
        /\ SeenOf(new) # "open" => (SeenOf(new) = "CANCELLED" <=> cancel)
        /\ ShownOf(new, res) = "none"
    BY <1>1, <2>1
  <2> QED
    BY <2>2 DEF new
<1>4. SeenOf(SweptRow(row)) = "CANCELLED" /\ ShownOf(SweptRow(row), res) = "none"
  BY <1>1 DEF SweptRow
<1> HIDE DEF SeenOf, ShownOf, TicketRow, Sound, Terminal, Pending, Verdict
<1> QED
  BY <1>1, <1>2, <1>3, <1>4

LEMMA SeenRows ==
    ASSUME NEW t \in Ticket
    PROVE  /\ VerdictSeen[t] = SeenOf(ticket[t]) /\ VerdictSeen'[t] = SeenOf(ticket'[t])
           /\ ResultSeen[t] = ShownOf(ticket[t], result[t])
           /\ ResultSeen'[t] = ShownOf(ticket'[t], result'[t])
BY DEF VerdictSeen, ResultSeen, SeenOf, ShownOf

(* If every ticket is settled by the rules or left as it looks, the whole  *)
(* step is a settlement or is not seen.                                    *)
LEMMA SettlementSeen ==
    ASSUME ReportFollows, ReportFollows', CancelSeen' = CancelSeen,
           \A t \in Ticket : Kept(t) \/ Settled(t)
    PROVE  [Promise!Next]_SeenVars
<1> DEFINE S == {t \in Ticket : ~Kept(t)}
           V == VerdictSeen'
           R == ResultSeen'
<1>1. CASE S = {}
  <2>1. VerdictSeen' = VerdictSeen /\ ResultSeen' = ResultSeen
    BY <1>1 DEF Kept, VerdictSeen, ResultSeen
  <2>2. ReportSeen' = ReportSeen
    BY <2>1 DEF ReportFollows
  <2> QED
    BY <2>1, <2>2 DEF SeenVars
<1>2. CASE S # {}
  <2>1. \A t \in S : /\ VerdictSeen[t] = "open"
                     /\ V[t] \in Promise!Final
                     /\ V[t] = "CANCELLED" <=> CancelSeen[JobOf[t]]
                     /\ Promise!Shows(V[t], R[t])
    BY LifecycleAssumption DEF Settled, Promise!Final, Terminal, CancelSeen
  <2>2. /\ VerdictSeen' = [t \in Ticket |-> IF t \in S THEN V[t] ELSE VerdictSeen[t]]
        /\ ResultSeen' = [t \in Ticket |-> IF t \in S THEN R[t] ELSE ResultSeen[t]]
    BY DEF Kept, VerdictSeen, ResultSeen
  <2>3. ReportSeen' = Promise!Report(VerdictSeen')
    BY DEF ReportFollows
  <2> HIDE DEF S
  <2>4. Promise!Settle(S)
    BY <1>2, <2>1, <2>2, <2>3 DEF Promise!Settle
  <2> QED
    BY <2>4 DEF Promise!Next, S
<1> QED
  BY <1>1, <1>2

LEMMA NextSeen ==
    ASSUME Inv, ReportFollows', [Next]_vars
    PROVE  [Promise!Next]_SeenVars
<1>1. ASSUME NEW t \in Ticket
      PROVE  /\ ticket[t] \in TicketRow /\ result[t] \in ResultRow
             /\ Sound(ticket[t], result[t]) /\ JobOf[t] \in Job
             /\ job[JobOf[t]].cancel \in BOOLEAN /\ MaxAttempts[t] \in Nat
  BY LifecycleAssumption DEF Inv, TypeOK, RowsSound, JobRow
<1>2. ASSUME ~ \E j \in Job : CancelJob(j)
      PROVE  CancelSeen' = CancelSeen
  BY <1>2, CancelKept DEF Inv, CancelSeen
<1>3. ASSUME VerdictSeen' = VerdictSeen, ResultSeen' = ResultSeen,
             ~ \E j \in Job : CancelJob(j)
      PROVE  [Promise!Next]_SeenVars
  BY <1>2, <1>3 DEF Inv, ReportFollows, SeenVars
<1>4. ASSUME NEW j \in Job, CancelJob(j)
      PROVE  [Promise!Next]_SeenVars
  <2> DEFINE S == {t \in TicketsOf(j) : ticket[t].status \in Pending}
  <2>1. ReportSeen[j] \in {"open", "CANCELLED"}
    BY <1>4 DEF CancelJob, ReportSeen, Inv, TypeOK, JobRow, JobStatus, OpenJobStatus
  <2>2. CancelSeen' = [CancelSeen EXCEPT ![j] = TRUE]
    <3>1. \A i \in Job : job'[i].cancel = IF i = j THEN TRUE ELSE job[i].cancel
      <4>1. job' \in [Job -> JobRow]
        BY NextType DEF Inv, TypeOK
      <4> QED
        BY <1>4, <4>1, CancelJobRows DEF Inv, JobRow
    <3> QED
      BY <3>1 DEF CancelSeen
  <2>3. result' = result
    BY <1>4 DEF CancelJob
  <2>4. ASSUME NEW t \in Ticket
        PROVE  /\ VerdictSeen'[t] = IF t \in S THEN "CANCELLED" ELSE VerdictSeen[t]
               /\ ResultSeen'[t] = ResultSeen[t]
               /\ t \in S => VerdictSeen[t] = "open"
    <3>1. CASE t \in S
      <4>1. ticket'[t] = SweptRow(ticket[t]) /\ ticket[t].status \in Pending \cup {"RUNNING"}
        BY <1>4, <3>1 DEF CancelJob, TicketsOf
      <4>2. ShownOf(ticket[t], result[t]) = "none"
        BY <1>1, <4>1, SeenOperations DEF ShownOf
      <4> QED
        BY <1>1, <2>3, <3>1, <4>1, <4>2, SeenOperations, SeenRows
    <3>2. CASE t \notin S
      <4>1. ticket'[t] = ticket[t]
        BY <1>4, <3>2 DEF CancelJob, TicketsOf
      <4> QED
        BY <2>3, <3>2, <4>1, SeenRows
    <3> QED
      BY <3>1, <3>2
  <2>5. S \in SUBSET Promise!Open(j)
    BY <2>4 DEF Promise!Open, TicketsOf
  <2> HIDE DEF S
  <2>6. /\ VerdictSeen' = [t \in Ticket |-> IF t \in S THEN "CANCELLED" ELSE VerdictSeen[t]]
        /\ ResultSeen' = ResultSeen
    <3>1. VerdictSeen' = [t \in Ticket |-> VerdictSeen'[t]]
      BY DEF VerdictSeen
    <3>2. ResultSeen' = [t \in Ticket |-> ResultSeen'[t]] /\ ResultSeen = [t \in Ticket |-> ResultSeen[t]]
      BY DEF ResultSeen
    <3> QED
      BY <2>4, <3>1, <3>2
  <2>7. ReportSeen' = Promise!Report(VerdictSeen')
    BY DEF ReportFollows
  <2>8. Promise!Cancel(j)
    BY <2>1, <2>2, <2>5, <2>6, <2>7 DEF Promise!Cancel
  <2> QED
    BY <2>8 DEF Promise!Next
<1>5. ASSUME NEW j \in Job, RetryFailedTickets(j)
      PROVE  [Promise!Next]_SeenVars
  <2> DEFINE failed == {t \in Ticket : JobOf[t] = j /\ VerdictSeen[t] = "FAILED"}
  <2>1. \A t \in Ticket : VerdictSeen[t] = "FAILED" <=> ticket[t].status = "FAILED"
    BY DEF VerdictSeen, Terminal
  <2>2. ~CancelSeen[j] /\ failed # {}
    BY <1>5, <2>1 DEF RetryFailedTickets, CancelSeen, TicketsOf
  <2>3. CancelSeen' = CancelSeen
    <3>1. \A i \in Job : job'[i].cancel = job[i].cancel
      BY <1>5, RecomputedCancel DEF RetryFailedTickets, Inv, TypeOK
    <3> QED
      BY <3>1 DEF CancelSeen
  <2>4. ASSUME NEW t \in Ticket
        PROVE  /\ VerdictSeen'[t] = IF t \in failed THEN "open" ELSE VerdictSeen[t]
               /\ ResultSeen'[t] = IF t \in failed THEN "none" ELSE ResultSeen[t]
    <3>1. CASE t \in failed
      <4>1. ticket'[t] = ResetRow(ticket[t])
        BY <1>5, <2>1, <3>1 DEF RetryFailedTickets
      <4>2. ticket'[t].status = "READY" /\ ~ticket'[t].linked
        BY <1>1, <4>1 DEF ResetRow, TicketRow
      <4> QED
        BY <3>1, <4>2 DEF VerdictSeen, ResultSeen, Terminal
    <3>2. CASE t \notin failed
      <4>1. ticket'[t] = ticket[t] /\ result' = result
        BY <1>5, <2>1, <3>2 DEF RetryFailedTickets
      <4> QED
        BY <3>2, <4>1, SeenRows
    <3> QED
      BY <3>1, <3>2
  <2> HIDE DEF failed
  <2>5. /\ VerdictSeen' = [t \in Ticket |-> IF t \in failed THEN "open" ELSE VerdictSeen[t]]
        /\ ResultSeen' = [t \in Ticket |-> IF t \in failed THEN "none" ELSE ResultSeen[t]]
    <3>1. /\ VerdictSeen' = [t \in Ticket |-> VerdictSeen'[t]]
          /\ ResultSeen' = [t \in Ticket |-> ResultSeen'[t]]
      BY DEF VerdictSeen, ResultSeen
    <3> QED
      BY <2>4, <3>1
  <2>6. ReportSeen' = Promise!Report(VerdictSeen')
    BY DEF ReportFollows
  <2>7. Promise!Reopen(j)
    BY <2>2, <2>3, <2>5, <2>6 DEF Promise!Reopen, failed
  <2> QED
    BY <2>7 DEF Promise!Next
<1>6. ASSUME NEW t \in Ticket, NEW n \in Claim, ThreadStep(t, n), ~ \E j \in Job : CancelJob(j)
      PROVE  [Promise!Next]_SeenVars
  <2>1. CASE UNCHANGED <<ticket, result>>
    BY <1>3, <1>6, <2>1 DEF VerdictSeen, ResultSeen
  <2>2. ASSUME NEW target \in SettleTarget, Settle(t, n, target),
               job[JobOf[t]].cancel => target \in {"CANCELLED", "RETRY"},
               \/ target # "CANCELLED"
               \/ job[JobOf[t]].cancel \/ exec[t][n].pc = "cancelling"
        PROVE  [Promise!Next]_SeenVars
    <3>1. CASE /\ Owns(t, exec[t][n].worker)
               /\ ticket' = [ticket EXCEPT ![t] = SettledRow(@, target)]
               /\ result' = IF target \in Verdict
                              THEN [result EXCEPT ![t] = [claim |-> n, verdict |-> target]]
                              ELSE result
      <4>1. target = "CANCELLED" => job[JobOf[t]].cancel
        BY <2>2 DEF Inv, CancelledAsked
      <4>2. /\ ticket[t].status \in Pending \cup {"RUNNING"}
            /\ ticket'[t] = SettledRow(ticket[t], target)
            /\ result'[t] = IF target \in Verdict THEN [claim |-> n, verdict |-> target]
                                                  ELSE result[t]
        BY <3>1 DEF Owns, Inv, TypeOK
      <4>3. SeenOf(ticket[t]) = "open" /\ ShownOf(ticket[t], result[t]) = "none"
        BY <1>1, <4>2, SeenOperations DEF ShownOf
      <4>4. IF target = "RETRY"
              THEN SeenOf(ticket'[t]) = "open" /\ ShownOf(ticket'[t], result'[t]) = "none"
              ELSE /\ SeenOf(ticket'[t]) = target
                   /\ Promise!Shows(target, ShownOf(ticket'[t], result'[t]))
        BY <1>1, <4>2, SeenOperations
      <4>5. ASSUME target = "RETRY" PROVE Kept(t)
        BY <4>3, <4>4, <4>5, SeenRows DEF Kept
      <4>6. ASSUME target # "RETRY" PROVE Settled(t)
        <5>1. target \in Terminal /\ (target = "CANCELLED" <=> job[JobOf[t]].cancel)
          BY <2>2, <4>1, <4>6 DEF SettleTarget, Terminal
        <5> QED
          BY <4>3, <4>4, <4>6, <5>1, SeenRows DEF Settled
      <4>7. Kept(t) \/ Settled(t)
        BY <4>5, <4>6
      <4>8. ASSUME NEW u \in Ticket, u # t
            PROVE  Kept(u)
        <5>1. ticket'[u] = ticket[u] /\ result'[u] = result[u]
          BY <3>1, <4>8 DEF Inv, TypeOK
        <5> QED
          BY <5>1, SeenRows DEF Kept
      <4> QED
        BY <1>2, <1>6, <4>7, <4>8, SettlementSeen DEF Inv
    <3> QED
      BY <2>1, <2>2, <3>1 DEF Settle
  <2> QED
    BY <1>6, <2>1, <2>2, ThreadStepCases DEF Inv
<1>7. ASSUME NEW S \in SUBSET Ticket, NEW C \in SUBSET Ticket, Recover(S, C),
             ~ \E j \in Job : CancelJob(j)
      PROVE  [Promise!Next]_SeenVars
  <2>1. result' = result
    BY <1>7 DEF Recover
  <2>2. ASSUME NEW t \in Ticket
        PROVE  Kept(t) \/ Settled(t)
    <3>1. CASE t \in S \cup C
      <4>1. ticket[t].status \in Pending \cup {"RUNNING"}
        BY <1>7, <3>1 DEF Recover, Expired
      <4>2. SeenOf(ticket[t]) = "open" /\ ShownOf(ticket[t], result[t]) = "none"
        BY <1>1, <4>1, SeenOperations DEF ShownOf
      <4>3. CASE t \in S
        <5>1. ticket'[t] = RecoveredRow(ticket[t], job[JobOf[t]].cancel, MaxAttempts[t])
          BY <1>7, <4>3 DEF Recover
        <5>2. /\ SeenOf(ticket'[t]) \in {"open", "CANCELLED", "FAILED"}
              /\ SeenOf(ticket'[t]) # "open" =>
                    (SeenOf(ticket'[t]) = "CANCELLED" <=> job[JobOf[t]].cancel)
              /\ ShownOf(ticket'[t], result'[t]) = "none"
          BY <1>1, <2>1, <4>1, <5>1, SeenOperations
        <5> QED
          BY <4>2, <5>2, SeenRows DEF Kept, Settled, Terminal, Promise!Shows
      <4>4. CASE t \notin S
        <5>1. job[JobOf[t]].cancel /\ ticket'[t] = SweptRow(ticket[t])
          BY <1>7, <3>1, <4>4 DEF Recover
        <5>2. SeenOf(ticket'[t]) = "CANCELLED" /\ ShownOf(ticket'[t], result'[t]) = "none"
          BY <1>1, <2>1, <4>1, <5>1, SeenOperations
        <5> QED
          BY <4>2, <5>1, <5>2, SeenRows DEF Settled, Terminal, Promise!Shows
      <4> QED
        BY <4>3, <4>4
    <3>2. CASE t \notin S \cup C
      <4>1. ticket'[t] = ticket[t]
        BY <1>7, <3>2 DEF Recover
      <4> QED
        BY <2>1, <4>1, SeenRows DEF Kept
    <3> QED
      BY <3>1, <3>2
  <2> QED
    BY <1>2, <1>7, <2>2, SettlementSeen DEF Inv
<1>8. CASE UNCHANGED <<ticket, result>>
  BY <1>3, <1>4, <1>8 DEF VerdictSeen, ResultSeen
<1>9. ASSUME \/ \E w \in Worker, S \in SUBSET Ticket : ClaimTickets(w, S)
             \/ \E u \in Ticket : LeaseExpires(u) \/ \E n \in Claim : Heartbeat(u, n)
      PROVE  [Promise!Next]_SeenVars
  BY <1>3, <1>4, <1>9, ClaimSeen, LeaseSeen DEF Inv
<1> QED
  BY <1>4, <1>5, <1>6, <1>7, <1>8, <1>9
     DEF Next, Operation, TransactionFails, Reconcile, Crash, vars

LEMMA InitSeen == Init => Promise!Init /\ CancelledAsked /\ ReportFollows
<1> SUFFICES ASSUME Init PROVE Promise!Init /\ CancelledAsked /\ ReportFollows
  OBVIOUS
<1>1. \A t \in Ticket : ticket[t].status = "READY" /\ ~ticket[t].linked
  BY DEF Init
<1>2. VerdictSeen = [t \in Ticket |-> "open"] /\ ResultSeen = [t \in Ticket |-> "none"]
  BY <1>1 DEF VerdictSeen, ResultSeen, Terminal
<1>3. /\ CancelSeen = [j \in Job |-> FALSE]
      /\ ReportSeen = [j \in Job |-> "open"]
  BY DEF Init, CancelSeen, ReportSeen, OpenJobStatus
<1>4. ASSUME NEW j \in Job
      PROVE  Promise!Listed(j, VerdictSeen) = "open"
  <2>1. PICK t \in Ticket : JobOf[t] = j
    BY LifecycleAssumption
  <2>2. "open" \in {VerdictSeen[u] : u \in {v \in Ticket : JobOf[v] = j}}
    BY <1>2, <2>1
  <2> QED
    BY <2>2 DEF Promise!Listed
<1>5. ReportFollows
  BY <1>3, <1>4 DEF ReportFollows, Promise!Report
<1>6. CancelledAsked
  BY <1>1 DEF CancelledAsked, Init, NoExec
<1> QED
  BY <1>2, <1>3, <1>5, <1>6 DEF Promise!Init, ReportFollows

LEMMA NextInv == Inv /\ [Next]_vars => Inv'
<1> SUFFICES ASSUME Inv, [Next]_vars PROVE Inv'
  OBVIOUS
<1>1. TypeOK' /\ RowsSound' /\ ProgressExact' /\ CancelledAsked'
  BY NextType, NextSound, NextExact, NextAsked DEF Inv
<1> QED
  BY <1>1, NextReport DEF Inv

(* The queue with its runners, claims, leases, retries, recovery sweeps and *)
(* operators implements the abstract one: every ticket is settled once, as  *)
(* CANCELLED exactly when its job's cancellation was requested before, its  *)
(* result is that verdict, and its job is listed by what its tickets came   *)
(* to.                                                                      *)
THEOREM PromiseHolds == Spec => PromiseKept
<1>1. Init => Inv /\ Promise!Init
  BY InitType, InitSound, InitExact, InitSeen DEF Inv
<1>2. Inv /\ Inv' /\ [Next]_vars => [Promise!Next]_SeenVars
  BY NextSeen DEF Inv
<1>3. [Promise!Next]_SeenVars => [Promise!Next]_(Promise!verdictVars)
  BY DEF SeenVars, Promise!verdictVars
<1> QED
  BY <1>1, <1>2, <1>3, NextInv, PTL DEF Spec, PromiseKept, Promise!Spec
=============================================================================
