------------------------ MODULE JobTransactionsProofs ------------------------
(* What the row locks of JobTransactions are good for, for any number of    *)
(* sessions, transactions, jobs and tickets.                                *)
EXTENDS JobTransactions, FiniteSetTheorems, TLAPS

(* What a transaction may make of a committed ticket row it has locked. *)
Sound(row) == row.lease # "none" <=> row.status = "RUNNING"

Follows(row, new) ==
    /\ new \in TicketRow /\ Sound(new)
    /\ new.status = row.status \/ new.status \in AllowedTicketTransitions[row.status]

(* Every locked row is what its holder may make of the committed one. *)
RowsFollow ==
    \A t \in Ticket : /\ Sound(ticket[t])
                      /\ ticketLock[t] # NoSession => Follows(ticket[t], newTicket[t])

(* What settlements are about, and what they ask for. *)
Settlement == {"persist", "settle"}
Bulk == {"cancel", "reset"}
SettleTarget == {"RETRY"} \cup Terminal

Asked(x) ==
    x.kind \in Settlement =>
      /\ \E t \in Ticket : x.rows = {t} /\ x.jobs = {jobOf[t]}
      /\ x.target \in SettleTarget

(* The jobs of a cancellation or reset, and the rows it found. *)
Found(x) ==
    x.kind \in Bulk =>
      /\ x.step \in {"job", "scan", "rows"} => \E j \in Job : x.jobs = {j}
      /\ x.step = "rows" => \A t \in x.rows : jobOf[t] \in x.jobs

Begun == \A s \in Session : Asked(tx[s]) /\ Found(tx[s])

LInv == TypeOK /\ RowsFollow /\ Begun

(* What a statement of session s that neither commits nor aborts does: it   *)
(* takes rows that nobody else holds.                                       *)
JobKept(j) == jobLock'[j] = jobLock[j] /\ newJob'[j] = newJob[j]
JobTaken(s, j) == JobFree(s, j) /\ jobLock'[j] = s
TicketKept(t) == ticketLock'[t] = ticketLock[t] /\ newTicket'[t] = newTicket[t]
TicketTaken(s, t) ==
    TicketFree(s, t) /\ ticketLock'[t] = s /\ Follows(ticket[t], newTicket'[t])

JobsLocked(s) ==
    /\ jobLock' \in [Job -> Session \cup {NoSession}] /\ newJob' \in [Job -> JobRow]
    /\ \A j \in Job : JobKept(j) \/ JobTaken(s, j)

TicketsLocked(s) ==
    /\ ticketLock' \in [Ticket -> Session \cup {NoSession}]
    /\ newTicket' \in [Ticket -> TicketRow]
    /\ \A t \in Ticket : TicketKept(t) \/ TicketTaken(s, t)

Local(s, next) ==
    /\ UNCHANGED <<job, ticket, jobOf>>
    /\ begun' \in 0 .. MaxBegun
    /\ JobsLocked(s) /\ TicketsLocked(s)
    /\ next \in Transaction /\ Asked(next) /\ Found(next)
    /\ tx' = [tx EXCEPT ![s] = next]

-----------------------------------------------------------------------------
(* Rows. *)

LEMMA JobLocking ==
    ASSUME TypeOK, NEW s \in Session, NEW rows, DOMAIN rows \subseteq Job,
           \A j \in DOMAIN rows : rows[j] \in JobRow /\ JobFree(s, j),
           LockJobs(s, rows)
    PROVE  /\ JobsLocked(s)
           /\ \A j \in DOMAIN rows : jobLock'[j] = s /\ newJob'[j] = rows[j]
           /\ \A j \in Job \ DOMAIN rows : JobKept(j)
BY DEF LockJobs, JobsLocked, JobKept, JobTaken, TypeOK

LEMMA NoJobLocking ==
    ASSUME TypeOK, NEW s \in Session, NoJobLocked
    PROVE  JobsLocked(s) /\ \A j \in Job : JobKept(j)
BY DEF NoJobLocked, JobsLocked, JobKept, TypeOK

LEMMA TicketLocking ==
    ASSUME TypeOK, NEW s \in Session, NEW rows, DOMAIN rows \subseteq Ticket,
           \A t \in DOMAIN rows : Follows(ticket[t], rows[t]) /\ TicketFree(s, t),
           LockTickets(s, rows)
    PROVE  /\ TicketsLocked(s)
           /\ \A t \in DOMAIN rows : ticketLock'[t] = s /\ newTicket'[t] = rows[t]
           /\ \A t \in Ticket \ DOMAIN rows : TicketKept(t)
BY DEF LockTickets, TicketsLocked, TicketKept, TicketTaken, TypeOK, Follows

LEMMA NoTicketLocking ==
    ASSUME TypeOK, NEW s \in Session, NoTicketLocked
    PROVE  TicketsLocked(s) /\ \A t \in Ticket : TicketKept(t)
BY DEF NoTicketLocked, TicketsLocked, TicketKept, TypeOK

(* The rows that the statements leave follow from those they find. *)
LEMMA RowOperations ==
    ASSUME NEW row \in TicketRow, Sound(row)
    PROVE  /\ \A target \in SettleTarget :
                row.status = "RUNNING" => Follows(row, SettledRow(row, target))
           /\ row.status = "RUNNING" => Follows(row, [row EXCEPT !.lease = "live"])
           /\ \A kind \in Bulk : Matches(kind, row) => Follows(row, BulkUpdated(kind, row))
           /\ \A w \in Worker : row.status \in Pending =>
                Follows(row, [status |-> "RUNNING", worker |-> w, lease |-> "live"])
           /\ \A target \in {"RETRY", "FAILED", "CANCELLED"} :
                row.status = "RUNNING" => Follows(row, SweptRow(row, target))
           /\ row.status = "RUNNING" =>
                Follows(row, [row EXCEPT !.status = "CANCELLED", !.lease = "none"])
<1> USE DEF Follows, Sound, TicketRow, TicketStatus, Pending, Terminal
<1>1. /\ AllowedTicketTransitions["READY"] = {"RUNNING", "CANCELLED"}
      /\ AllowedTicketTransitions["RUNNING"] = {"RETRY"} \cup Terminal
      /\ AllowedTicketTransitions["RETRY"] = {"RUNNING", "CANCELLED", "FAILED"}
      /\ AllowedTicketTransitions["FAILED"] = {"READY"}
  BY DEF AllowedTicketTransitions
<1>2. ASSUME NEW target \in SettleTarget, row.status = "RUNNING"
      PROVE  Follows(row, SettledRow(row, target))
  BY <1>1, <1>2 DEF SettledRow, SettleTarget
<1>3. ASSUME row.status = "RUNNING"
      PROVE  Follows(row, [row EXCEPT !.lease = "live"])
  BY <1>3
<1>4. ASSUME NEW kind \in Bulk, Matches(kind, row)
      PROVE  Follows(row, BulkUpdated(kind, row))
  <2>1. CASE kind = "cancel"
    BY <1>1, <1>4, <2>1 DEF Matches, BulkUpdated
  <2>2. CASE kind = "reset"
    BY <1>1, <1>4, <2>2 DEF Matches, BulkUpdated
  <2> QED
    BY <1>4, <2>1, <2>2 DEF Bulk
<1>5. ASSUME NEW w \in Worker, row.status \in Pending
      PROVE  Follows(row, [status |-> "RUNNING", worker |-> w, lease |-> "live"])
  BY <1>1, <1>5
<1>6. ASSUME NEW target \in {"RETRY", "FAILED", "CANCELLED"}, row.status = "RUNNING"
      PROVE  Follows(row, SweptRow(row, target))
  BY <1>1, <1>6 DEF SweptRow
<1>7. ASSUME row.status = "RUNNING"
      PROVE  Follows(row, [row EXCEPT !.status = "CANCELLED", !.lease = "none"])
  BY <1>1, <1>7
<1> HIDE DEF Follows, Sound, TicketRow, TicketStatus, Pending, Terminal
<1> QED
  BY <1>2, <1>3, <1>4, <1>5, <1>6, <1>7

(* Progress, counted, is progress. *)
LEMMA CountedType ==
    ASSUME TypeOK, NEW s \in Session, NEW j \in Job
    PROVE  Counted(s, j) \in Progress
<1>1. ASSUME NEW x \in Terminal
      PROVE  Cardinality({t \in TicketsOf(j) : TicketSeen(s, t).status = x}) \in Nat
  <2>1. {t \in TicketsOf(j) : TicketSeen(s, t).status = x} \subseteq Ticket
    BY DEF TicketsOf
  <2> QED
    BY <2>1, TransactionsAssumption, FS_Subset, FS_CardinalityType
<1>2. \A cancel, present : ProgressStatus(cancel, present) \in JobStatus
  BY DEF ProgressStatus, JobStatus, OpenJobStatus
<1> QED
  BY <1>1, <1>2 DEF Counted, Progress

LEMMA WithProgressType ==
    ASSUME NEW row \in JobRow, NEW progress \in Progress
    PROVE  /\ WithProgress(row, progress) \in JobRow
           /\ WithProgress(row, progress).status = progress.status
           /\ WithProgress(row, progress).count = progress.count
BY DEF WithProgress, JobRow, Progress

LEMMA SeenTypes ==
    ASSUME TypeOK, NEW s \in Session
    PROVE  /\ \A j \in Job : JobSeen(s, j) \in JobRow
           /\ \A t \in Ticket : TicketSeen(s, t) \in TicketRow
BY DEF TypeOK, JobSeen, TicketSeen

-----------------------------------------------------------------------------
(* Every statement takes free rows only, or aborts.  One lemma for each. *)

LEMMA LocalStep ==
    ASSUME TypeOK, UNCHANGED jobOf, NEW s \in Session, NEW next \in Transaction,
           Continue(s, next), Asked(next), Found(next), JobsLocked(s), TicketsLocked(s)
    PROVE  Local(s, next)
BY DEF Local, Continue, committed, TypeOK

(* What the updates of a transaction give. *)
LEMMA Updates ==
    ASSUME NEW x \in Transaction, NEW st \in Step
    PROVE  /\ [x EXCEPT !.step = st] \in Transaction
           /\ \A R \in SUBSET Ticket : [x EXCEPT !.step = st, !.rows = R] \in Transaction
           /\ \A J \in SUBSET Job : [x EXCEPT !.step = st, !.jobs = J] \in Transaction
           /\ \A J \in SUBSET Job : [x EXCEPT !.jobs = J] \in Transaction
           /\ \A R \in SUBSET Ticket, J \in SUBSET Job :
                 [x EXCEPT !.step = st, !.rows = R, !.jobs = J] \in Transaction
           /\ \A R \in SUBSET Ticket, J \in SUBSET Job :
                 [x EXCEPT !.step = st, !.rows = R, !.seen = J] \in Transaction
           /\ \A p \in Progress : [x EXCEPT !.step = st, !.progress = p] \in Transaction
<1> USE DEF Transaction
<1>1. [x EXCEPT !.step = st] \in Transaction
  OBVIOUS
<1>2. ASSUME NEW R \in SUBSET Ticket
      PROVE  [x EXCEPT !.step = st, !.rows = R] \in Transaction
  OBVIOUS
<1>3. ASSUME NEW J \in SUBSET Job
      PROVE  /\ [x EXCEPT !.step = st, !.jobs = J] \in Transaction
             /\ [x EXCEPT !.jobs = J] \in Transaction
  OBVIOUS
<1>4. ASSUME NEW R \in SUBSET Ticket, NEW J \in SUBSET Job
      PROVE  /\ [x EXCEPT !.step = st, !.rows = R, !.jobs = J] \in Transaction
             /\ [x EXCEPT !.step = st, !.rows = R, !.seen = J] \in Transaction
  OBVIOUS
<1>5. ASSUME NEW p \in Progress
      PROVE  [x EXCEPT !.step = st, !.progress = p] \in Transaction
  OBVIOUS
<1> HIDE DEF Transaction
<1> QED
  BY <1>1, <1>2, <1>3, <1>4, <1>5

(* A transaction that is neither a settlement nor a bulk update. *)
LEMMA OtherKinds ==
    ASSUME NEW x, x.kind \notin Settlement \cup Bulk
    PROVE  Asked(x) /\ Found(x)
BY DEF Asked, Found

LEMMA LockJobLocal ==
    ASSUME LInv, UNCHANGED jobOf, NEW s \in Session, LockJob(s)
    PROVE  Rollback(s) \/ \E next : Local(s, next)
<1>1. TypeOK /\ tx[s] \in Transaction /\ Asked(tx[s]) /\ Found(tx[s])
  BY DEF LInv, TypeOK, Begun
<1> SUFFICES ASSUME ~Rollback(s) PROVE \E next : Local(s, next)
  OBVIOUS
<1>2. PICK j \in tx[s].jobs :
        /\ JobFree(s, j)
        /\ \/ LockJobs(s, [i \in {j} |-> job[i]])
           \/ LockJobs(s, [i \in {j} |-> [job[i] EXCEPT !.cancel = TRUE]])
        /\ \/ /\ tx[s].kind \in Settlement
              /\ \/ Continue(s, [tx[s] EXCEPT !.step = "rows"])
                 \/ Continue(s, [tx[s] EXCEPT !.step = "rows",
                                     !.target = IF job[j].cancel THEN "CANCELLED" ELSE @])
           \/ /\ tx[s].kind \in Bulk /\ tx[s].step = "job"
              /\ Continue(s, [tx[s] EXCEPT !.step = "scan"])
        /\ NoTicketLocked
  BY DEF LockJob, Settlement, Bulk
<1>3. JobsLocked(s)
  <2>1. j \in Job /\ job[j] \in JobRow /\ [job[j] EXCEPT !.cancel = TRUE] \in JobRow
    <3>1. j \in Job
      BY <1>1 DEF Transaction
    <3>2. job[j] \in JobRow
      BY <1>1, <3>1 DEF TypeOK
    <3> QED
      BY <3>1, <3>2 DEF JobRow
  <2>2. CASE LockJobs(s, [i \in {j} |-> job[i]])
    <3> DEFINE rows == [i \in {j} |-> job[i]]
    <3>1. DOMAIN rows = {j} /\ rows[j] = job[j]
      OBVIOUS
    <3> HIDE DEF rows
    <3>2. LockJobs(s, rows)
      BY <2>2 DEF rows
    <3> QED
      BY <1>1, <1>2, <2>1, <3>1, <3>2, JobLocking
  <2>3. CASE LockJobs(s, [i \in {j} |-> [job[i] EXCEPT !.cancel = TRUE]])
    <3> DEFINE rows == [i \in {j} |-> [job[i] EXCEPT !.cancel = TRUE]]
    <3>1. DOMAIN rows = {j} /\ rows[j] = [job[j] EXCEPT !.cancel = TRUE]
      OBVIOUS
    <3> HIDE DEF rows
    <3>2. LockJobs(s, rows)
      BY <2>3 DEF rows
    <3> QED
      BY <1>1, <1>2, <2>1, <3>1, <3>2, JobLocking
  <2> QED
    BY <1>2, <2>2, <2>3
<1>4. ASSUME NEW next \in Transaction, Continue(s, next), Asked(next), Found(next)
      PROVE  Local(s, next)
  BY <1>1, <1>2, <1>3, <1>4, NoTicketLocking DEF Local, Continue, committed, TypeOK
<1>5. CASE tx[s].kind \in Settlement
  <2>1. \A target \in SettleTarget :
           LET next == [tx[s] EXCEPT !.step = "rows", !.target = target] IN
           next \in Transaction /\ Asked(next) /\ Found(next)
    BY <1>1, <1>5 DEF Transaction, Step, Asked, Found, Settlement, Bulk, SettleTarget,
       TicketStatus, Pending
  <2>2. PICK target \in SettleTarget :
           Continue(s, [tx[s] EXCEPT !.step = "rows", !.target = target])
    <3>1. tx[s].target \in SettleTarget /\ "CANCELLED" \in SettleTarget
      BY <1>1, <1>5 DEF Asked, SettleTarget, Terminal
    <3>2. [tx[s] EXCEPT !.step = "rows"] = [tx[s] EXCEPT !.step = "rows", !.target = tx[s].target]
      BY <1>1 DEF Transaction
    <3> QED
      BY <1>2, <1>5, <3>1, <3>2 DEF Settlement, Bulk
  <2> QED
    BY <1>4, <2>1, <2>2
<1>6. CASE tx[s].kind \in Bulk
  <2>1. LET next == [tx[s] EXCEPT !.step = "scan"] IN
        next \in Transaction /\ (tx[s].step = "job" => Asked(next) /\ Found(next))
    BY <1>1, <1>6 DEF Transaction, Step, Asked, Found, Settlement, Bulk
  <2> QED
    BY <1>2, <1>4, <1>6, <2>1 DEF Settlement, Bulk
<1> QED
  BY <1>2, <1>5, <1>6

LEMMA SettleRowLocal ==
    ASSUME LInv, UNCHANGED jobOf, NEW s \in Session, SettleRow(s)
    PROVE  Rollback(s) \/ \E next : Local(s, next)
<1>1. TypeOK /\ tx[s] \in Transaction /\ Asked(tx[s]) /\ Found(tx[s])
  BY DEF LInv, TypeOK, Begun
<1> SUFFICES ASSUME ~Rollback(s) PROVE \E next : Local(s, next)
  OBVIOUS
<1> DEFINE next == [tx[s] EXCEPT !.step = "count"]
<1>2. PICK t \in tx[s].rows :
        /\ TicketFree(s, t)
        /\ Owns(ticket[t], tx[s].worker)
        /\ LockTickets(s, [u \in {t} |-> SettledRow(ticket[u], tx[s].target)])
        /\ Continue(s, next)
        /\ NoJobLocked
  BY DEF SettleRow
<1>3. t \in Ticket /\ ticket[t] \in TicketRow /\ Sound(ticket[t]) /\ tx[s].target \in SettleTarget
  <2>1. t \in Ticket
    BY <1>1, <1>2 DEF Transaction
  <2>2. tx[s].target \in SettleTarget
    BY <1>1 DEF SettleRow, Asked, Settlement
  <2> QED
    BY <2>1, <2>2 DEF TypeOK, LInv, RowsFollow
<1>4. TicketsLocked(s)
  <2> DEFINE rows == [u \in {t} |-> SettledRow(ticket[u], tx[s].target)]
  <2>1. DOMAIN rows = {t} /\ rows[t] = SettledRow(ticket[t], tx[s].target)
    OBVIOUS
  <2>2. Follows(ticket[t], rows[t])
    BY <1>2, <1>3, <2>1, RowOperations DEF Owns
  <2>3. LockTickets(s, rows)
    BY <1>2
  <2> HIDE DEF rows
  <2> QED
    BY <1>1, <1>2, <1>3, <2>1, <2>2, <2>3, TicketLocking
<1>5. JobsLocked(s)
  BY <1>1, <1>2, NoJobLocking
<1>6. next \in Transaction /\ Asked(next) /\ Found(next)
  <2>1. next \in Transaction
    BY <1>1, Updates DEF Step
  <2>2. /\ next.kind = tx[s].kind /\ next.rows = tx[s].rows /\ next.jobs = tx[s].jobs
        /\ next.target = tx[s].target
    BY <1>1 DEF Transaction
  <2> QED
    BY <1>1, <2>1, <2>2 DEF SettleRow, Asked, Found, Settlement, Bulk
<1> QED
  BY <1>1, <1>2, <1>4, <1>5, <1>6, LocalStep

LEMMA HeartbeatRowLocal ==
    ASSUME LInv, UNCHANGED jobOf, NEW s \in Session, HeartbeatRow(s)
    PROVE  Rollback(s) \/ \E next : Local(s, next)
<1>1. TypeOK /\ tx[s] \in Transaction /\ tx[s].kind = "heartbeat"
  BY DEF LInv, TypeOK, HeartbeatRow
<1> SUFFICES ASSUME ~Rollback(s) PROVE \E next : Local(s, next)
  OBVIOUS
<1> DEFINE next == [tx[s] EXCEPT !.step = "commit"]
<1>2. PICK t \in tx[s].rows :
        /\ TicketFree(s, t)
        /\ Owns(ticket[t], tx[s].worker)
        /\ LockTickets(s, [u \in {t} |-> [ticket[u] EXCEPT !.lease = "live"]])
        /\ Continue(s, next)
        /\ NoJobLocked
  BY DEF HeartbeatRow
<1>3. t \in Ticket /\ ticket[t] \in TicketRow /\ Sound(ticket[t])
  <2>1. t \in Ticket
    BY <1>1, <1>2 DEF Transaction
  <2> QED
    BY <2>1 DEF TypeOK, LInv, RowsFollow
<1>4. TicketsLocked(s)
  <2> DEFINE rows == [u \in {t} |-> [ticket[u] EXCEPT !.lease = "live"]]
  <2>1. DOMAIN rows = {t} /\ rows[t] = [ticket[t] EXCEPT !.lease = "live"]
    OBVIOUS
  <2>2. Follows(ticket[t], rows[t])
    BY <1>2, <1>3, <2>1, RowOperations DEF Owns
  <2>3. LockTickets(s, rows)
    BY <1>2
  <2> HIDE DEF rows
  <2> QED
    BY <1>1, <1>2, <1>3, <2>1, <2>2, <2>3, TicketLocking
<1>5. JobsLocked(s)
  BY <1>1, <1>2, NoJobLocking
<1>6. next \in Transaction /\ Asked(next) /\ Found(next)
  <2>1. next \in Transaction
    BY <1>1, Updates DEF Step
  <2>2. next.kind = "heartbeat"
    BY <1>1 DEF Transaction
  <2> QED
    BY <2>1, <2>2, OtherKinds DEF Settlement, Bulk
<1> QED
  BY <1>1, <1>2, <1>4, <1>5, <1>6, LocalStep

LEMMA ScanJobRowsLocal ==
    ASSUME LInv, UNCHANGED jobOf, NEW s \in Session, ScanJobRows(s)
    PROVE  Rollback(s) \/ \E next : Local(s, next)
<1>1. TypeOK /\ tx[s] \in Transaction /\ tx[s].kind \in Bulk /\ tx[s].step = "scan" /\ Found(tx[s])
  BY DEF LInv, TypeOK, ScanJobRows, Begun, Bulk
<1> SUFFICES ASSUME ~Rollback(s) PROVE \E next : Local(s, next)
  OBVIOUS
<1>2. PICK j \in tx[s].jobs :
        LET found == {t \in TicketsOf(j) : Matches(tx[s].kind, ticket[t])} IN
        /\ Continue(s, [tx[s] EXCEPT !.step = IF found = {} THEN "count" ELSE "rows",
                                     !.rows = found])
        /\ UNCHANGED locks
  BY DEF ScanJobRows
<1> DEFINE R == {t \in TicketsOf(j) : Matches(tx[s].kind, ticket[t])}
           st == IF R = {} THEN "count" ELSE "rows"
           next == [tx[s] EXCEPT !.step = st, !.rows = R]
<1>3. next \in Transaction
  BY <1>1, Updates DEF Step, TicketsOf
<1>4. /\ next.kind = tx[s].kind /\ next.rows = R /\ next.jobs = tx[s].jobs /\ next.step = st
  BY <1>1 DEF Transaction
<1>5. Asked(next) /\ Found(next)
  BY <1>1, <1>2, <1>4 DEF Asked, Found, Settlement, Bulk, TicketsOf
<1>6. JobsLocked(s) /\ TicketsLocked(s)
  BY <1>1, <1>2, NoJobLocking, NoTicketLocking DEF locks, NoJobLocked, NoTicketLocked
<1> QED
  BY <1>1, <1>2, <1>3, <1>5, <1>6, LocalStep

LEMMA UpdateJobRowLocal ==
    ASSUME LInv, UNCHANGED jobOf, NEW s \in Session, UpdateJobRow(s)
    PROVE  \E next : Local(s, next)
<1>1. TypeOK /\ tx[s] \in Transaction /\ tx[s].kind \in Bulk /\ tx[s].step = "rows" /\ Found(tx[s])
  BY DEF LInv, TypeOK, UpdateJobRow, Begun, Bulk
<1>2. PICK t \in tx[s].rows :
        /\ TicketFree(s, t)
        /\ IF Matches(tx[s].kind, ticket[t])
             THEN LockTickets(s, [u \in {t} |-> BulkUpdated(tx[s].kind, ticket[u])])
             ELSE NoTicketLocked
        /\ Continue(s, [tx[s] EXCEPT !.rows = @ \ {t},
                                     !.step = IF tx[s].rows = {t} THEN "count" ELSE @])
        /\ NoJobLocked
  BY DEF UpdateJobRow
<1> DEFINE st == IF tx[s].rows = {t} THEN "count" ELSE "rows"
           next == [tx[s] EXCEPT !.step = st, !.rows = tx[s].rows \ {t}]
<1>3. t \in Ticket /\ ticket[t] \in TicketRow /\ Sound(ticket[t]) /\ tx[s].rows \subseteq Ticket
  <2>1. t \in Ticket /\ tx[s].rows \subseteq Ticket
    BY <1>1, <1>2 DEF Transaction
  <2> QED
    BY <2>1 DEF TypeOK, LInv, RowsFollow
<1>4. TicketsLocked(s)
  <2> DEFINE rows == [u \in {t} |-> BulkUpdated(tx[s].kind, ticket[u])]
  <2>1. DOMAIN rows = {t} /\ rows[t] = BulkUpdated(tx[s].kind, ticket[t])
    OBVIOUS
  <2>2. CASE Matches(tx[s].kind, ticket[t])
    <3>1. Follows(ticket[t], rows[t])
      BY <1>1, <1>3, <2>1, <2>2, RowOperations
    <3>2. LockTickets(s, rows)
      BY <1>2, <2>2
    <3> HIDE DEF rows
    <3> QED
      BY <1>1, <1>2, <1>3, <2>1, <3>1, <3>2, TicketLocking
  <2>3. CASE ~Matches(tx[s].kind, ticket[t])
    BY <1>1, <1>2, <2>3, NoTicketLocking
  <2> QED
    BY <2>2, <2>3
<1>5. JobsLocked(s)
  BY <1>1, <1>2, NoJobLocking
<1>6. Continue(s, next)
  <2>1. [tx[s] EXCEPT !.rows = @ \ {t}, !.step = IF tx[s].rows = {t} THEN "count" ELSE @] = next
    BY <1>1 DEF Transaction
  <2> QED
    BY <1>2, <2>1
<1>7. next \in Transaction /\ Asked(next) /\ Found(next)
  <2>1. next \in Transaction
    <3>1. st \in Step /\ tx[s].rows \ {t} \in SUBSET Ticket
      BY <1>3 DEF Step
    <3> QED
      BY <1>1, <3>1, Updates
  <2>2. /\ next.kind = tx[s].kind /\ next.rows = tx[s].rows \ {t} /\ next.jobs = tx[s].jobs
    BY <1>1 DEF Transaction
  <2> QED
    BY <1>1, <2>1, <2>2 DEF Asked, Found, Settlement, Bulk
<1> QED
  BY <1>1, <1>4, <1>5, <1>6, <1>7, LocalStep

LEMMA ScansLocal ==
    ASSUME LInv, UNCHANGED jobOf, NEW s \in Session,
           ClaimScan(s) \/ SweepScan(s) \/ ReconcileScan(s)
    PROVE  Rollback(s) \/ \E next : Local(s, next)
<1>1. TypeOK /\ tx[s] \in Transaction /\ tx[s].kind \in {"claim", "sweep", "reconcile"}
  BY DEF LInv, TypeOK, ClaimScan, SweepScan, ReconcileScan
<1>2. ASSUME NEW next \in Transaction, next.kind = tx[s].kind, Continue(s, next), UNCHANGED locks
      PROVE  Local(s, next)
  <2>1. JobsLocked(s) /\ TicketsLocked(s)
    BY <1>1, <1>2, NoJobLocking, NoTicketLocking DEF locks, NoJobLocked, NoTicketLocked
  <2>2. Asked(next) /\ Found(next)
    BY <1>1, <1>2, OtherKinds DEF Settlement, Bulk
  <2> QED
    BY <1>1, <1>2, <2>1, <2>2, LocalStep
<1>3. CASE ClaimScan(s)
  <2> DEFINE R == {t \in Ticket : /\ ticket[t].status \in Pending
                                  /\ ~job[jobOf[t]].cancel
                                  /\ job[jobOf[t]].status \in OpenJobStatus}
             next == [tx[s] EXCEPT !.step = "rows", !.rows = R]
  <2>1. Rollback(s) \/ (Continue(s, next) /\ UNCHANGED locks)
    BY <1>3 DEF ClaimScan
  <2>2. next \in Transaction
    <3>1. "rows" \in Step /\ R \in SUBSET Ticket
      BY DEF Step
    <3> HIDE DEF R
    <3> QED
      BY <1>1, <3>1, Updates
  <2>3. next.kind = tx[s].kind
    BY <1>1 DEF Transaction
  <2> QED
    BY <1>2, <2>1, <2>2, <2>3
<1>4. CASE SweepScan(s)
  <2> DEFINE R == {t \in Ticket : Swept(t)}
             J == {j \in Job : job[j].cancel}
             next == [tx[s] EXCEPT !.step = "rows", !.rows = R, !.seen = J]
  <2>1. Continue(s, next) /\ UNCHANGED locks
    BY <1>4 DEF SweepScan
  <2>2. next \in Transaction
    <3>1. "rows" \in Step /\ R \in SUBSET Ticket /\ J \in SUBSET Job
      BY DEF Step
    <3> HIDE DEF R, J
    <3> QED
      BY <1>1, <3>1, Updates
  <2>3. next.kind = tx[s].kind
    BY <1>1 DEF Transaction
  <2> QED
    BY <1>2, <2>1, <2>2, <2>3
<1>5. CASE ReconcileScan(s)
  <2> DEFINE J == {jobOf[t] : t \in {u \in Ticket : ticket[u].status \notin Terminal}}
             next == [tx[s] EXCEPT !.step = "count", !.jobs = J]
  <2>1. Continue(s, next) /\ UNCHANGED locks
    BY <1>5 DEF ReconcileScan
  <2>2. next \in Transaction
    <3>1. "count" \in Step /\ J \in SUBSET Job
      BY <1>1, TransactionsAssumption DEF Step, TypeOK
    <3> HIDE DEF J
    <3> QED
      BY <1>1, <3>1, Updates
  <2>3. next.kind = tx[s].kind
    BY <1>1 DEF Transaction
  <2> QED
    BY <1>2, <2>1, <2>2, <2>3
<1> QED
  BY <1>3, <1>4, <1>5

LEMMA ClaimRowsLocal ==
    ASSUME LInv, UNCHANGED jobOf, NEW s \in Session, ClaimRows(s)
    PROVE  Rollback(s) \/ \E next : Local(s, next)
<1>1. TypeOK /\ tx[s] \in Transaction /\ tx[s].kind = "claim"
  BY DEF LInv, TypeOK, ClaimRows
<1> SUFFICES ASSUME ~Rollback(s) PROVE \E next : Local(s, next)
  OBVIOUS
<1>2. PICK S \in SUBSET ClaimedRows(s) :
        /\ S # {}
        /\ LockTickets(s, [t \in S |-> [status |-> "RUNNING", worker |-> tx[s].worker,
                                        lease |-> "live"]])
        /\ Continue(s, [tx[s] EXCEPT !.step = "after", !.rows = {},
                                     !.jobs = {jobOf[t] : t \in S}])
        /\ NoJobLocked
  BY DEF ClaimRows
<1> DEFINE J == {jobOf[t] : t \in S}
           next == [tx[s] EXCEPT !.step = "after", !.rows = {}, !.jobs = J]
<1>3. \A t \in S : /\ t \in Ticket /\ ticket[t] \in TicketRow /\ Sound(ticket[t])
                   /\ TicketFree(s, t) /\ ticket[t].status \in Pending
  <2>1. \A t \in S : t \in Ticket /\ TicketFree(s, t) /\ ticket[t].status \in Pending
    BY <1>1, <1>2 DEF ClaimedRows, Transaction
  <2> QED
    BY <2>1 DEF TypeOK, LInv, RowsFollow
<1>4. TicketsLocked(s)
  <2> DEFINE row == [status |-> "RUNNING", worker |-> tx[s].worker, lease |-> "live"]
             rows == [t \in S |-> row]
  <2>1. tx[s].worker \in Worker \cup {NoWorker}
    BY <1>1 DEF Transaction
  <2>2. DOMAIN rows = S /\ \A t \in S : rows[t] = row
    OBVIOUS
  <2>3. \A t \in S : Follows(ticket[t], row)
    <3> SUFFICES ASSUME NEW t \in S PROVE Follows(ticket[t], row)
      OBVIOUS
    <3>1. AllowedTicketTransitions[ticket[t].status] \in {{"RUNNING", "CANCELLED"},
                                                          {"RUNNING", "CANCELLED", "FAILED"}}
      BY <1>3 DEF AllowedTicketTransitions, Pending, TicketStatus
    <3>2. row \in TicketRow /\ Sound(row) /\ row.status = "RUNNING"
      BY <2>1 DEF TicketRow, Sound, TicketStatus
    <3> HIDE DEF row
    <3> QED
      BY <3>1, <3>2 DEF Follows
  <2>4. LockTickets(s, rows)
    BY <1>2
  <2>5. S \subseteq Ticket
    BY <1>3
  <2> HIDE DEF rows, row
  <2> QED
    BY <1>1, <1>3, <2>2, <2>3, <2>4, <2>5, TicketLocking
<1>5. JobsLocked(s)
  BY <1>1, <1>2, NoJobLocking
<1>6. next \in Transaction /\ Asked(next) /\ Found(next)
  <2>1. next \in Transaction
    <3>1. "after" \in Step /\ J \in SUBSET Job /\ {} \in SUBSET Ticket
      BY <1>1, <1>3, TransactionsAssumption DEF Step, TypeOK
    <3> HIDE DEF J
    <3> QED
      BY <1>1, <3>1, Updates
  <2>2. next.kind = "claim"
    BY <1>1 DEF Transaction
  <2> QED
    BY <2>1, <2>2, OtherKinds DEF Settlement, Bulk
<1> QED
  BY <1>1, <1>2, <1>4, <1>5, <1>6, LocalStep

LEMMA MarkRunningLocal ==
    ASSUME LInv, UNCHANGED jobOf, NEW s \in Session, MarkRunning(s)
    PROVE  \E next : Local(s, next)
<1>1. TypeOK /\ tx[s] \in Transaction /\ tx[s].kind = "claim"
  BY DEF LInv, TypeOK, MarkRunning
<1> DEFINE J == {j \in tx[s].jobs : JobFree(s, j) /\ job[j].status \in {"CREATED", "READY"}}
           rows == [j \in J |-> [job[j] EXCEPT !.status = "RUNNING"]]
           next == [tx[s] EXCEPT !.step = "commit", !.jobs = {}]
<1>2. LockJobs(s, rows) /\ Continue(s, next) /\ NoTicketLocked
  BY DEF MarkRunning
<1>3. JobsLocked(s)
  <2>1. J \subseteq Job /\ \A j \in J : JobFree(s, j)
    BY <1>1 DEF Transaction
  <2>2. DOMAIN rows = J /\ \A j \in J : rows[j] \in JobRow
    <3>1. ASSUME NEW j \in J
          PROVE  [job[j] EXCEPT !.status = "RUNNING"] \in JobRow
      <4>1. job[j] \in JobRow
        BY <1>1, <2>1 DEF TypeOK
      <4> QED
        BY <4>1 DEF JobRow, JobStatus, OpenJobStatus
    <3> QED
      BY <3>1
  <2> HIDE DEF rows, J
  <2> QED
    BY <1>1, <1>2, <2>1, <2>2, JobLocking
<1>4. TicketsLocked(s)
  BY <1>1, <1>2, NoTicketLocking
<1>5. next \in Transaction /\ Asked(next) /\ Found(next)
  <2>1. next \in Transaction
    BY <1>1, Updates DEF Step
  <2>2. next.kind = "claim"
    BY <1>1 DEF Transaction
  <2> QED
    BY <2>1, <2>2, OtherKinds DEF Settlement, Bulk
<1> QED
  BY <1>1, <1>2, <1>3, <1>4, <1>5, LocalStep

LEMMA SweepRowsLocal ==
    ASSUME LInv, UNCHANGED jobOf, NEW s \in Session, SweepRows(s)
    PROVE  \E next : Local(s, next)
<1>1. TypeOK /\ tx[s] \in Transaction /\ tx[s].kind = "sweep" /\ tx[s].rows \subseteq Ticket
  BY DEF LInv, TypeOK, SweepRows, Transaction
<1>2. PICK T \in SUBSET tx[s].rows, target \in [Ticket -> {"RETRY", "FAILED"}] :
        LET J == {j \in {jobOf[t] : t \in T} : JobFree(s, j)}
            S == {t \in T : jobOf[t] \in J /\ TicketFree(s, t) /\ Swept(t)} IN
        /\ LockJobs(s, [j \in J |-> job[j]])
        /\ LockTickets(s, [t \in S |->
             SweptRow(ticket[t], IF jobOf[t] \in tx[s].seen THEN "CANCELLED" ELSE target[t])])
        /\ Continue(s, [tx[s] EXCEPT !.step = "after", !.rows = {},
                                     !.jobs = {jobOf[t] : t \in S}])
  BY DEF SweepRows
<1> DEFINE J == {j \in {jobOf[t] : t \in T} : JobFree(s, j)}
           S == {t \in T : jobOf[t] \in J /\ TicketFree(s, t) /\ Swept(t)}
           K == {jobOf[t] : t \in S}
           next == [tx[s] EXCEPT !.step = "after", !.rows = {}, !.jobs = K]
<1>3. /\ \A t \in Ticket : jobOf[t] \in Job
      /\ S \subseteq Ticket /\ J \subseteq Job /\ K \subseteq Job
  <2>1. \A t \in Ticket : jobOf[t] \in Job
    BY <1>1, TransactionsAssumption DEF TypeOK
  <2> QED
    BY <1>1, <1>2, <2>1
<1>4. TicketsLocked(s)
  <2> DEFINE to(t) == IF jobOf[t] \in tx[s].seen THEN "CANCELLED" ELSE target[t]
             rows == [t \in S |-> SweptRow(ticket[t], to(t))]
  <2>1. DOMAIN rows = S /\ \A t \in S : rows[t] = SweptRow(ticket[t], to(t))
    OBVIOUS
  <2>2. ASSUME NEW t \in S
        PROVE  Follows(ticket[t], rows[t]) /\ TicketFree(s, t)
    <3>1. /\ ticket[t] \in TicketRow /\ Sound(ticket[t]) /\ ticket[t].status = "RUNNING"
          /\ TicketFree(s, t)
      BY <1>1, <1>3 DEF TypeOK, LInv, RowsFollow, Swept
    <3>2. to(t) \in {"RETRY", "FAILED", "CANCELLED"}
      BY <1>3
    <3> HIDE DEF to, rows, S
    <3> QED
      BY <2>1, <3>1, <3>2, RowOperations
  <2>3. LockTickets(s, rows)
    BY <1>2
  <2> HIDE DEF rows, to, S
  <2> QED
    BY <1>1, <1>3, <2>1, <2>2, <2>3, TicketLocking
<1>5. JobsLocked(s)
  <2> DEFINE rows == [j \in J |-> job[j]]
  <2>1. DOMAIN rows = J /\ \A j \in J : rows[j] \in JobRow /\ JobFree(s, j)
    BY <1>1, <1>3 DEF TypeOK
  <2>2. LockJobs(s, rows)
    BY <1>2
  <2> HIDE DEF rows, J
  <2> QED
    BY <1>1, <1>3, <2>1, <2>2, JobLocking
<1>6. next \in Transaction /\ Asked(next) /\ Found(next)
  <2>1. next \in Transaction
    <3>1. "after" \in Step /\ K \in SUBSET Job /\ {} \in SUBSET Ticket
      BY <1>3 DEF Step
    <3> HIDE DEF K
    <3> QED
      BY <1>1, <3>1, Updates
  <2>2. next.kind = "sweep"
    BY <1>1 DEF Transaction
  <2> QED
    BY <2>1, <2>2, OtherKinds DEF Settlement, Bulk
<1> QED
  BY <1>1, <1>2, <1>4, <1>5, <1>6, LocalStep

LEMMA SweepCancelledLocal ==
    ASSUME LInv, UNCHANGED jobOf, NEW s \in Session, SweepCancelled(s)
    PROVE  \E next : Local(s, next)
<1>1. /\ TypeOK /\ tx[s] \in Transaction /\ tx[s].kind = "sweep" /\ tx[s].jobs \subseteq Job
      /\ \A t \in Ticket : jobOf[t] \in Job
  BY TransactionsAssumption DEF LInv, TypeOK, SweepCancelled, Transaction
<1> DEFINE J == {j \in Job : /\ job[j].cancel /\ JobFree(s, j)
                             /\ \E t \in TicketsOf(j) : Swept(t)}
           S == {t \in Ticket : jobOf[t] \in J /\ ticketLock[t] = NoSession /\ Swept(t)}
           jobRows == [j \in J |-> JobSeen(s, j)]
           rows == [t \in S |-> [ticket[t] EXCEPT !.status = "CANCELLED", !.lease = "none"]]
           K == tx[s].jobs \cup {jobOf[t] : t \in S}
           next == [tx[s] EXCEPT !.step = "count", !.jobs = K]
<1>2. LockJobs(s, jobRows) /\ LockTickets(s, rows) /\ Continue(s, next)
  BY DEF SweepCancelled
<1>3. TicketsLocked(s)
  <2>1. /\ DOMAIN rows = S /\ S \subseteq Ticket
        /\ \A t \in S : rows[t] = [ticket[t] EXCEPT !.status = "CANCELLED", !.lease = "none"]
    OBVIOUS
  <2>2. ASSUME NEW t \in S
        PROVE  Follows(ticket[t], rows[t]) /\ TicketFree(s, t)
    <3>1. /\ ticket[t] \in TicketRow /\ Sound(ticket[t]) /\ ticket[t].status = "RUNNING"
          /\ TicketFree(s, t)
      BY <1>1 DEF TypeOK, LInv, RowsFollow, Swept, TicketFree
    <3> HIDE DEF rows, S
    <3> QED
      BY <2>1, <3>1, RowOperations
  <2> HIDE DEF rows, S
  <2> QED
    BY <1>1, <1>2, <2>1, <2>2, TicketLocking
<1>4. JobsLocked(s)
  <2>1. /\ DOMAIN jobRows = J /\ J \subseteq Job
        /\ \A j \in J : jobRows[j] \in JobRow /\ JobFree(s, j)
    BY <1>1, SeenTypes
  <2> HIDE DEF jobRows, J
  <2> QED
    BY <1>1, <1>2, <2>1, JobLocking
<1>5. next \in Transaction /\ Asked(next) /\ Found(next)
  <2>1. next \in Transaction
    <3>1. "count" \in Step /\ K \in SUBSET Job
      BY <1>1 DEF Step
    <3> HIDE DEF K
    <3> QED
      BY <1>1, <3>1, Updates
  <2>2. next.kind = "sweep"
    BY <1>1 DEF Transaction
  <2> QED
    BY <2>1, <2>2, OtherKinds DEF Settlement, Bulk
<1> QED
  BY <1>1, <1>2, <1>3, <1>4, <1>5, LocalStep

LEMMA CountProgressLocal ==
    ASSUME LInv, UNCHANGED jobOf, NEW s \in Session, CountProgress(s)
    PROVE  \E next : Local(s, next)
<1>1. /\ TypeOK /\ tx[s] \in Transaction /\ tx[s].kind \in Settlement /\ Asked(tx[s])
      /\ tx[s].jobs \subseteq Job
  BY DEF LInv, TypeOK, CountProgress, Settlement, Begun, Transaction
<1>2. PICK j \in tx[s].jobs :
        Continue(s, [tx[s] EXCEPT !.step = "write", !.progress = Counted(s, j)])
  BY DEF CountProgress
<1> DEFINE next == [tx[s] EXCEPT !.step = "write", !.progress = Counted(s, j)]
<1>3. JobsLocked(s) /\ TicketsLocked(s)
  BY <1>1, NoJobLocking, NoTicketLocking DEF CountProgress, locks, NoJobLocked, NoTicketLocked
<1>4. next \in Transaction
  <2>1. "write" \in Step /\ Counted(s, j) \in Progress
    BY <1>1, CountedType DEF Step
  <2> QED
    BY <1>1, <2>1, Updates
<1>5. /\ next.kind = tx[s].kind /\ next.rows = tx[s].rows /\ next.jobs = tx[s].jobs
      /\ next.target = tx[s].target
  BY <1>1 DEF Transaction
<1> HIDE DEF next
<1>6. Asked(next) /\ Found(next)
  BY <1>1, <1>5 DEF Asked, Found, Settlement, Bulk
<1> QED
  BY <1>1, <1>2, <1>3, <1>4, <1>6, LocalStep DEF next

LEMMA WriteProgressLocal ==
    ASSUME LInv, UNCHANGED jobOf, NEW s \in Session, WriteProgress(s)
    PROVE  \E next : Local(s, next)
<1>1. /\ TypeOK /\ tx[s] \in Transaction /\ Asked(tx[s]) /\ tx[s].jobs \subseteq Job
      /\ tx[s].progress \in Progress
  BY DEF LInv, TypeOK, Begun, Transaction
<1>2. PICK j \in tx[s].jobs :
         /\ JobFree(s, j)
         /\ LockJobs(s, [i \in {j} |-> WithProgress(JobSeen(s, i), tx[s].progress)])
  BY DEF WriteProgress
<1> DEFINE next == [tx[s] EXCEPT !.step = "commit"]
<1>3. Continue(s, next) /\ TicketsLocked(s)
  BY <1>1, NoTicketLocking DEF WriteProgress
<1>4. JobsLocked(s)
  <2> DEFINE rows == [i \in {j} |-> WithProgress(JobSeen(s, i), tx[s].progress)]
  <2>1. DOMAIN rows = {j} /\ rows[j] \in JobRow
    BY <1>1, SeenTypes, WithProgressType
  <2>2. LockJobs(s, rows)
    BY <1>2
  <2> HIDE DEF rows
  <2> QED
    BY <1>1, <1>2, <2>1, <2>2, JobLocking
<1>5. next \in Transaction
  BY <1>1, Updates DEF Step
<1>6. /\ next.kind = tx[s].kind /\ next.rows = tx[s].rows /\ next.jobs = tx[s].jobs
      /\ next.target = tx[s].target /\ next.step = "commit"
  BY <1>1 DEF Transaction
<1> HIDE DEF next
<1>7. Asked(next) /\ Found(next)
  BY <1>1, <1>6 DEF Asked, Found
<1> QED
  BY <1>1, <1>3, <1>4, <1>5, <1>7, LocalStep

LEMMA RecomputeProgressLocal ==
    ASSUME LInv, UNCHANGED jobOf, NEW s \in Session, RecomputeProgress(s)
    PROVE  \E next : Local(s, next)
<1>1. /\ TypeOK /\ tx[s] \in Transaction /\ Found(tx[s]) /\ tx[s].jobs \subseteq Job
      /\ tx[s].step = "count" /\ tx[s].kind \notin Settlement
  BY DEF LInv, TypeOK, Begun, Transaction, RecomputeProgress, Settlement
<1>2. TicketsLocked(s)
  BY <1>1, NoTicketLocking DEF RecomputeProgress
<1>3. ASSUME NEW next \in Transaction, Continue(s, next), JobsLocked(s),
             next.kind = tx[s].kind, next.step \in {"count", "commit"}
      PROVE  Local(s, next)
  <2>1. Asked(next) /\ Found(next)
    BY <1>1, <1>3 DEF Asked, Found
  <2> QED
    BY <1>1, <1>2, <1>3, <2>1, LocalStep
<1>4. CASE tx[s].jobs = {} /\ Continue(s, [tx[s] EXCEPT !.step = "commit"]) /\ NoJobLocked
  <2> DEFINE next == [tx[s] EXCEPT !.step = "commit"]
  <2>1. next \in Transaction
    BY <1>1, Updates DEF Step
  <2>2. next.kind = tx[s].kind /\ next.step = "commit"
    BY <1>1 DEF Transaction
  <2>3. JobsLocked(s)
    BY <1>1, <1>4, NoJobLocking
  <2> QED
    BY <1>3, <1>4, <2>1, <2>2, <2>3
<1>5. ASSUME NEW j \in tx[s].jobs, JobFree(s, j),
             LockJobs(s, [i \in {j} |-> WithProgress(JobSeen(s, i), Counted(s, i))]),
             Continue(s, [tx[s] EXCEPT !.jobs = @ \ {j}])
      PROVE  \E next : Local(s, next)
  <2> DEFINE J == tx[s].jobs \ {j}
             next == [tx[s] EXCEPT !.jobs = J]
             rows == [i \in {j} |-> WithProgress(JobSeen(s, i), Counted(s, i))]
  <2>1. DOMAIN rows = {j} /\ rows[j] \in JobRow
    BY <1>1, SeenTypes, WithProgressType, CountedType
  <2>2. JobsLocked(s)
    <3>1. LockJobs(s, rows)
      BY <1>5
    <3> HIDE DEF rows
    <3> QED
      BY <1>1, <1>5, <2>1, <3>1, JobLocking
  <2>3. next \in Transaction
    <3>1. J \in SUBSET Job /\ "count" \in Step
      BY <1>1 DEF Step
    <3> HIDE DEF J
    <3> QED
      BY <1>1, <3>1, Updates
  <2>4. next.kind = tx[s].kind /\ next.step = "count"
    BY <1>1 DEF Transaction
  <2>5. Continue(s, next)
    BY <1>5
  <2> HIDE DEF next
  <2> QED
    BY <1>3, <2>2, <2>3, <2>4, <2>5
<1> QED
  BY <1>4, <1>5 DEF RecomputeProgress

(* Together: a statement takes free rows, aborts or commits. *)
LEMMA StatementLocal ==
    ASSUME LInv, UNCHANGED jobOf, NEW s \in Session, Statement(s)
    PROVE  Rollback(s) \/ Commit(s) \/ \E next : Local(s, next)
BY LockJobLocal, SettleRowLocal, HeartbeatRowLocal, ScanJobRowsLocal, UpdateJobRowLocal,
   ScansLocal, ClaimRowsLocal, MarkRunningLocal, SweepRowsLocal, SweepCancelledLocal,
   CountProgressLocal, WriteProgressLocal, RecomputeProgressLocal DEF Statement

LEMMA BeginLocal ==
    ASSUME LInv, UNCHANGED jobOf, NEW s \in Session,
           NEW kind, NEW step \in Step, NEW worker \in Worker \cup {NoWorker},
           NEW target \in TicketStatus, NEW rows \in SUBSET Ticket, NEW jobs \in SUBSET Job,
           Begin(s, kind, step, worker, target, rows, jobs),
           kind \in Settlement =>
             target \in SettleTarget /\ \E t \in Ticket : rows = {t} /\ jobs = {jobOf[t]},
           kind \in Bulk => step = "job" /\ \E j \in Job : jobs = {j}
    PROVE  \E next : Local(s, next)
<1> DEFINE next == [tx[s] EXCEPT !.kind = kind, !.step = step, !.worker = worker,
                                 !.target = target, !.rows = rows, !.jobs = jobs]
<1>1. /\ TypeOK /\ tx[s] \in Transaction /\ kind \in Kinds
      /\ tx' = [tx EXCEPT ![s] = next] /\ UNCHANGED <<committed, locks>>
      /\ begun' \in 0 .. MaxBegun
  BY TransactionsAssumption DEF LInv, TypeOK, Begin
<1>2. JobsLocked(s) /\ TicketsLocked(s)
  BY <1>1, NoJobLocking, NoTicketLocking DEF locks, NoJobLocked, NoTicketLocked
<1>3. next \in Transaction
  BY <1>1 DEF Transaction
<1>4. /\ next.kind = kind /\ next.rows = rows /\ next.jobs = jobs /\ next.step = step
      /\ next.target = target
  BY <1>1 DEF Transaction
<1> HIDE DEF next
<1>5. Asked(next) /\ Found(next)
  BY <1>4 DEF Asked, Found
<1> QED
  BY <1>1, <1>2, <1>3, <1>5 DEF Local, committed

LEMMA BeginningsLocal ==
    ASSUME LInv, UNCHANGED jobOf, NEW s \in Session,
           \/ \E t \in Ticket, w \in Worker, target \in SettleTarget :
                 BeginSettlement(s, t, w, target)
           \/ BeginOther(s)
    PROVE  \E next : Local(s, next)
<1> USE DEF Settlement, Bulk, Step
<1>1. /\ \A t \in Ticket : jobOf[t] \in Job /\ {jobOf[t]} \in SUBSET Job /\ {t} \in SUBSET Ticket
      /\ {} \in SUBSET Ticket /\ {} \in SUBSET Job
  BY TransactionsAssumption DEF LInv, TypeOK
<1>2. {"RUNNING", "CANCELLED", "READY"} \cup SettleTarget \subseteq TicketStatus
  BY DEF TicketStatus, Pending, Terminal, SettleTarget
<1>3. ASSUME NEW t \in Ticket, NEW w \in Worker, NEW target \in SettleTarget,
             BeginSettlement(s, t, w, target)
      PROVE  \E next : Local(s, next)
  BY <1>1, <1>2, <1>3, BeginLocal DEF BeginSettlement
<1>4. ASSUME NEW w \in Worker, Begin(s, "claim", "scan", w, "RUNNING", {}, {})
      PROVE  \E next : Local(s, next)
  BY <1>1, <1>2, <1>4, BeginLocal
<1>5. ASSUME NEW t \in Ticket, NEW w \in Worker,
             Begin(s, "heartbeat", "rows", w, "RUNNING", {t}, {})
      PROVE  \E next : Local(s, next)
  BY <1>1, <1>2, <1>5, BeginLocal
<1>6. ASSUME NEW t \in Ticket, Begin(s, "cancel", "job", NoWorker, "CANCELLED", {}, {jobOf[t]})
      PROVE  \E next : Local(s, next)
  BY <1>1, <1>2, <1>6, BeginLocal
<1>7. ASSUME NEW t \in Ticket, Begin(s, "reset", "job", NoWorker, "READY", {}, {jobOf[t]})
      PROVE  \E next : Local(s, next)
  BY <1>1, <1>2, <1>7, BeginLocal
<1>8. CASE Begin(s, "sweep", "scan", NoWorker, "CANCELLED", {}, {})
  BY <1>1, <1>2, <1>8, BeginLocal
<1>9. CASE Begin(s, "reconcile", "scan", NoWorker, "READY", {}, {})
  BY <1>1, <1>2, <1>9, BeginLocal
<1> QED
  BY <1>3, <1>4, <1>5, <1>6, <1>7, <1>8, <1>9 DEF BeginOther

-----------------------------------------------------------------------------
(* The invariant of rows and transactions. *)

(* What is not local to the rows a session takes. *)
LEMMA NextCases ==
    ASSUME LInv, Next
    PROVE  /\ UNCHANGED jobOf
           /\ \/ \E s \in Session :
                    Rollback(s) \/ Commit(s) \/ \E next : Local(s, next)
              \/ \E t \in Ticket : LeaseExpires(t)
<1>1. UNCHANGED jobOf
  BY DEF Next
<1> QED
  BY <1>1, StatementLocal, BeginningsLocal DEF Next, Abort, SettleTarget

LEMMA LInvLocal ==
    ASSUME LInv, NEW s \in Session, NEW next, Local(s, next)
    PROVE  LInv'
<1>1. TypeOK'
  BY DEF LInv, TypeOK, Local, JobsLocked, TicketsLocked
<1>2. RowsFollow'
  BY DEF LInv, RowsFollow, Local, TicketsLocked, TicketKept, TicketTaken
<1>3. Begun'
  <2> SUFFICES ASSUME NEW r \in Session PROVE Asked(tx[r])' /\ Found(tx[r])'
    BY DEF Begun
  <2>1. tx'[r] = IF r = s THEN next ELSE tx[r]
    BY DEF LInv, TypeOK, Local
  <2>2. jobOf' = jobOf
    BY DEF Local
  <2>3. Asked(tx'[r]) /\ Found(tx'[r])
    BY <2>1 DEF LInv, Begun, Local
  <2> QED
    BY <2>2, <2>3 DEF Asked, Found
<1> QED
  BY <1>1, <1>2, <1>3 DEF LInv

LEMMA NoTransactionType == /\ NoTransaction \in Transaction
                           /\ Asked(NoTransaction) /\ Found(NoTransaction)
BY DEF NoTransaction, Transaction, Step, TicketStatus, Pending, NoProgress, Progress,
   JobStatus, OpenJobStatus, Asked, Found, Settlement, Bulk

(* Both ends of a transaction leave the session without one. *)
LEMMA LInvEnd ==
    ASSUME LInv, UNCHANGED jobOf, NEW s \in Session, Rollback(s) \/ Commit(s)
    PROVE  LInv'
<1>1. /\ jobLock' = [j \in Job |-> IF jobLock[j] = s THEN NoSession ELSE jobLock[j]]
      /\ ticketLock' = [t \in Ticket |-> IF ticketLock[t] = s THEN NoSession ELSE ticketLock[t]]
      /\ tx' = [tx EXCEPT ![s] = NoTransaction] /\ begun' = begun
  BY DEF Rollback, Commit, Unlock
<1>2. /\ job' \in [Job -> JobRow] /\ newJob' \in [Job -> JobRow]
      /\ ticket' \in [Ticket -> TicketRow] /\ newTicket' \in [Ticket -> TicketRow]
  BY DEF LInv, TypeOK, Rollback, Commit, committed
<1>3. TypeOK'
  BY <1>1, <1>2, NoTransactionType DEF LInv, TypeOK
<1>4. RowsFollow'
  <2> SUFFICES ASSUME NEW t \in Ticket
               PROVE  /\ Sound(ticket'[t])
                      /\ ticketLock'[t] # NoSession => Follows(ticket'[t], newTicket'[t])
    BY DEF RowsFollow
  <2>1. CASE ticketLock[t] = s
    <3>1. ticketLock'[t] = NoSession
      BY <1>1, <2>1
    <3>2. ticket'[t] = ticket[t] \/ ticket'[t] = newTicket[t]
      BY DEF Rollback, Commit, committed
    <3>3. Sound(ticket[t]) /\ Sound(newTicket[t])
      BY <2>1, TransactionsAssumption DEF LInv, RowsFollow, Follows
    <3> QED
      BY <3>1, <3>2, <3>3
  <2>2. CASE ticketLock[t] # s
    <3>1. ticket'[t] = ticket[t] /\ newTicket'[t] = newTicket[t] /\ ticketLock'[t] = ticketLock[t]
      BY <1>1, <2>2 DEF Rollback, Commit, committed, LInv, TypeOK
    <3> QED
      BY <3>1 DEF LInv, RowsFollow
  <2> QED
    BY <2>1, <2>2
<1>5. Begun'
  <2> SUFFICES ASSUME NEW r \in Session PROVE Asked(tx[r])' /\ Found(tx[r])'
    BY DEF Begun
  <2>1. tx'[r] = IF r = s THEN NoTransaction ELSE tx[r]
    BY <1>1 DEF LInv, TypeOK
  <2>2. Asked(tx'[r]) /\ Found(tx'[r])
    BY <2>1, NoTransactionType DEF LInv, Begun
  <2> QED
    BY <2>2 DEF Asked, Found
<1> QED
  BY <1>3, <1>4, <1>5 DEF LInv

LEMMA LInvExpiry ==
    ASSUME LInv, UNCHANGED jobOf, NEW t \in Ticket, LeaseExpires(t)
    PROVE  LInv'
<1>1. \A row \in TicketRow :
         /\ [row EXCEPT !.lease = "expired"] \in TicketRow
         /\ [row EXCEPT !.lease = "expired"].status = row.status
         /\ [row EXCEPT !.lease = "expired"].lease = "expired"
  BY DEF TicketRow
<1>2. TypeOK'
  <2>1. /\ ticket' \in [Ticket -> TicketRow] /\ newTicket' \in [Ticket -> TicketRow]
    BY <1>1 DEF LInv, TypeOK, LeaseExpires
  <2> QED
    BY <2>1 DEF LInv, TypeOK, LeaseExpires
<1>3. RowsFollow'
  <2> SUFFICES ASSUME NEW u \in Ticket
               PROVE  /\ Sound(ticket'[u])
                      /\ ticketLock'[u] # NoSession => Follows(ticket'[u], newTicket'[u])
    BY DEF RowsFollow
  <2>1. /\ ticket'[u].status = ticket[u].status
        /\ ticket'[u].lease # "none" <=> ticket[u].lease # "none"
    <3>1. u = t => ticket'[u] = [ticket[u] EXCEPT !.lease = "expired"]
      BY DEF LInv, TypeOK, LeaseExpires
    <3>2. u # t => ticket'[u] = ticket[u]
      BY DEF LInv, TypeOK, LeaseExpires
    <3>3. ticket[u] \in TicketRow
      BY DEF LInv, TypeOK
    <3>4. ticket[t].lease = "live"
      BY DEF LeaseExpires
    <3> QED
      BY <1>1, <3>1, <3>2, <3>3, <3>4
  <2>2. ticketLock'[u] # NoSession => ticketLock[u] # NoSession /\ newTicket'[u] = newTicket[u]
    BY DEF LInv, TypeOK, LeaseExpires
  <2> QED
    BY <2>1, <2>2 DEF LInv, RowsFollow, Sound, Follows
<1>4. Begun'
  BY DEF LInv, Begun, Asked, Found, LeaseExpires
<1> QED
  BY <1>2, <1>3, <1>4 DEF LInv

LEMMA LInvInit == Init => LInv
<1> SUFFICES ASSUME Init PROVE LInv
  OBVIOUS
<1>1. RestingRow \subseteq TicketRow /\ \A row \in RestingRow : Sound(row)
  BY DEF RestingRow, TicketRow, Sound, TicketStatus, Pending, Terminal
<1>2. ticket \in [Ticket -> TicketRow] /\ \A t \in Ticket : Sound(ticket[t])
  BY <1>1 DEF Init
<1>3. job \in [Job -> JobRow]
  <2> SUFFICES ASSUME NEW j \in Job PROVE job[j] \in JobRow
    BY DEF Init
  <2>1. \A x \in Terminal : Cardinality({t \in TicketsOf(j) : ticket[t].status = x}) \in Nat
    <3> SUFFICES ASSUME NEW x \in Terminal
                 PROVE  Cardinality({t \in TicketsOf(j) : ticket[t].status = x}) \in Nat
      OBVIOUS
    <3>1. {t \in TicketsOf(j) : ticket[t].status = x} \subseteq Ticket
      BY DEF TicketsOf
    <3> QED
      BY <3>1, TransactionsAssumption, FS_Subset, FS_CardinalityType
  <2>2. \A present : ProgressStatus(FALSE, present) \in JobStatus
    BY DEF ProgressStatus, JobStatus, OpenJobStatus
  <2> QED
    BY <2>1, <2>2 DEF Init, JobRow
<1>4. TypeOK
  <2>1. begun \in 0 .. MaxBegun /\ jobOf \in Layouts
    BY TransactionsAssumption DEF Init
  <2>2. tx \in [Session -> Transaction]
    BY NoTransactionType DEF Init
  <2>3. /\ jobLock \in [Job -> Session \cup {NoSession}]
        /\ ticketLock \in [Ticket -> Session \cup {NoSession}]
    BY DEF Init
  <2>4. newJob = job /\ newTicket = ticket
    BY DEF Init
  <2> HIDE DEF Init
  <2> QED
    BY <1>2, <1>3, <2>1, <2>2, <2>3, <2>4 DEF TypeOK
<1>5. Begun
  BY NoTransactionType DEF Init, Begun
<1> QED
  BY <1>2, <1>4, <1>5 DEF LInv, RowsFollow, Init

LEMMA LInvStep == LInv /\ [Next]_vars => LInv'
<1> SUFFICES ASSUME LInv, [Next]_vars PROVE LInv'
  OBVIOUS
<1>1. CASE Next
  BY <1>1, NextCases, LInvLocal, LInvEnd, LInvExpiry
<1>2. CASE UNCHANGED vars
  BY <1>2 DEF vars, LInv, TypeOK, RowsFollow, Begun, Asked, Found
<1> QED
  BY <1>1, <1>2

(* Every reachable state of JobTransactions has the types of TypeOK. *)
THEOREM TypeCorrect == Spec => []TypeOK
<1>1. LInv => TypeOK
  BY DEF LInv
<1> QED
  BY <1>1, LInvInit, LInvStep, PTL DEF Spec

(* Committed rows are leased exactly while RUNNING, whoever waited for the  *)
(* row of whom: the statements re-check what they lock                      *)
(* (ticket_repository.py:289 and :345).                                     *)
THEOREM LeasesFollowRowsHolds == Spec => []LeasesFollowRows
<1>1. LInv => LeasesFollowRows
  BY DEF LInv, RowsFollow, Sound, LeasesFollowRows
<1> QED
  BY <1>1, LInvInit, LInvStep, PTL DEF Spec

(* No transaction overwrites what another one committed since it looked.    *)
THEOREM CommittedTransitionsLegalHolds == Spec => CommittedTransitionsLegal
<1> DEFINE Legal == \A t \in Ticket : ticket'[t].status # ticket[t].status =>
                       ticket'[t].status \in AllowedTicketTransitions[ticket[t].status]
<1>1. LInv /\ [Next]_vars => Legal
  <2> SUFFICES ASSUME LInv, [Next]_vars, NEW t \in Ticket,
                      ticket'[t].status # ticket[t].status
               PROVE  ticket'[t].status \in AllowedTicketTransitions[ticket[t].status]
    OBVIOUS
  <2>1. CASE ticket' = ticket
    BY <2>1
  <2>2. ASSUME NEW u \in Ticket, LeaseExpires(u)
        PROVE  FALSE
    BY <2>2 DEF LInv, TypeOK, LeaseExpires, TicketRow
  <2>3. ASSUME NEW s \in Session, Commit(s)
        PROVE  ticket'[t].status \in AllowedTicketTransitions[ticket[t].status]
    <3>1. ticketLock[t] = s /\ ticket'[t] = newTicket[t]
      BY <2>3 DEF Commit
    <3> QED
      BY <3>1, TransactionsAssumption DEF LInv, RowsFollow, Follows
  <2>4. ASSUME NEW s \in Session, Rollback(s) \/ \E next : Local(s, next)
        PROVE  ticket' = ticket
    BY <2>4 DEF Rollback, committed, Local
  <2> QED
    BY <2>1, <2>2, <2>3, <2>4, NextCases DEF vars
<1> QED
  BY <1>1, LInvInit, LInvStep, PTL DEF Spec, CommittedTransitionsLegal
=============================================================================
