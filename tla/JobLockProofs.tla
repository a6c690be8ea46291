---------------------------- MODULE JobLockProofs ----------------------------
(* What the lock on the job row, taken before the tickets are read, is for, *)
(* for any number of concurrent sessions: the counters of jobs are exact    *)
(* after every commit, no transactions wait for each other, and a           *)
(* cancellation leaves no ticket of its job pending.                        *)
EXTENDS JobTransactionsProofs

(* Two rows that count alike, and progress that is exact of some rows. *)
Alike(a, b) == a.status = b.status \/ (a.status \notin Terminal /\ b.status \notin Terminal)

Exact(p, T, rows) ==
    /\ \A x \in Terminal : p.count[x] = Cardinality({t \in T : rows[t].status = x})
    /\ p.status \in OpenJobStatus <=> \E t \in T : rows[t].status \notin Terminal

(* The ticket rows as session s sees them. *)
View(s) == [t \in Ticket |-> TicketSeen(s, t)]

(* The jobs a transaction still is to recompute. *)
Owed(s) ==
    IF tx[s].step = "commit" \/ tx[s].kind \in {"none", "claim", "heartbeat"} THEN {}
                                                                             ELSE tx[s].jobs

(* Who holds what, and when. *)
NoTickets(s) == \A t \in Ticket : ticketLock[t] # s
NoJobs(s) == \A j \in Job : jobLock[j] # s
Held(s) == \A j \in tx[s].jobs : jobLock[j] = s

Places(s) ==
    /\ tx[s].kind = "none" => tx[s].step = "commit" /\ NoTickets(s) /\ NoJobs(s)
    /\ tx[s].step \in {"job", "scan"} => NoTickets(s)
    /\ tx[s].step = "rows" /\ tx[s].kind \notin Bulk => NoTickets(s)
    /\ tx[s].kind = "claim" /\ tx[s].step \in {"scan", "rows", "after"} => NoJobs(s)
    /\ tx[s].kind \in {"sweep", "reconcile"} /\ tx[s].step \in {"scan", "rows"} => tx[s].jobs = {}
    /\ tx[s].kind \in Settlement /\ tx[s].step \in {"rows", "count", "write"} => Held(s)
    /\ tx[s].kind \in Bulk /\ tx[s].step \in {"scan", "rows"} => Held(s)
    /\ tx[s].step = "write" =>
         /\ tx[s].kind \in Settlement
         /\ \A j \in tx[s].jobs : Exact(tx[s].progress, TicketsOf(j), View(s))

(* A ticket is settled or reopened only under the lock of its job. *)
Guarded(s) ==
    \A t \in Ticket :
        ticketLock[t] = s => Alike(ticket[t], newTicket[t]) \/ jobLock[jobOf[t]] = s

(* The job rows a transaction holds are exact of the tickets it sees, but   *)
(* for those it still is to recompute.                                      *)
Fresh(s) ==
    \A j \in Job :
        jobLock[j] = s => j \in Owed(s) \/ Exact(newJob[j], TicketsOf(j), View(s))

Proper(s) == Places(s) /\ Guarded(s) /\ Fresh(s)

PInv == LInv /\ CommittedProgressExact /\ \A s \in Session : Proper(s)

-----------------------------------------------------------------------------
LEMMA ExactFrame ==
    ASSUME NEW p, NEW q, NEW T, NEW a, NEW b, Exact(p, T, a),
           q.count = p.count, q.status \in OpenJobStatus <=> p.status \in OpenJobStatus,
           \A t \in T : Alike(a[t], b[t])
    PROVE  Exact(q, T, b)
<1>1. ASSUME NEW x \in Terminal
      PROVE  {t \in T : a[t].status = x} = {t \in T : b[t].status = x}
  BY DEF Alike
<1>2. \A t \in T : a[t].status \in Terminal <=> b[t].status \in Terminal
  BY DEF Alike
<1> QED
  BY <1>1, <1>2 DEF Exact

(* The property, said with Exact. *)
LEMMA CommittedIsExact ==
    CommittedProgressExact <=> \A j \in Job : Exact(job[j], TicketsOf(j), ticket)
BY DEF CommittedProgressExact, Exact

LEMMA CountedIsExact ==
    ASSUME NEW s \in Session, NEW j \in Job
    PROVE  Exact(Counted(s, j), TicketsOf(j), View(s))
<1> DEFINE T == TicketsOf(j)
<1>1. /\ T \subseteq Ticket
      /\ \A t \in T : View(s)[t] = TicketSeen(s, t)
  BY DEF TicketsOf, View
<1>2. \A x \in Terminal :
        Counted(s, j).count[x] = Cardinality({t \in T : View(s)[t].status = x})
  <2> SUFFICES ASSUME NEW x \in Terminal
               PROVE  Counted(s, j).count[x] = Cardinality({t \in T : View(s)[t].status = x})
    OBVIOUS
  <2>1. {t \in T : View(s)[t].status = x} = {t \in T : TicketSeen(s, t).status = x}
    BY <1>1
  <2>2. Counted(s, j).count[x] = Cardinality({t \in T : TicketSeen(s, t).status = x})
    BY DEF Counted
  <2> QED
    BY <2>1, <2>2
<1>3. \A cancel, present :
        ProgressStatus(cancel, present) \in OpenJobStatus <=> ~(present \subseteq Terminal)
  BY DEF ProgressStatus, OpenJobStatus
<1>4. Counted(s, j).status \in OpenJobStatus <=> \E t \in T : View(s)[t].status \notin Terminal
  <2> DEFINE present == {TicketSeen(s, t).status : t \in T}
  <2>1. Counted(s, j).status = ProgressStatus(JobSeen(s, j).cancel, present)
    BY DEF Counted
  <2>2. ~(present \subseteq Terminal) <=> \E t \in T : View(s)[t].status \notin Terminal
    BY <1>1
  <2> HIDE DEF present
  <2> QED
    BY <1>3, <2>1, <2>2
<1> QED
  BY <1>2, <1>4 DEF Exact

(* What the locking statements leave, spelled out. *)
LEMMA Views ==
    ASSUME NEW s
    PROVE  /\ \A t \in Ticket : View(s)[t] = IF ticketLock[t] = s THEN newTicket[t] ELSE ticket[t]
           /\ \A j : TicketsOf(j) \subseteq Ticket /\ \A t \in TicketsOf(j) : jobOf[t] = j
           /\ \A t \in Ticket : t \in TicketsOf(jobOf[t])
BY DEF View, TicketSeen, TicketsOf

LEMMA ViewsNext ==
    ASSUME NEW s, UNCHANGED jobOf
    PROVE  /\ \A t \in Ticket :
                View(s)'[t] = IF ticketLock'[t] = s THEN newTicket'[t] ELSE ticket'[t]
           /\ \A j : TicketsOf(j)' = TicketsOf(j)
BY DEF View, TicketSeen, TicketsOf

(* Sessions that do not act are left alone by one that takes free rows.     *)
LEMMA OthersLocal ==
    ASSUME PInv, NEW s \in Session, NEW next, Local(s, next), NEW r \in Session, r # s
    PROVE  Proper(r)'
<1>1. /\ UNCHANGED <<job, ticket, jobOf>> /\ tx'[r] = tx[r] /\ r # NoSession
      /\ \A j \in Job : /\ jobLock'[j] = r <=> jobLock[j] = r
                        /\ jobLock[j] = r => newJob'[j] = newJob[j]
      /\ \A t \in Ticket : /\ ticketLock'[t] = r <=> ticketLock[t] = r
                           /\ ticketLock[t] = r => newTicket'[t] = newTicket[t]
  BY TransactionsAssumption DEF Local, JobsLocked, TicketsLocked, JobKept, JobTaken, TicketKept,
     TicketTaken, JobFree, TicketFree, PInv, LInv, TypeOK
<1>2. View(r)' = View(r) /\ \A j : TicketsOf(j)' = TicketsOf(j)
  BY <1>1 DEF View, TicketSeen, TicketsOf
<1>3. tx[r].jobs \subseteq Job /\ \A t \in Ticket : jobOf[t] \in Job
  BY TransactionsAssumption DEF PInv, LInv, TypeOK, Transaction
<1>4. Proper(r)
  BY DEF PInv
<1>5. (NoTickets(r)' <=> NoTickets(r)) /\ (NoJobs(r)' <=> NoJobs(r)) /\ (Held(r)' <=> Held(r))
      /\ Owed(r)' = Owed(r)
  BY <1>1, <1>3 DEF NoTickets, NoJobs, Held, Owed
<1>6. Places(r)'
  BY <1>1, <1>2, <1>4, <1>5 DEF Proper, Places
<1>7. Guarded(r)'
  BY <1>1, <1>3, <1>4 DEF Proper, Guarded
<1>8. Fresh(r)'
  BY <1>1, <1>2, <1>4, <1>5 DEF Proper, Fresh
<1> QED
  BY <1>6, <1>7, <1>8 DEF Proper

LEMMA PInvLocal ==
    ASSUME PInv, NEW s \in Session, NEW next, Local(s, next), Proper(s)'
    PROVE  PInv'
<1>1. LInv'
  BY LInvLocal DEF PInv
<1>2. CommittedProgressExact'
  BY DEF PInv, Local, CommittedProgressExact, TicketsOf
<1>3. ASSUME NEW r \in Session
      PROVE  Proper(r)'
  BY OthersLocal
<1> QED
  BY <1>1, <1>2, <1>3 DEF PInv

(* A session that ends leaves the views of the others as they were, but for *)
(* rows that count alike.                                                   *)
LEMMA PInvRollback ==
    ASSUME PInv, UNCHANGED jobOf, NEW s \in Session, Rollback(s)
    PROVE  PInv'
<1>1. /\ UNCHANGED <<job, ticket, jobOf>>
      /\ \A r \in Session : tx'[r] = IF r = s THEN NoTransaction ELSE tx[r]
      /\ \A j \in Job : /\ jobLock'[j] = IF jobLock[j] = s THEN NoSession ELSE jobLock[j]
                        /\ jobLock[j] # s => newJob'[j] = newJob[j]
      /\ \A t \in Ticket : /\ ticketLock'[t] = IF ticketLock[t] = s THEN NoSession ELSE ticketLock[t]
                           /\ ticketLock[t] # s => newTicket'[t] = newTicket[t]
  BY DEF Rollback, Unlock, committed, PInv, LInv, TypeOK
<1>2. LInv'
  BY LInvEnd DEF PInv
<1>3. CommittedProgressExact'
  BY <1>1 DEF PInv, CommittedProgressExact, TicketsOf
<1>4. Proper(s)'
  <2>1. NoTickets(s)' /\ NoJobs(s)'
    BY <1>1, TransactionsAssumption DEF NoTickets, NoJobs
  <2>2. tx'[s] = NoTransaction
    BY <1>1
  <2> QED
    BY <2>1, <2>2 DEF Proper, Places, Guarded, Fresh, NoTickets, NoJobs, NoTransaction,
       Settlement, Bulk
<1>5. ASSUME NEW r \in Session, r # s
      PROVE  Proper(r)'
  <2>1. /\ tx'[r] = tx[r] /\ r # NoSession /\ Proper(r)
        /\ \A j \in Job : /\ jobLock'[j] = r <=> jobLock[j] = r
                          /\ jobLock[j] = r => newJob'[j] = newJob[j]
        /\ \A t \in Ticket : /\ ticketLock'[t] = r <=> ticketLock[t] = r
                             /\ ticketLock[t] = r => newTicket'[t] = newTicket[t]
    BY <1>1, <1>5, TransactionsAssumption DEF PInv
  <2>2. View(r)' = View(r) /\ \A j : TicketsOf(j)' = TicketsOf(j)
    BY <1>1, <2>1 DEF View, TicketSeen, TicketsOf
  <2>3. tx[r].jobs \subseteq Job /\ \A t \in Ticket : jobOf[t] \in Job
    BY TransactionsAssumption DEF PInv, LInv, TypeOK, Transaction
  <2>4. (NoTickets(r)' <=> NoTickets(r)) /\ (NoJobs(r)' <=> NoJobs(r)) /\ (Held(r)' <=> Held(r))
        /\ Owed(r)' = Owed(r)
    BY <2>1, <2>3 DEF NoTickets, NoJobs, Held, Owed
  <2>5. Places(r)'
    BY <2>1, <2>2, <2>4 DEF Proper, Places
  <2>6. Guarded(r)'
    BY <1>1, <2>1, <2>3 DEF Proper, Guarded
  <2>7. Fresh(r)'
    BY <2>1, <2>2, <2>4 DEF Proper, Fresh
  <2> QED
    BY <2>5, <2>6, <2>7 DEF Proper
<1> QED
  BY <1>2, <1>3, <1>4, <1>5 DEF PInv

(* Rows of jobs that s does not hold count as before its commit.            *)
LEMMA PInvCommit ==
    ASSUME PInv, UNCHANGED jobOf, NEW s \in Session, Commit(s)
    PROVE  PInv'
<1>1. /\ \A r \in Session : tx'[r] = IF r = s THEN NoTransaction ELSE tx[r]
      /\ \A j \in Job : /\ jobLock'[j] = IF jobLock[j] = s THEN NoSession ELSE jobLock[j]
                        /\ job'[j] = IF jobLock[j] = s THEN newJob[j] ELSE job[j]
      /\ \A t \in Ticket :
            /\ ticketLock'[t] = IF ticketLock[t] = s THEN NoSession ELSE ticketLock[t]
            /\ ticket'[t] = IF ticketLock[t] = s THEN newTicket[t] ELSE ticket[t]
      /\ newJob' = newJob /\ newTicket' = newTicket /\ jobOf' = jobOf
  BY DEF Commit, Unlock, PInv, LInv, TypeOK
<1>2. LInv'
  BY LInvEnd DEF PInv
<1>3. Proper(s) /\ Owed(s) = {} /\ \A t \in Ticket : jobOf[t] \in Job
  BY TransactionsAssumption DEF Commit, Owed, PInv, LInv, TypeOK
<1>4. \A t \in Ticket : jobLock[jobOf[t]] # s => Alike(ticket[t], ticket'[t])
  BY <1>1, <1>3 DEF Proper, Guarded, Alike
<1>5. \A j : TicketsOf(j)' = TicketsOf(j)
  BY <1>1 DEF TicketsOf
<1>6. CommittedProgressExact'
  <2>1. ASSUME NEW j \in Job
        PROVE  Exact(job'[j], TicketsOf(j), ticket')
    <3>1. CASE jobLock[j] = s
      <4>1. Exact(newJob[j], TicketsOf(j), View(s))
        BY <1>3, <3>1 DEF Proper, Fresh
      <4>2. \A t \in TicketsOf(j) : ticket'[t] = View(s)[t]
        BY <1>1, Views
      <4> QED
        BY <1>1, <3>1, <4>1, <4>2, ExactFrame DEF Alike
    <3>2. CASE jobLock[j] # s
      <4>1. Exact(job[j], TicketsOf(j), ticket)
        BY CommittedIsExact DEF PInv
      <4>2. \A t \in TicketsOf(j) : Alike(ticket[t], ticket'[t])
        BY <1>4, <3>2, Views
      <4> QED
        BY <1>1, <3>2, <4>1, <4>2, ExactFrame
    <3> QED
      BY <3>1, <3>2
  <2> QED
    BY <1>5, <2>1 DEF CommittedProgressExact, Exact
<1>7. Proper(s)'
  <2>1. NoTickets(s)' /\ NoJobs(s)'
    BY <1>1, TransactionsAssumption DEF NoTickets, NoJobs
  <2>2. tx'[s] = NoTransaction
    BY <1>1
  <2> QED
    BY <2>1, <2>2 DEF Proper, Places, Guarded, Fresh, NoTickets, NoJobs, NoTransaction,
       Settlement, Bulk
<1>8. ASSUME NEW r \in Session, r # s
      PROVE  Proper(r)'
  <2>1. /\ tx'[r] = tx[r] /\ r # NoSession /\ Proper(r)
        /\ \A j \in Job : jobLock'[j] = r <=> jobLock[j] = r
        /\ \A t \in Ticket : /\ ticketLock'[t] = r <=> ticketLock[t] = r
                             /\ ticketLock[t] = r => ticket'[t] = ticket[t]
    BY <1>1, <1>8, TransactionsAssumption DEF PInv
  <2>2. ASSUME NEW j \in Job, jobLock[j] = r, NEW t \in TicketsOf(j)
        PROVE  Alike(View(r)[t], View(r)'[t])
    <3>1. t \in Ticket /\ jobOf[t] = j
      BY Views
    <3>2. CASE ticketLock[t] = r
      <4>1. View(r)'[t] = newTicket[t] /\ View(r)[t] = newTicket[t]
        BY <1>1, <2>1, <3>1, <3>2, Views, ViewsNext
      <4> QED
        BY <4>1 DEF Alike
    <3>3. CASE ticketLock[t] # r
      <4>1. View(r)'[t] = ticket'[t] /\ View(r)[t] = ticket[t]
        BY <2>1, <3>1, <3>3, Views, ViewsNext
      <4>2. Alike(ticket[t], ticket'[t])
        BY <1>4, <1>8, <2>2, <3>1
      <4> QED
        BY <4>1, <4>2
    <3> QED
      BY <3>2, <3>3
  <2>3. tx[r].jobs \subseteq Job
    BY DEF PInv, LInv, TypeOK, Transaction
  <2>4. (NoTickets(r)' <=> NoTickets(r)) /\ (NoJobs(r)' <=> NoJobs(r)) /\ (Held(r)' <=> Held(r))
        /\ Owed(r)' = Owed(r)
    BY <2>1, <2>3 DEF NoTickets, NoJobs, Held, Owed
  <2>5. ASSUME NEW j \in Job, jobLock[j] = r, NEW p, Exact(p, TicketsOf(j), View(r))
        PROVE  Exact(p, TicketsOf(j)', View(r)')
    BY <1>5, <2>2, <2>5, ExactFrame
  <2>6. Places(r)'
    <3>1. tx[r].step = "write" => tx[r].kind \in Settlement
             /\ \A j \in tx[r].jobs : Exact(tx[r].progress, TicketsOf(j)', View(r)')
      <4> SUFFICES ASSUME tx[r].step = "write", NEW j \in tx[r].jobs
                   PROVE  tx[r].kind \in Settlement /\ Exact(tx[r].progress, TicketsOf(j)', View(r)')
        BY <2>1 DEF Proper, Places
      <4>1. /\ tx[r].kind \in Settlement /\ Held(r)
            /\ Exact(tx[r].progress, TicketsOf(j), View(r))
        BY <2>1 DEF Proper, Places
      <4>2. j \in Job /\ jobLock[j] = r
        BY <2>3, <4>1 DEF Held
      <4> QED
        BY <2>5, <4>1, <4>2
    <3> QED
      BY <2>1, <2>4, <3>1 DEF Proper, Places
  <2>7. Guarded(r)'
    BY <1>1, <1>3, <2>1 DEF Proper, Guarded
  <2>8. Fresh(r)'
    BY <1>1, <2>1, <2>4, <2>5 DEF Proper, Fresh
  <2> QED
    BY <2>6, <2>7, <2>8 DEF Proper
<1> QED
  BY <1>2, <1>6, <1>7, <1>8 DEF PInv

LEMMA PInvExpiry ==
    ASSUME PInv, UNCHANGED jobOf, NEW u \in Ticket, LeaseExpires(u)
    PROVE  PInv'
<1>1. /\ UNCHANGED <<job, newJob, jobLock, ticketLock, tx, jobOf>>
      /\ \A t \in Ticket : ticket'[t].status = ticket[t].status
      /\ \A t \in Ticket : newTicket'[t].status = newTicket[t].status
  BY DEF LeaseExpires, PInv, LInv, TypeOK, TicketRow
<1>2. LInv'
  BY LInvExpiry DEF PInv
<1>3. \A j : TicketsOf(j)' = TicketsOf(j)
  BY <1>1 DEF TicketsOf
<1>4. CommittedProgressExact'
  <2>1. ASSUME NEW j \in Job
        PROVE  Exact(job'[j], TicketsOf(j), ticket')
    <3>1. Exact(job[j], TicketsOf(j), ticket)
      BY CommittedIsExact DEF PInv
    <3>2. \A t \in TicketsOf(j) : Alike(ticket[t], ticket'[t])
      BY <1>1, Views DEF Alike
    <3> QED
      BY <1>1, <3>1, <3>2, ExactFrame
  <2> QED
    BY <1>3, <2>1 DEF CommittedProgressExact, Exact
<1>5. ASSUME NEW r \in Session
      PROVE  Proper(r)'
  <2>1. Proper(r)
    BY DEF PInv
  <2>2. \A t \in Ticket : Alike(View(r)[t], View(r)'[t])
    BY <1>1, Views, ViewsNext DEF Alike
  <2>3. ASSUME NEW j, NEW p, Exact(p, TicketsOf(j), View(r))
        PROVE  Exact(p, TicketsOf(j)', View(r)')
    BY <1>3, <2>2, <2>3, Views, ExactFrame
  <2>4. (NoTickets(r)' <=> NoTickets(r)) /\ (NoJobs(r)' <=> NoJobs(r)) /\ (Held(r)' <=> Held(r))
        /\ Owed(r)' = Owed(r)
    BY <1>1 DEF NoTickets, NoJobs, Held, Owed
  <2>5. Places(r)'
    BY <1>1, <2>1, <2>3, <2>4 DEF Proper, Places
  <2>6. Guarded(r)'
    BY <1>1, <2>1 DEF Proper, Guarded, Alike
  <2>7. Fresh(r)'
    BY <1>1, <2>1, <2>3, <2>4 DEF Proper, Fresh
  <2> QED
    BY <2>5, <2>6, <2>7 DEF Proper
<1> QED
  BY <1>2, <1>4, <1>5 DEF PInv

LEMMA PInvInit == Init => PInv
<1> SUFFICES ASSUME Init PROVE PInv
  OBVIOUS
<1>1. \A cancel, present :
        ProgressStatus(cancel, present) \in OpenJobStatus <=> ~(present \subseteq Terminal)
  BY DEF ProgressStatus, OpenJobStatus
<1>2. CommittedProgressExact
  <2> SUFFICES ASSUME NEW j \in Job
               PROVE  /\ \A x \in Terminal :
                           job[j].count[x] = Cardinality({t \in TicketsOf(j) : ticket[t].status = x})
                      /\ job[j].status \in OpenJobStatus
                           <=> \E t \in TicketsOf(j) : ticket[t].status \notin Terminal
    BY DEF CommittedProgressExact
  <2> DEFINE present == {ticket[t].status : t \in TicketsOf(j)}
  <2>1. job[j].status = ProgressStatus(FALSE, present)
    BY DEF Init
  <2>2. ~(present \subseteq Terminal) <=> \E t \in TicketsOf(j) : ticket[t].status \notin Terminal
    OBVIOUS
  <2>3. \A x \in Terminal :
           job[j].count[x] = Cardinality({t \in TicketsOf(j) : ticket[t].status = x})
    BY DEF Init
  <2> HIDE DEF present
  <2> QED
    BY <1>1, <2>1, <2>2, <2>3
<1>3. ASSUME NEW s \in Session
      PROVE  Proper(s)
  <2>1. NoTickets(s) /\ NoJobs(s) /\ tx[s] = NoTransaction
    BY TransactionsAssumption DEF Init, NoTickets, NoJobs
  <2> QED
    BY <2>1 DEF Proper, Places, Guarded, Fresh, NoTickets, NoJobs, NoTransaction,
       Settlement, Bulk
<1> QED
  BY <1>2, <1>3, LInvInit DEF PInv

-----------------------------------------------------------------------------
(* What each statement does to the session that runs it. *)

LEMMA Facts ==
    ASSUME PInv, NEW s \in Session
    PROVE  /\ TypeOK /\ tx[s] \in Transaction /\ tx[s].jobs \subseteq Job
           /\ tx[s].rows \subseteq Ticket /\ Proper(s) /\ Asked(tx[s]) /\ Found(tx[s])
           /\ s # NoSession /\ \A t \in Ticket : jobOf[t] \in Job
BY TransactionsAssumption DEF PInv, LInv, TypeOK, Begun, Transaction

LEMMA ContinueFacts ==
    ASSUME TypeOK, NEW s \in Session, NEW next, Continue(s, next)
    PROVE  tx'[s] = next /\ UNCHANGED <<job, ticket>>
BY DEF TypeOK, Continue, committed

(* What a continued transaction has kept. *)
LEMMA Continued ==
    ASSUME TypeOK, NEW s \in Session, tx[s] \in Transaction
    PROVE  /\ \A st : Continue(s, [tx[s] EXCEPT !.step = st]) =>
                tx'[s].step = st /\ tx'[s].kind = tx[s].kind /\ tx'[s].jobs = tx[s].jobs
           /\ \A st, R : Continue(s, [tx[s] EXCEPT !.step = st, !.rows = R]) =>
                tx'[s].step = st /\ tx'[s].kind = tx[s].kind /\ tx'[s].jobs = tx[s].jobs
           /\ \A st, R, J : Continue(s, [tx[s] EXCEPT !.step = st, !.rows = R, !.seen = J]) =>
                tx'[s].step = st /\ tx'[s].kind = tx[s].kind /\ tx'[s].jobs = tx[s].jobs
           /\ \A st, R, J : Continue(s, [tx[s] EXCEPT !.step = st, !.rows = R, !.jobs = J]) =>
                tx'[s].step = st /\ tx'[s].kind = tx[s].kind /\ tx'[s].jobs = J
           /\ \A st, J : Continue(s, [tx[s] EXCEPT !.step = st, !.jobs = J]) =>
                tx'[s].step = st /\ tx'[s].kind = tx[s].kind /\ tx'[s].jobs = J
           /\ \A st, p : Continue(s, [tx[s] EXCEPT !.step = st, !.progress = p]) =>
                /\ tx'[s].step = st /\ tx'[s].kind = tx[s].kind /\ tx'[s].jobs = tx[s].jobs
                /\ tx'[s].progress = p
           /\ \A st, g : Continue(s, [tx[s] EXCEPT !.step = st, !.target = g]) =>
                tx'[s].step = st /\ tx'[s].kind = tx[s].kind /\ tx'[s].jobs = tx[s].jobs
           /\ \A J : Continue(s, [tx[s] EXCEPT !.jobs = J]) =>
                tx'[s].step = tx[s].step /\ tx'[s].kind = tx[s].kind /\ tx'[s].jobs = J
           /\ \A next : Continue(s, next) => tx'[s] = next /\ UNCHANGED <<job, ticket>>
<1>1. \A next : Continue(s, next) => tx'[s] = next /\ UNCHANGED <<job, ticket>>
  BY ContinueFacts
<1>2. ASSUME NEW st, Continue(s, [tx[s] EXCEPT !.step = st])
      PROVE  /\ tx'[s].step = st /\ tx'[s].kind = tx[s].kind /\ tx'[s].jobs = tx[s].jobs
  <2>1. tx'[s] = [tx[s] EXCEPT !.step = st]
    BY <1>1, <1>2
  <2> QED
    BY <2>1 DEF Transaction
<1>3. ASSUME NEW st, NEW R, Continue(s, [tx[s] EXCEPT !.step = st, !.rows = R])
      PROVE  /\ tx'[s].step = st /\ tx'[s].kind = tx[s].kind /\ tx'[s].jobs = tx[s].jobs
  <2>1. tx'[s] = [tx[s] EXCEPT !.step = st, !.rows = R]
    BY <1>1, <1>3
  <2> QED
    BY <2>1 DEF Transaction
<1>4. ASSUME NEW st, NEW R, NEW J, Continue(s, [tx[s] EXCEPT !.step = st, !.rows = R, !.seen = J])
      PROVE  /\ tx'[s].step = st /\ tx'[s].kind = tx[s].kind /\ tx'[s].jobs = tx[s].jobs
  <2>1. tx'[s] = [tx[s] EXCEPT !.step = st, !.rows = R, !.seen = J]
    BY <1>1, <1>4
  <2> QED
    BY <2>1 DEF Transaction
<1>5. ASSUME NEW st, NEW R, NEW J, Continue(s, [tx[s] EXCEPT !.step = st, !.rows = R, !.jobs = J])
      PROVE  /\ tx'[s].step = st /\ tx'[s].kind = tx[s].kind /\ tx'[s].jobs = J
  <2>1. tx'[s] = [tx[s] EXCEPT !.step = st, !.rows = R, !.jobs = J]
    BY <1>1, <1>5
  <2> QED
    BY <2>1 DEF Transaction
<1>6. ASSUME NEW st, NEW J, Continue(s, [tx[s] EXCEPT !.step = st, !.jobs = J])
      PROVE  /\ tx'[s].step = st /\ tx'[s].kind = tx[s].kind /\ tx'[s].jobs = J
  <2>1. tx'[s] = [tx[s] EXCEPT !.step = st, !.jobs = J]
    BY <1>1, <1>6
  <2> QED
    BY <2>1 DEF Transaction
<1>7. ASSUME NEW st, NEW p, Continue(s, [tx[s] EXCEPT !.step = st, !.progress = p])
      PROVE  /\ tx'[s].step = st /\ tx'[s].kind = tx[s].kind /\ tx'[s].jobs = tx[s].jobs
             /\ tx'[s].progress = p
  <2>1. tx'[s] = [tx[s] EXCEPT !.step = st, !.progress = p]
    BY <1>1, <1>7
  <2> QED
    BY <2>1 DEF Transaction
<1>8. ASSUME NEW st, NEW g, Continue(s, [tx[s] EXCEPT !.step = st, !.target = g])
      PROVE  /\ tx'[s].step = st /\ tx'[s].kind = tx[s].kind /\ tx'[s].jobs = tx[s].jobs
  <2>1. tx'[s] = [tx[s] EXCEPT !.step = st, !.target = g]
    BY <1>1, <1>8
  <2> QED
    BY <2>1 DEF Transaction
<1>9. ASSUME NEW J, Continue(s, [tx[s] EXCEPT !.jobs = J])
      PROVE  /\ tx'[s].step = tx[s].step /\ tx'[s].kind = tx[s].kind /\ tx'[s].jobs = J
  <2>1. tx'[s] = [tx[s] EXCEPT !.jobs = J]
    BY <1>1, <1>9
  <2> QED
    BY <2>1 DEF Transaction
<1> QED
  BY <1>1, <1>2, <1>3, <1>4, <1>5, <1>6, <1>7, <1>8, <1>9

(* Without new locks the views stay.                                        *)
LEMMA LocksKept ==
    ASSUME UNCHANGED <<locks, ticket, jobOf>>, NEW s
    PROVE  /\ View(s)' = View(s) /\ \A j : TicketsOf(j)' = TicketsOf(j)
           /\ NoTickets(s)' <=> NoTickets(s)
           /\ NoJobs(s)' <=> NoJobs(s)
           /\ Guarded(s)' <=> Guarded(s)
           /\ UNCHANGED <<jobLock, newJob, ticketLock, newTicket>>
BY DEF locks, View, TicketSeen, TicketsOf, NoTickets, NoJobs, Guarded

LEMMA BeginProper ==
    ASSUME PInv, UNCHANGED jobOf, NEW s \in Session, NEW kind, NEW step, NEW worker,
           NEW target, NEW rows, NEW jobs,
           Begin(s, kind, step, worker, target, rows, jobs),
           step \in {"job", "scan", "rows"}, step = "rows" => kind = "heartbeat",
           kind \in Settlement \cup Bulk => step = "job",
           kind \in {"sweep", "reconcile"} => jobs = {}
    PROVE  Proper(s)'
<1> DEFINE next == [tx[s] EXCEPT !.kind = kind, !.step = step, !.worker = worker,
                                 !.target = target, !.rows = rows, !.jobs = jobs]
<1>1. /\ kind \in Kinds /\ tx[s] = NoTransaction /\ UNCHANGED <<locks, job, ticket>>
      /\ tx' = [tx EXCEPT ![s] = next]
  BY DEF Begin, committed
<1>2. /\ tx'[s] = next /\ next.kind = kind /\ next.step = step /\ next.jobs = jobs
  BY <1>1, Facts DEF TypeOK, Transaction
<1>3. NoTickets(s) /\ NoJobs(s) /\ kind # "none"
  BY <1>1, Facts, TransactionsAssumption DEF Proper, Places, NoTransaction
<1>4. NoTickets(s)' /\ NoJobs(s)'
  BY <1>1, <1>3 DEF locks, NoTickets, NoJobs
<1> HIDE DEF next
<1>5. Places(s)'
  BY <1>2, <1>3, <1>4 DEF Places, Settlement, Bulk
<1> QED
  BY <1>4, <1>5 DEF Proper, Guarded, Fresh, NoTickets, NoJobs

LEMMA ScansProper ==
    ASSUME PInv, UNCHANGED jobOf, NEW s \in Session,
           ClaimScan(s) \/ SweepScan(s) \/ ReconcileScan(s) \/ ScanJobRows(s), ~Rollback(s)
    PROVE  Proper(s)'
<1>1. /\ tx[s].step = "scan" /\ tx[s].kind \in {"claim", "sweep", "reconcile"} \cup Bulk
      /\ UNCHANGED <<locks, job, ticket>>
      /\ tx'[s].kind = tx[s].kind
      /\ tx[s].kind = "claim" => tx'[s].step = "rows" /\ tx'[s].jobs = tx[s].jobs
      /\ tx[s].kind = "sweep" => tx'[s].step = "rows" /\ tx'[s].jobs = tx[s].jobs
      /\ tx[s].kind = "reconcile" => tx'[s].step = "count"
      /\ tx[s].kind \in Bulk => tx'[s].step \in {"rows", "count"} /\ tx'[s].jobs = tx[s].jobs
  <2>1. CASE ClaimScan(s)
    BY <2>1, Facts, Continued DEF ClaimScan, Bulk
  <2>2. CASE SweepScan(s)
    BY <2>2, Facts, Continued DEF SweepScan, Bulk
  <2>3. CASE ReconcileScan(s)
    BY <2>3, Facts, Continued DEF ReconcileScan, Bulk
  <2>4. CASE ScanJobRows(s)
    <3>1. \E st \in {"rows", "count"} : \E R :
            Continue(s, [tx[s] EXCEPT !.step = st, !.rows = R]) /\ UNCHANGED locks
      BY <2>4 DEF ScanJobRows
    <3> QED
      BY <2>4, <3>1, Facts, Continued DEF ScanJobRows, Bulk
  <2> QED
    BY <2>1, <2>2, <2>3, <2>4
<1>2. Proper(s) /\ NoTickets(s)
  BY <1>1, Facts DEF Proper, Places
<1>3. /\ View(s)' = View(s) /\ \A j : TicketsOf(j)' = TicketsOf(j)
      /\ NoTickets(s)'
      /\ NoJobs(s)' <=> NoJobs(s)
      /\ Guarded(s)' /\ UNCHANGED <<jobLock, newJob>>
  BY <1>1, <1>2, LocksKept DEF Proper
<1>4. Places(s)'
  BY <1>1, <1>2, <1>3 DEF Proper, Places, Held, Settlement, Bulk
<1>5. Fresh(s)'
  <2>1. Owed(s) \subseteq Owed(s)'
    BY <1>1, <1>2 DEF Owed, Bulk, Proper, Places
  <2> QED
    BY <1>2, <1>3, <2>1 DEF Proper, Fresh
<1> QED
  BY <1>3, <1>4, <1>5 DEF Proper

LEMMA LockJobProper ==
    ASSUME PInv, UNCHANGED jobOf, NEW s \in Session, LockJob(s), ~Rollback(s)
    PROVE  Proper(s)'
<1>1. PICK j \in tx[s].jobs :
        /\ tx[s].step = "job" /\ JobFree(s, j)
        /\ \/ LockJobs(s, [i \in {j} |-> job[i]])
           \/ LockJobs(s, [i \in {j} |-> [job[i] EXCEPT !.cancel = TRUE]])
        /\ \/ /\ tx[s].kind \in Settlement
              /\ \/ Continue(s, [tx[s] EXCEPT !.step = "rows"])
                 \/ Continue(s, [tx[s] EXCEPT !.step = "rows",
                                     !.target = IF job[j].cancel THEN "CANCELLED" ELSE @])
           \/ /\ tx[s].kind \in Bulk
              /\ Continue(s, [tx[s] EXCEPT !.step = "scan"])
        /\ NoTicketLocked
  BY DEF LockJob, Settlement, Bulk
<1>2. /\ tx'[s].kind = tx[s].kind /\ tx'[s].jobs = tx[s].jobs
      /\ tx[s].kind \in Settlement => tx'[s].step = "rows"
      /\ tx[s].kind \in Bulk => tx'[s].step = "scan"
      /\ UNCHANGED <<job, ticket>>
  <2>1. TypeOK /\ tx[s] \in Transaction
    BY Facts
  <2>2. CASE /\ tx[s].kind \in Settlement
             /\ Continue(s, [tx[s] EXCEPT !.step = "rows"])
    <3>1. tx'[s] = [tx[s] EXCEPT !.step = "rows"] /\ UNCHANGED <<job, ticket>>
      BY <2>1, <2>2, ContinueFacts
    <3> QED
      BY <2>1, <2>2, <3>1 DEF Transaction, Settlement, Bulk
  <2>3. ASSUME NEW g, tx[s].kind \in Settlement,
               Continue(s, [tx[s] EXCEPT !.step = "rows", !.target = g])
        PROVE  /\ tx'[s].kind = tx[s].kind /\ tx'[s].jobs = tx[s].jobs
               /\ tx'[s].step = "rows" /\ tx[s].kind \notin Bulk
               /\ UNCHANGED <<job, ticket>>
    <3>1. tx'[s] = [tx[s] EXCEPT !.step = "rows", !.target = g] /\ UNCHANGED <<job, ticket>>
      BY <2>1, <2>3, ContinueFacts
    <3> QED
      BY <2>1, <2>3, <3>1 DEF Transaction, Settlement, Bulk
  <2>4. CASE /\ tx[s].kind \in Bulk
             /\ Continue(s, [tx[s] EXCEPT !.step = "scan"])
    <3>1. tx'[s] = [tx[s] EXCEPT !.step = "scan"] /\ UNCHANGED <<job, ticket>>
      BY <2>1, <2>4, ContinueFacts
    <3> QED
      BY <2>1, <2>4, <3>1 DEF Transaction, Settlement, Bulk
  <2> QED
    BY <1>1, <2>2, <2>3, <2>4
<1>3. tx[s].jobs = {j} /\ j \in Job
  BY <1>1, Facts DEF Asked, Found
<1>4. /\ jobLock'[j] = s
      /\ \A i \in Job \ {j} : jobLock'[i] = jobLock[i] /\ newJob'[i] = newJob[i]
      /\ UNCHANGED <<ticketLock, newTicket>>
  BY <1>1, <1>3 DEF LockJobs, NoTicketLocked
<1>5. NoTickets(s) /\ NoTickets(s)' /\ Proper(s)
  BY <1>1, <1>4, Facts DEF Proper, Places, NoTickets
<1>6. Places(s)'
  BY <1>1, <1>2, <1>3, <1>4, <1>5 DEF Places, Held, Settlement, Bulk
<1>7. Fresh(s)'
  <2>1. View(s)' = View(s) /\ \A i : TicketsOf(i)' = TicketsOf(i)
    BY <1>2, <1>4 DEF View, TicketSeen, TicketsOf
  <2>2. Owed(s) = {j} /\ Owed(s)' = {j}
    BY <1>1, <1>2, <1>3 DEF Owed, Settlement, Bulk
  <2> QED
    BY <1>4, <1>5, <2>1, <2>2 DEF Proper, Fresh
<1> QED
  BY <1>5, <1>6, <1>7 DEF Proper, Guarded, NoTickets

(* A statement that takes ticket t and no job, under the lock of its job.   *)
LEMMA SettleRowProper ==
    ASSUME PInv, UNCHANGED jobOf, NEW s \in Session, SettleRow(s), ~Rollback(s)
    PROVE  Proper(s)'
<1>1. PICK t \in tx[s].rows :
        /\ tx[s].kind \in Settlement /\ tx[s].step = "rows"
        /\ LockTickets(s, [u \in {t} |-> SettledRow(ticket[u], tx[s].target)])
        /\ Continue(s, [tx[s] EXCEPT !.step = "count"])
        /\ NoJobLocked
  BY DEF SettleRow, Settlement
<1>2. /\ tx'[s].kind = tx[s].kind /\ tx'[s].jobs = tx[s].jobs /\ tx'[s].step = "count"
      /\ UNCHANGED <<job, ticket, jobLock, newJob>>
  BY <1>1, Facts, Continued DEF NoJobLocked
<1>3. t \in Ticket /\ tx[s].jobs = {jobOf[t]} /\ Proper(s) /\ NoTickets(s) /\ Held(s)
  BY <1>1, Facts DEF Asked, Proper, Places, Settlement, Bulk
<1>4. \A u \in Ticket \ {t} : ticketLock'[u] = ticketLock[u] /\ newTicket'[u] = newTicket[u]
  BY <1>1 DEF LockTickets
<1>5. Places(s)'
  BY <1>1, <1>2, <1>3 DEF Places, Held, Settlement, Bulk
<1>6. Guarded(s)'
  <2>1. \A u \in Ticket \ {t} : ticketLock'[u] # s
    BY <1>3, <1>4 DEF NoTickets
  <2>2. jobLock'[jobOf[t]] = s
    BY <1>2, <1>3 DEF Held
  <2> QED
    BY <2>1, <2>2 DEF Guarded
<1>7. Fresh(s)'
  <2> SUFFICES ASSUME NEW j \in Job, jobLock[j] = s, j # jobOf[t]
               PROVE  Exact(newJob[j], TicketsOf(j)', View(s)')
    BY <1>1, <1>2, <1>3 DEF Fresh, Owed, Settlement
  <2>1. Exact(newJob[j], TicketsOf(j), View(s))
    BY <1>1, <1>3 DEF Proper, Fresh, Owed, Settlement
  <2>2. \A u \in TicketsOf(j) : View(s)'[u] = View(s)[u]
    <3> SUFFICES ASSUME NEW u \in TicketsOf(j) PROVE View(s)'[u] = View(s)[u]
      OBVIOUS
    <3>1. u \in Ticket \ {t}
      BY Views
    <3> QED
      BY <1>2, <1>4, <3>1, Views, ViewsNext
  <2> QED
    BY <2>1, <2>2, ViewsNext, ExactFrame DEF Alike
<1> QED
  BY <1>5, <1>6, <1>7 DEF Proper

(* The heartbeat does not change the status of its row. *)
LEMMA HeartbeatRowProper ==
    ASSUME PInv, UNCHANGED jobOf, NEW s \in Session, HeartbeatRow(s), ~Rollback(s)
    PROVE  Proper(s)'
<1>1. PICK t \in tx[s].rows :
        /\ tx[s].kind = "heartbeat" /\ tx[s].step = "rows"
        /\ LockTickets(s, [u \in {t} |-> [ticket[u] EXCEPT !.lease = "live"]])
        /\ Continue(s, [tx[s] EXCEPT !.step = "commit"])
        /\ NoJobLocked
  BY DEF HeartbeatRow
<1>2. /\ tx'[s].kind = "heartbeat" /\ tx'[s].step = "commit"
      /\ UNCHANGED <<job, ticket, jobLock, newJob>>
  BY <1>1, Facts, Continued DEF NoJobLocked
<1>3. t \in Ticket /\ Proper(s) /\ NoTickets(s)
  BY <1>1, Facts DEF Proper, Places, Bulk
<1>4. \A u \in Ticket : \/ ticketLock'[u] = ticketLock[u] /\ newTicket'[u] = newTicket[u]
                        \/ ticketLock'[u] = s /\ Alike(ticket[u], newTicket'[u])
  <2>1. newTicket'[t] = [ticket[t] EXCEPT !.lease = "live"] /\ ticketLock'[t] = s
    BY <1>1, <1>3 DEF LockTickets
  <2>2. newTicket'[t].status = ticket[t].status
    BY <1>3, <2>1, Facts DEF TypeOK, TicketRow
  <2>3. \A u \in Ticket \ {t} : ticketLock'[u] = ticketLock[u] /\ newTicket'[u] = newTicket[u]
    BY <1>1 DEF LockTickets
  <2> QED
    BY <2>1, <2>2, <2>3 DEF Alike
<1>5. Places(s)'
  BY <1>2 DEF Places, Settlement, Bulk
<1>6. Guarded(s)'
  BY <1>2, <1>3, <1>4 DEF Guarded, NoTickets
<1>7. Fresh(s)'
  <2> SUFFICES ASSUME NEW j \in Job, jobLock[j] = s
               PROVE  Exact(newJob[j], TicketsOf(j)', View(s)')
    BY <1>2 DEF Fresh
  <2>1. Exact(newJob[j], TicketsOf(j), View(s))
    BY <1>1, <1>3 DEF Proper, Fresh, Owed
  <2>2. \A u \in TicketsOf(j) : Alike(View(s)[u], View(s)'[u])
    BY <1>2, <1>3, <1>4, Views, ViewsNext DEF NoTickets, Alike
  <2> QED
    BY <2>1, <2>2, ViewsNext, ExactFrame
<1> QED
  BY <1>5, <1>6, <1>7 DEF Proper

LEMMA UpdateJobRowProper ==
    ASSUME PInv, UNCHANGED jobOf, NEW s \in Session, UpdateJobRow(s)
    PROVE  Proper(s)'
<1>1. PICK t \in tx[s].rows :
        /\ tx[s].kind \in Bulk /\ tx[s].step = "rows"
        /\ IF Matches(tx[s].kind, ticket[t])
             THEN LockTickets(s, [u \in {t} |-> BulkUpdated(tx[s].kind, ticket[u])])
             ELSE NoTicketLocked
        /\ Continue(s, [tx[s] EXCEPT !.rows = @ \ {t},
                                     !.step = IF tx[s].rows = {t} THEN "count" ELSE @])
        /\ NoJobLocked
  BY DEF UpdateJobRow, Bulk
<1>2. /\ tx'[s].kind = tx[s].kind /\ tx'[s].jobs = tx[s].jobs /\ tx'[s].step \in {"rows", "count"}
      /\ UNCHANGED <<job, ticket, jobLock, newJob>>
  <2> DEFINE st == IF tx[s].rows = {t} THEN "count" ELSE "rows"
             R == tx[s].rows \ {t}
  <2>1. [tx[s] EXCEPT !.rows = @ \ {t}, !.step = IF tx[s].rows = {t} THEN "count" ELSE @]
           = [tx[s] EXCEPT !.step = st, !.rows = R]
    BY <1>1, Facts DEF Transaction
  <2>2. Continue(s, [tx[s] EXCEPT !.step = st, !.rows = R]) /\ st \in {"rows", "count"}
    BY <1>1, <2>1
  <2> HIDE DEF st, R
  <2>3. TypeOK /\ tx[s] \in Transaction
    BY Facts
  <2>4. tx'[s].step = st /\ tx'[s].kind = tx[s].kind /\ tx'[s].jobs = tx[s].jobs
    BY <2>2, <2>3, Continued
  <2>5. UNCHANGED <<job, ticket, jobLock, newJob>>
    BY <1>1 DEF Continue, committed, NoJobLocked
  <2> QED
    BY <2>2, <2>4, <2>5
<1>3. t \in Ticket /\ jobOf[t] \in tx[s].jobs /\ Proper(s) /\ Held(s) /\ jobOf[t] \in Job
  BY <1>1, Facts DEF Found, Proper, Places
<1>4. \A u \in Ticket \ {t} : ticketLock'[u] = ticketLock[u] /\ newTicket'[u] = newTicket[u]
  BY <1>1 DEF LockTickets, NoTicketLocked
<1>5. Places(s)'
  BY <1>1, <1>2, <1>3 DEF Places, Held, Settlement, Bulk
<1>6. Guarded(s)'
  <2>1. jobLock'[jobOf[t]] = s
    BY <1>2, <1>3 DEF Held
  <2> QED
    BY <1>2, <1>3, <1>4, <2>1 DEF Guarded, Proper
<1>7. Fresh(s)'
  <2> SUFFICES ASSUME NEW j \in Job, jobLock[j] = s, j \notin tx[s].jobs
               PROVE  Exact(newJob[j], TicketsOf(j)', View(s)')
    BY <1>1, <1>2, <1>3 DEF Fresh, Owed, Bulk
  <2>1. Exact(newJob[j], TicketsOf(j), View(s))
    BY <1>1, <1>3 DEF Proper, Fresh, Owed, Bulk
  <2>2. \A u \in TicketsOf(j) : View(s)'[u] = View(s)[u]
    <3> SUFFICES ASSUME NEW u \in TicketsOf(j) PROVE View(s)'[u] = View(s)[u]
      OBVIOUS
    <3>1. u \in Ticket \ {t}
      BY <1>3, Views
    <3> QED
      BY <1>2, <1>4, <3>1, Views, ViewsNext
  <2> QED
    BY <2>1, <2>2, ViewsNext, ExactFrame DEF Alike
<1> QED
  BY <1>5, <1>6, <1>7 DEF Proper

(* The claim takes rows that are not settled and leaves them so. *)
LEMMA ClaimRowsProper ==
    ASSUME PInv, UNCHANGED jobOf, NEW s \in Session, ClaimRows(s), ~Rollback(s)
    PROVE  Proper(s)'
<1>1. PICK S \in SUBSET ClaimedRows(s) :
        /\ tx[s].kind = "claim" /\ tx[s].step = "rows"
        /\ LockTickets(s, [t \in S |-> [status |-> "RUNNING", worker |-> tx[s].worker,
                                        lease |-> "live"]])
        /\ Continue(s, [tx[s] EXCEPT !.step = "after", !.rows = {},
                                     !.jobs = {jobOf[t] : t \in S}])
        /\ NoJobLocked
  BY DEF ClaimRows
<1>2. /\ tx'[s].kind = "claim" /\ tx'[s].step = "after"
      /\ UNCHANGED <<job, ticket, jobLock, newJob>>
  <2> DEFINE J == {jobOf[t] : t \in S}
  <2>1. Continue(s, [tx[s] EXCEPT !.step = "after", !.rows = {}, !.jobs = J])
    BY <1>1
  <2> HIDE DEF J
  <2> QED
    BY <1>1, <2>1, Facts, Continued DEF NoJobLocked
<1>3. Proper(s) /\ NoTickets(s) /\ NoJobs(s)
  BY <1>1, Facts DEF Proper, Places, Bulk
<1>4. NoJobs(s)'
  BY <1>2, <1>3 DEF NoJobs
<1>5. \A u \in Ticket : ticketLock'[u] = s => Alike(ticket[u], newTicket'[u])
  <2> SUFFICES ASSUME NEW u \in Ticket, ticketLock'[u] = s
               PROVE  Alike(ticket[u], newTicket'[u])
    OBVIOUS
  <2> DEFINE row == [status |-> "RUNNING", worker |-> tx[s].worker, lease |-> "live"]
             rows == [t \in S |-> row]
  <2>1. DOMAIN rows = S /\ row.status = "RUNNING"
    OBVIOUS
  <2>2. LockTickets(s, rows)
    BY <1>1
  <2>3. u \in S
    <3> HIDE DEF rows
    <3> QED
      BY <1>3, <2>1, <2>2 DEF LockTickets, NoTickets
  <2>4. newTicket'[u] = row
    BY <2>2, <2>3 DEF LockTickets
  <2>5. ticket[u].status \in Pending
    BY <2>3 DEF ClaimedRows
  <2> HIDE DEF row
  <2> QED
    BY <2>1, <2>4, <2>5 DEF Alike, Pending, Terminal
<1>6. Places(s)'
  BY <1>2, <1>4 DEF Places, Settlement, Bulk
<1> QED
  BY <1>2, <1>4, <1>5, <1>6 DEF Proper, Guarded, Fresh, NoJobs

LEMMA MarkRunningProper ==
    ASSUME PInv, UNCHANGED jobOf, NEW s \in Session, MarkRunning(s)
    PROVE  Proper(s)'
<1> DEFINE J == {j \in tx[s].jobs : JobFree(s, j) /\ job[j].status \in {"CREATED", "READY"}}
           rows == [j \in J |-> [job[j] EXCEPT !.status = "RUNNING"]]
<1>1. /\ tx[s].kind = "claim" /\ tx[s].step = "after"
      /\ LockJobs(s, rows) /\ Continue(s, [tx[s] EXCEPT !.step = "commit", !.jobs = {}])
      /\ NoTicketLocked
  BY DEF MarkRunning
<1>2. /\ tx'[s].kind = "claim" /\ tx'[s].step = "commit"
      /\ UNCHANGED <<job, ticket, ticketLock, newTicket>>
  BY <1>1, Facts, Continued DEF NoTicketLocked
<1>3. Proper(s) /\ NoJobs(s)
  BY <1>1, Facts DEF Proper, Places, Bulk
<1>4. ASSUME NEW j \in Job, jobLock'[j] = s
      PROVE  /\ newJob'[j].count = job[j].count
             /\ newJob'[j].status \in OpenJobStatus <=> job[j].status \in OpenJobStatus
  <2>1. DOMAIN rows = J
    OBVIOUS
  <2>2. j \in J /\ newJob'[j] = rows[j]
    <3> HIDE DEF rows, J
    <3> QED
      BY <1>1, <1>3, <1>4, <2>1 DEF LockJobs, NoJobs
  <2>3. job[j] \in JobRow /\ job[j].status \in {"CREATED", "READY"}
        /\ newJob'[j] = [job[j] EXCEPT !.status = "RUNNING"]
    BY <2>2, Facts DEF TypeOK
  <2> QED
    BY <2>3 DEF JobRow, OpenJobStatus
<1>5. \A t \in Ticket : Alike(ticket[t], View(s)[t])
  BY <1>3, Facts, Views DEF Proper, Guarded, NoJobs, Alike
<1>6. View(s)' = View(s) /\ \A j : TicketsOf(j)' = TicketsOf(j)
  BY <1>2 DEF View, TicketSeen, TicketsOf
<1>7. Fresh(s)'
  <2> SUFFICES ASSUME NEW j \in Job, jobLock'[j] = s
               PROVE  Exact(newJob'[j], TicketsOf(j), View(s))
    BY <1>6 DEF Fresh
  <2>1. Exact(job[j], TicketsOf(j), ticket)
    BY CommittedIsExact DEF PInv
  <2> QED
    BY <1>4, <1>5, <2>1, Views, ExactFrame
<1>8. Guarded(s)'
  <2>1. \A t \in Ticket : ticketLock[t] = s => Alike(ticket[t], newTicket[t])
    BY <1>3, Facts DEF Proper, Guarded, NoJobs
  <2> QED
    BY <1>2, <2>1 DEF Guarded
<1>9. Places(s)'
  BY <1>2 DEF Places, Settlement, Bulk
<1> QED
  BY <1>7, <1>8, <1>9 DEF Proper

(* The sweep settles under locks it takes with the rows. *)
LEMMA SweepRowsProper ==
    ASSUME PInv, UNCHANGED jobOf, NEW s \in Session, SweepRows(s)
    PROVE  Proper(s)'
<1>1. PICK T \in SUBSET tx[s].rows, target \in [Ticket -> {"RETRY", "FAILED"}] :
        LET J == {j \in {jobOf[t] : t \in T} : JobFree(s, j)}
            S == {t \in T : jobOf[t] \in J /\ TicketFree(s, t) /\ Swept(t)} IN
        /\ LockJobs(s, [j \in J |-> job[j]])
        /\ LockTickets(s, [t \in S |->
             SweptRow(ticket[t], IF jobOf[t] \in tx[s].seen THEN "CANCELLED" ELSE target[t])])
        /\ Continue(s, [tx[s] EXCEPT !.step = "after", !.rows = {},
                                     !.jobs = {jobOf[t] : t \in S}])
  BY DEF SweepRows
<1> DEFINE J == {j \in {jobOf[t] : t \in T} : JobFree(s, j)}
           S == {t \in T : jobOf[t] \in J /\ TicketFree(s, t) /\ Swept(t)}
           K == {jobOf[t] : t \in S}
<1>2. /\ Proper(s) /\ NoTickets(s) /\ tx[s].kind = "sweep" /\ tx[s].step = "rows"
      /\ Owed(s) = {}
  BY Facts DEF SweepRows, Proper, Places, Bulk, Owed
<1>3. /\ tx'[s].kind = "sweep" /\ tx'[s].step = "after" /\ tx'[s].jobs = K
      /\ UNCHANGED <<job, ticket>>
  <2>1. Continue(s, [tx[s] EXCEPT !.step = "after", !.rows = {}, !.jobs = K])
    BY <1>1
  <2>2. TypeOK /\ tx[s] \in Transaction
    BY Facts
  <2> HIDE DEF K
  <2>3. tx'[s].step = "after" /\ tx'[s].kind = tx[s].kind /\ tx'[s].jobs = K
    <3>1. tx'[s] = [tx[s] EXCEPT !.step = "after", !.rows = {}, !.jobs = K]
      BY <2>1, <2>2, ContinueFacts
    <3> QED
      BY <2>2, <3>1 DEF Transaction
  <2>4. UNCHANGED <<job, ticket>>
    BY <2>1 DEF Continue, committed
  <2> QED
    BY <1>2, <2>3, <2>4
<1>4. /\ \A j \in J : jobLock'[j] = s /\ newJob'[j] = job[j]
      /\ \A j \in Job \ J : jobLock'[j] = jobLock[j] /\ newJob'[j] = newJob[j]
  <2> DEFINE rows == [j \in J |-> job[j]]
  <2>1. DOMAIN rows = J /\ (\A j \in J : rows[j] = job[j]) /\ LockJobs(s, rows)
    BY <1>1
  <2>2. J \subseteq Job
    BY <1>1, Facts
  <2> HIDE DEF rows, J
  <2> QED
    BY <2>1, <2>2 DEF LockJobs
<1>5. \A t \in Ticket : ticketLock'[t] = s <=> t \in S
  <2> DEFINE to(t) == IF jobOf[t] \in tx[s].seen THEN "CANCELLED" ELSE target[t]
             rows == [t \in S |-> SweptRow(ticket[t], to(t))]
  <2>1. DOMAIN rows = S /\ LockTickets(s, rows)
    BY <1>1
  <2> HIDE DEF rows, S
  <2> QED
    BY <1>2, <2>1 DEF LockTickets, NoTickets
<1>6. Guarded(s)'
  <2> SUFFICES ASSUME NEW t \in Ticket, ticketLock'[t] = s
               PROVE  jobLock'[jobOf[t]] = s
    BY DEF Guarded
  <2>1. jobOf[t] \in J
    BY <1>5
  <2> QED
    BY <1>4, <2>1
<1>7. Fresh(s)'
  <2> SUFFICES ASSUME NEW j \in Job, jobLock'[j] = s, j \notin K
               PROVE  Exact(newJob'[j], TicketsOf(j)', View(s)')
    BY <1>3 DEF Fresh, Owed
  <2>1. \A t \in TicketsOf(j) : t \in Ticket /\ View(s)'[t] = ticket[t] /\ View(s)[t] = ticket[t]
    <3> SUFFICES ASSUME NEW t \in TicketsOf(j)
                 PROVE  t \in Ticket /\ View(s)'[t] = ticket[t] /\ View(s)[t] = ticket[t]
      OBVIOUS
    <3>1. t \in Ticket /\ t \notin S
      BY Views
    <3>2. ticketLock'[t] # s /\ ticketLock[t] # s
      BY <1>2, <1>5, <3>1 DEF NoTickets
    <3> QED
      BY <1>3, <3>1, <3>2, Views, ViewsNext
  <2>2. CASE j \in J
    <3>1. Exact(job[j], TicketsOf(j), ticket)
      BY CommittedIsExact DEF PInv
    <3>2. newJob'[j] = job[j]
      BY <1>4, <2>2
    <3> HIDE DEF J, K
    <3> QED
      BY <2>1, <3>1, <3>2, ViewsNext, ExactFrame DEF Alike
  <2>3. CASE j \notin J
    <3>1. jobLock[j] = s /\ newJob'[j] = newJob[j]
      BY <1>4, <2>3
    <3>2. Exact(newJob[j], TicketsOf(j), View(s))
      BY <1>2, <3>1 DEF Proper, Fresh
    <3> HIDE DEF J, K
    <3> QED
      BY <2>1, <3>1, <3>2, ViewsNext, ExactFrame DEF Alike
  <2> QED
    BY <2>2, <2>3
<1>8. Places(s)'
  BY <1>3 DEF Places, Settlement, Bulk
<1> QED
  BY <1>6, <1>7, <1>8 DEF Proper

LEMMA SweepCancelledProper ==
    ASSUME PInv, UNCHANGED jobOf, NEW s \in Session, SweepCancelled(s)
    PROVE  Proper(s)'
<1> DEFINE J == {j \in Job : /\ job[j].cancel /\ JobFree(s, j)
                             /\ \E t \in TicketsOf(j) : Swept(t)}
           S == {t \in Ticket : jobOf[t] \in J /\ ticketLock[t] = NoSession /\ Swept(t)}
           jobRows == [j \in J |-> JobSeen(s, j)]
           rows == [t \in S |-> [ticket[t] EXCEPT !.status = "CANCELLED", !.lease = "none"]]
           K == tx[s].jobs \cup {jobOf[t] : t \in S}
<1>1. /\ tx[s].kind = "sweep" /\ tx[s].step = "after"
      /\ LockJobs(s, jobRows) /\ LockTickets(s, rows)
      /\ Continue(s, [tx[s] EXCEPT !.step = "count", !.jobs = K])
  BY DEF SweepCancelled
<1>2. Proper(s) /\ Owed(s) = tx[s].jobs
  BY <1>1, Facts DEF Owed
<1>3. /\ tx'[s].kind = "sweep" /\ tx'[s].step = "count" /\ tx'[s].jobs = K
      /\ UNCHANGED <<job, ticket>>
  <2>1. TypeOK /\ tx[s] \in Transaction
    BY Facts
  <2> HIDE DEF K
  <2>2. tx'[s].step = "count" /\ tx'[s].kind = tx[s].kind /\ tx'[s].jobs = K
    BY <1>1, <2>1, Continued
  <2>3. UNCHANGED <<job, ticket>>
    BY <1>1 DEF Continue, committed
  <2> QED
    BY <1>1, <2>2, <2>3
<1>4. /\ \A j \in J : jobLock'[j] = s /\ newJob'[j] = JobSeen(s, j)
      /\ \A j \in Job \ J : jobLock'[j] = jobLock[j] /\ newJob'[j] = newJob[j]
  <2>1. DOMAIN jobRows = J /\ (\A j \in J : jobRows[j] = JobSeen(s, j)) /\ J \subseteq Job
    OBVIOUS
  <2> HIDE DEF jobRows, J
  <2> QED
    BY <1>1, <2>1 DEF LockJobs
<1>5. /\ \A t \in S : ticketLock'[t] = s
      /\ \A t \in Ticket \ S : ticketLock'[t] = ticketLock[t] /\ newTicket'[t] = newTicket[t]
  <2>1. DOMAIN rows = S /\ S \subseteq Ticket
    OBVIOUS
  <2> HIDE DEF rows, S
  <2> QED
    BY <1>1, <2>1 DEF LockTickets
<1>6. \A j \in Job : jobLock[j] = s => jobLock'[j] = s /\ newJob'[j] = newJob[j]
  BY <1>4 DEF JobSeen
<1>7. Guarded(s)'
  <2> SUFFICES ASSUME NEW t \in Ticket, ticketLock'[t] = s
               PROVE  Alike(ticket[t], newTicket'[t]) \/ jobLock'[jobOf[t]] = s
    BY <1>3 DEF Guarded
  <2>1. CASE t \in S
    <3>1. jobOf[t] \in J
      BY <2>1
    <3> QED
      BY <1>4, <3>1
  <2>2. CASE t \notin S
    <3>1. ticketLock[t] = s /\ newTicket'[t] = newTicket[t] /\ jobOf[t] \in Job
      BY <1>5, <2>2, Facts
    <3> HIDE DEF J, S
    <3> QED
      BY <1>2, <1>6, <3>1 DEF Proper, Guarded
  <2> QED
    BY <2>1, <2>2
<1>8. Fresh(s)'
  <2> SUFFICES ASSUME NEW j \in Job, jobLock'[j] = s, j \notin K
               PROVE  Exact(newJob'[j], TicketsOf(j)', View(s)')
    BY <1>3 DEF Fresh, Owed
  <2>1. \A t \in TicketsOf(j) : t \in Ticket /\ View(s)'[t] = View(s)[t]
    <3> SUFFICES ASSUME NEW t \in TicketsOf(j) PROVE t \in Ticket /\ View(s)'[t] = View(s)[t]
      OBVIOUS
    <3>1. t \in Ticket \ S
      BY Views
    <3> HIDE DEF S
    <3> QED
      BY <1>3, <1>5, <3>1, Views, ViewsNext
  <2>2. CASE jobLock[j] = s
    <3>1. Exact(newJob[j], TicketsOf(j), View(s)) /\ newJob'[j] = newJob[j]
      BY <1>2, <1>6, <2>2 DEF Proper, Fresh
    <3> HIDE DEF J, S, K
    <3> QED
      BY <2>1, <3>1, ViewsNext, ExactFrame DEF Alike
  <2>3. CASE jobLock[j] # s
    <3>1. newJob'[j] = job[j]
      BY <1>4, <2>3 DEF JobSeen
    <3>2. Exact(job[j], TicketsOf(j), ticket)
      BY CommittedIsExact DEF PInv
    <3>3. \A t \in TicketsOf(j) : Alike(ticket[t], View(s)'[t])
      <4> HIDE DEF J, S, K
      <4> QED
        BY <1>2, <2>1, <2>3, Views DEF Proper, Guarded, Alike
    <3> HIDE DEF J, S, K
    <3> QED
      BY <3>1, <3>2, <3>3, ViewsNext, ExactFrame
  <2> QED
    BY <2>2, <2>3
<1>9. Places(s)'
  <2> HIDE DEF K
  <2> QED
    BY <1>3 DEF Places, Settlement, Bulk
<1> QED
  BY <1>7, <1>8, <1>9 DEF Proper

LEMMA CountProgressProper ==
    ASSUME PInv, UNCHANGED jobOf, NEW s \in Session, CountProgress(s)
    PROVE  Proper(s)'
<1>1. PICK j \in tx[s].jobs :
        /\ tx[s].kind \in Settlement /\ tx[s].step = "count"
        /\ Continue(s, [tx[s] EXCEPT !.step = "write", !.progress = Counted(s, j)])
        /\ UNCHANGED locks
  BY DEF CountProgress, Settlement
<1>2. /\ tx'[s].kind = tx[s].kind /\ tx'[s].jobs = tx[s].jobs /\ tx'[s].step = "write"
      /\ tx'[s].progress = Counted(s, j) /\ UNCHANGED <<job, ticket>>
  <2> DEFINE p == Counted(s, j)
  <2>1. TypeOK /\ tx[s] \in Transaction
    BY Facts
  <2>2. Continue(s, [tx[s] EXCEPT !.step = "write", !.progress = p])
    BY <1>1
  <2> HIDE DEF p
  <2>3. /\ tx'[s].step = "write" /\ tx'[s].kind = tx[s].kind /\ tx'[s].jobs = tx[s].jobs
        /\ tx'[s].progress = p
    <3>1. tx'[s] = [tx[s] EXCEPT !.step = "write", !.progress = p]
      BY <2>1, <2>2, ContinueFacts
    <3> QED
      BY <2>1, <3>1 DEF Transaction
  <2>4. UNCHANGED <<job, ticket>>
    BY <1>1 DEF Continue, committed
  <2> QED
    BY <2>3, <2>4 DEF p
<1>3. Proper(s) /\ Held(s) /\ tx[s].jobs = {j} /\ j \in Job
  BY <1>1, Facts DEF Proper, Places, Asked
<1>4. /\ View(s)' = View(s) /\ \A i : TicketsOf(i)' = TicketsOf(i)
      /\ Guarded(s)' /\ UNCHANGED <<jobLock, newJob>>
  BY <1>1, <1>2, <1>3, LocksKept DEF Proper
<1>5. Places(s)'
  <2>1. Exact(Counted(s, j), TicketsOf(j), View(s))
    BY <1>3, CountedIsExact
  <2> QED
    BY <1>1, <1>2, <1>3, <1>4, <2>1 DEF Places, Held, Settlement, Bulk
<1>6. Fresh(s)'
  <2>1. Owed(s)' = Owed(s)
    BY <1>1, <1>2 DEF Owed
  <2> QED
    BY <1>3, <1>4, <2>1 DEF Proper, Fresh
<1> QED
  BY <1>4, <1>5, <1>6 DEF Proper

LEMMA WriteProgressProper ==
    ASSUME PInv, UNCHANGED jobOf, NEW s \in Session, WriteProgress(s)
    PROVE  Proper(s)'
<1>1. PICK j \in tx[s].jobs :
        /\ tx[s].step = "write"
        /\ LockJobs(s, [i \in {j} |-> WithProgress(JobSeen(s, i), tx[s].progress)])
        /\ Continue(s, [tx[s] EXCEPT !.step = "commit"])
        /\ NoTicketLocked
  BY DEF WriteProgress
<1>2. /\ tx'[s].kind = tx[s].kind /\ tx'[s].jobs = tx[s].jobs /\ tx'[s].step = "commit"
      /\ UNCHANGED <<job, ticket, ticketLock, newTicket>>
  BY <1>1, Facts, Continued DEF NoTicketLocked
<1>3. /\ Proper(s) /\ tx[s].kind \in Settlement /\ Held(s)
      /\ Exact(tx[s].progress, TicketsOf(j), View(s))
  BY <1>1, Facts DEF Proper, Places
<1>4. tx[s].jobs = {j} /\ j \in Job /\ jobLock[j] = s /\ Owed(s) = {j}
  BY <1>1, <1>3, Facts DEF Asked, Held, Owed, Settlement
<1>5. /\ newJob'[j] = WithProgress(JobSeen(s, j), tx[s].progress) /\ jobLock'[j] = s
      /\ \A i \in Job \ {j} : jobLock'[i] = jobLock[i] /\ newJob'[i] = newJob[i]
  BY <1>1, <1>4 DEF LockJobs
<1>6. View(s)' = View(s) /\ \A i : TicketsOf(i)' = TicketsOf(i)
  BY <1>2 DEF View, TicketSeen, TicketsOf
<1>7. Exact(newJob'[j], TicketsOf(j), View(s))
  <2>1. JobSeen(s, j) \in JobRow /\ tx[s].progress \in Progress
    BY <1>4, Facts, SeenTypes DEF Transaction
  <2>2. newJob'[j].status = tx[s].progress.status /\ newJob'[j].count = tx[s].progress.count
    BY <1>5, <2>1, WithProgressType
  <2> QED
    BY <1>3, <2>2 DEF Exact
<1>8. Fresh(s)'
  BY <1>3, <1>4, <1>5, <1>6, <1>7 DEF Proper, Fresh
<1>9. Guarded(s)'
  BY <1>2, <1>3, <1>4, <1>5, Facts DEF Proper, Guarded
<1>10. Places(s)'
  BY <1>2, <1>3 DEF Places, Settlement, Bulk
<1> QED
  BY <1>8, <1>9, <1>10 DEF Proper

LEMMA RecomputeProgressProper ==
    ASSUME PInv, UNCHANGED jobOf, NEW s \in Session, RecomputeProgress(s)
    PROVE  Proper(s)'
<1>1. /\ tx[s].kind \notin Settlement /\ tx[s].step = "count" /\ NoTicketLocked
      /\ Proper(s) /\ tx[s].kind # "none"
  BY Facts DEF RecomputeProgress, Settlement, Proper, Places
<1>2. CASE /\ tx[s].jobs = {}
           /\ Continue(s, [tx[s] EXCEPT !.step = "commit"])
           /\ NoJobLocked
  <2>1. /\ tx'[s].kind = tx[s].kind /\ tx'[s].step = "commit"
        /\ UNCHANGED <<locks, job, ticket>>
    BY <1>1, <1>2, Facts, Continued DEF NoJobLocked, NoTicketLocked, locks
  <2>2. /\ View(s)' = View(s) /\ \A i : TicketsOf(i)' = TicketsOf(i)
        /\ Guarded(s)' /\ UNCHANGED <<jobLock, newJob>>
    BY <1>1, <2>1, LocksKept DEF Proper
  <2>3. Owed(s) = {}
    BY <1>2 DEF Owed
  <2>4. Fresh(s)'
    BY <1>1, <2>2, <2>3 DEF Proper, Fresh
  <2>5. Places(s)'
    BY <1>1, <2>1 DEF Places, Settlement, Bulk
  <2> QED
    BY <2>2, <2>4, <2>5 DEF Proper
<1>3. ASSUME NEW j \in tx[s].jobs,
             LockJobs(s, [i \in {j} |-> WithProgress(JobSeen(s, i), Counted(s, i))]),
             Continue(s, [tx[s] EXCEPT !.jobs = @ \ {j}])
      PROVE  Proper(s)'
  <2>1. /\ tx'[s].kind = tx[s].kind /\ tx'[s].jobs = tx[s].jobs \ {j} /\ tx'[s].step = "count"
        /\ UNCHANGED <<job, ticket, ticketLock, newTicket>>
    <3> DEFINE J == tx[s].jobs \ {j}
    <3>1. Continue(s, [tx[s] EXCEPT !.jobs = J])
      BY <1>3
    <3> HIDE DEF J
    <3>2. tx'[s].step = tx[s].step /\ tx'[s].kind = tx[s].kind /\ tx'[s].jobs = J
      BY <3>1, Facts, Continued
    <3> QED
      BY <1>1, <1>3, <3>2 DEF Continue, committed, NoTicketLocked, J
  <2>2. j \in Job
    BY Facts
  <2>3. /\ newJob'[j] = WithProgress(JobSeen(s, j), Counted(s, j)) /\ jobLock'[j] = s
        /\ \A i \in Job \ {j} : jobLock'[i] = jobLock[i] /\ newJob'[i] = newJob[i]
    BY <1>3, <2>2 DEF LockJobs
  <2>4. View(s)' = View(s) /\ \A i : TicketsOf(i)' = TicketsOf(i)
    BY <2>1 DEF View, TicketSeen, TicketsOf
  <2>5. Exact(newJob'[j], TicketsOf(j), View(s))
    <3>1. JobSeen(s, j) \in JobRow /\ Counted(s, j) \in Progress
      BY <2>2, Facts, SeenTypes, CountedType
    <3>2. newJob'[j].status = Counted(s, j).status /\ newJob'[j].count = Counted(s, j).count
      BY <2>3, <3>1, WithProgressType
    <3>3. Exact(Counted(s, j), TicketsOf(j), View(s))
      BY <2>2, CountedIsExact
    <3> QED
      BY <3>2, <3>3 DEF Exact
  <2>6. Owed(s) \ {j} \subseteq Owed(s)'
    BY <1>1, <2>1 DEF Owed
  <2>7. Fresh(s)'
    BY <1>1, <2>3, <2>4, <2>5, <2>6 DEF Proper, Fresh
  <2>8. Guarded(s)'
    BY <1>1, <2>1, <2>3, Facts DEF Proper, Guarded
  <2>9. Places(s)'
    BY <1>1, <2>1 DEF Places, Settlement, Bulk
  <2> QED
    BY <2>7, <2>8, <2>9 DEF Proper
<1> QED
  BY <1>2, <1>3 DEF RecomputeProgress

-----------------------------------------------------------------------------
LEMMA StatementProper ==
    ASSUME PInv, UNCHANGED jobOf, NEW s \in Session, Statement(s), ~Rollback(s), ~Commit(s)
    PROVE  Proper(s)'
BY LockJobProper, SettleRowProper, HeartbeatRowProper, ScansProper, UpdateJobRowProper,
   ClaimRowsProper, MarkRunningProper, SweepRowsProper, SweepCancelledProper,
   CountProgressProper, WriteProgressProper, RecomputeProgressProper DEF Statement

LEMMA BeginningsProper ==
    ASSUME PInv, UNCHANGED jobOf, NEW s \in Session,
           \/ \E t \in Ticket, w \in Worker, target \in SettleTarget :
                 BeginSettlement(s, t, w, target)
           \/ BeginOther(s)
    PROVE  Proper(s)'
<1>1. \E kind, step, worker, target, rows, jobs :
         /\ Begin(s, kind, step, worker, target, rows, jobs)
         /\ step \in {"job", "scan", "rows"}
         /\ step = "rows" => kind = "heartbeat"
         /\ kind \in Settlement \cup Bulk => step = "job"
         /\ kind \in {"sweep", "reconcile"} => jobs = {}
  <2>1. CASE \E t \in Ticket, w \in Worker, target \in SettleTarget :
                BeginSettlement(s, t, w, target)
    <3>1. PICK t \in Ticket, w \in Worker, target \in SettleTarget, kind \in Settlement :
             Begin(s, kind, "job", w, target, {t}, {jobOf[t]})
      BY <2>1 DEF BeginSettlement, Settlement
    <3>2. kind \notin {"sweep", "reconcile"}
      BY DEF Settlement
    <3> QED
      BY <3>1, <3>2
  <2>2. CASE BeginOther(s)
    <3>1. CASE \E w \in Worker : Begin(s, "claim", "scan", w, "RUNNING", {}, {})
      BY <3>1 DEF Settlement, Bulk
    <3>2. CASE \E t \in Ticket, w \in Worker :
                  Begin(s, "heartbeat", "rows", w, "RUNNING", {t}, {})
      BY <3>2 DEF Settlement, Bulk
    <3>3. CASE \E t \in Ticket : Begin(s, "cancel", "job", NoWorker, "CANCELLED", {}, {jobOf[t]})
      BY <3>3
    <3>4. CASE \E t \in Ticket : Begin(s, "reset", "job", NoWorker, "READY", {}, {jobOf[t]})
      BY <3>4
    <3>5. CASE Begin(s, "sweep", "scan", NoWorker, "CANCELLED", {}, {})
      BY <3>5 DEF Settlement, Bulk
    <3>6. CASE Begin(s, "reconcile", "scan", NoWorker, "READY", {}, {})
      BY <3>6 DEF Settlement, Bulk
    <3> QED
      BY <2>2, <3>1, <3>2, <3>3, <3>4, <3>5, <3>6 DEF BeginOther
  <2> QED
    BY <2>1, <2>2
<1>2. PICK kind, step, worker, target, rows, jobs :
         /\ Begin(s, kind, step, worker, target, rows, jobs)
         /\ step \in {"job", "scan", "rows"}
         /\ step = "rows" => kind = "heartbeat"
         /\ kind \in Settlement \cup Bulk => step = "job"
         /\ kind \in {"sweep", "reconcile"} => jobs = {}
  BY <1>1
<1> QED
  BY <1>2, BeginProper

LEMMA PInvStep == PInv /\ [Next]_vars => PInv'
<1> SUFFICES ASSUME PInv, [Next]_vars PROVE PInv'
  OBVIOUS
<1>1. CASE Next
  <2>1. UNCHANGED jobOf /\ LInv
    BY <1>1 DEF Next, PInv
  <2>2. ASSUME NEW s \in Session,
               \/ \E t \in Ticket, w \in Worker, target \in SettleTarget :
                     BeginSettlement(s, t, w, target)
               \/ BeginOther(s)
        PROVE  PInv'
    <3>1. Proper(s)'
      BY <2>1, <2>2, BeginningsProper
    <3>2. \E next : Local(s, next)
      BY <2>1, <2>2, BeginningsLocal
    <3> QED
      BY <3>1, <3>2, PInvLocal
  <2>3. ASSUME NEW s \in Session, Statement(s)
        PROVE  PInv'
    <3>1. CASE Rollback(s)
      BY <2>1, <3>1, PInvRollback
    <3>2. CASE Commit(s)
      BY <2>1, <3>2, PInvCommit
    <3>3. CASE ~Rollback(s) /\ ~Commit(s)
      <4>1. Proper(s)'
        BY <2>1, <2>3, <3>3, StatementProper
      <4>2. \E next : Local(s, next)
        BY <2>1, <2>3, <3>3, StatementLocal
      <4> QED
        BY <4>1, <4>2, PInvLocal
    <3> QED
      BY <3>1, <3>2, <3>3
  <2>4. ASSUME NEW s \in Session, Abort(s)
        PROVE  PInv'
    BY <2>1, <2>4, PInvRollback DEF Abort
  <2>5. ASSUME NEW t \in Ticket, LeaseExpires(t)
        PROVE  PInv'
    BY <2>1, <2>5, PInvExpiry
  <2> QED
    BY <1>1, <2>2, <2>3, <2>4, <2>5 DEF Next, SettleTarget
<1>2. CASE UNCHANGED vars
  <2>1. LInv'
    BY LInvStep DEF PInv
  <2>2. /\ UNCHANGED <<jobOf, job, ticket, newJob, newTicket, jobLock, ticketLock, tx>>
        /\ \A j : TicketsOf(j)' = TicketsOf(j)
    BY <1>2 DEF vars, TicketsOf
  <2>3. CommittedProgressExact'
    BY <2>2 DEF PInv, CommittedProgressExact
  <2>4. ASSUME NEW s \in Session
        PROVE  Proper(s)'
    <3>1. View(s)' = View(s) /\ Owed(s)' = Owed(s)
      BY <2>2 DEF View, TicketSeen, Owed
    <3>2. Places(s)' /\ Guarded(s)' /\ Fresh(s)'
      BY <2>2, <3>1 DEF PInv, Proper, Places, Guarded, Fresh, NoTickets, NoJobs, Held
    <3> QED
      BY <3>2 DEF Proper
  <2> QED
    BY <2>1, <2>3, <2>4 DEF PInv
<1> QED
  BY <1>1, <1>2

(* After every commit the counters of each job are those of its tickets,    *)
(* for any number of sessions: recompute_progress counts under the lock of  *)
(* the job row, without which no ticket of the job is settled or reopened   *)
(* (job_repository.py:201, ticket_repository.py:174, :313, :330, :345, :404).*)
THEOREM CommittedProgressExactHolds == Spec => []CommittedProgressExact
<1>1. PInv => CommittedProgressExact
  BY DEF PInv
<1> QED
  BY <1>1, PInvInit, PInvStep, PTL DEF Spec

-----------------------------------------------------------------------------
(* The order in which transactions lock: nothing while they wait for a job, *)
(* tickets of their own jobs afterwards, and whole jobs before they count.  *)
Orderly(s) ==
    /\ tx[s].kind \in Settlement \cup Bulk /\ tx[s].step = "job" => NoJobs(s)
    /\ tx[s].step = "job" => tx[s].kind \in Settlement \cup Bulk
    /\ tx[s].kind = "heartbeat" => NoJobs(s) /\ tx[s].step \in {"rows", "commit"}
    /\ tx[s].kind = "reconcile" => NoTickets(s) /\ tx[s].step \in {"scan", "count", "commit"}
    /\ tx[s].kind = "claim" => tx[s].step \in {"scan", "rows", "after", "commit"}
    /\ tx[s].kind = "sweep" => tx[s].step \in {"scan", "rows", "after", "count", "commit"}
    /\ tx[s].kind \in Bulk \cup {"sweep"} /\ tx[s].step \in {"after", "count"} => Held(s)
    /\ tx[s].kind \in Bulk /\ tx[s].step = "rows" =>
         \A t \in Ticket : ticketLock[t] = s => jobOf[t] \in tx[s].jobs

(* Work that was claimed or settled goes back to pending only under the     *)
(* lock of its job.                                                         *)
Returned(s) ==
    \A t \in Ticket :
        ticketLock[t] = s /\ newTicket[t].status \in Pending =>
          ticket[t].status \in Pending \/ jobLock[jobOf[t]] = s

(* Only a cancellation marks a job, and the pending tickets it sees of that *)
(* job are those its update has still to come to.                           *)
Marked(s, j) == jobLock[j] = s /\ newJob[j].cancel /\ ~job[j].cancel

Ahead(s, t) == tx[s].step = "scan" \/ (tx[s].step = "rows" /\ t \in tx[s].rows)

Cancelling(s) ==
    /\ \A j \in Job :
         Marked(s, j) =>
           /\ tx[s].kind = "cancel" /\ tx[s].step \in {"scan", "rows", "count", "commit"}
           /\ tx[s].step \in {"scan", "rows"} => tx[s].jobs = {j}
           /\ \A t \in TicketsOf(j) : View(s)[t].status \in Pending => Ahead(s, t)
    /\ tx[s].kind = "cancel" =>
         \A t \in Ticket : ticketLock[t] = s => newTicket[t].status \notin Pending

Wary(s) == Orderly(s) /\ Returned(s) /\ Cancelling(s)

WInv == PInv /\ \A s \in Session : Wary(s)

-----------------------------------------------------------------------------
LEMMA WaryFacts ==
    ASSUME WInv, NEW s \in Session
    PROVE  /\ PInv /\ TypeOK /\ tx[s] \in Transaction
           /\ tx[s].jobs \subseteq Job /\ tx[s].rows \subseteq Ticket
           /\ Places(s) /\ Asked(tx[s]) /\ Found(tx[s])
           /\ s # NoSession /\ \A t \in Ticket : jobOf[t] \in Job
           /\ Orderly(s) /\ Returned(s) /\ Cancelling(s)
BY Facts DEF WInv, Wary, Proper

(* Sessions that do not act. *)
LEMMA WaryOthers ==
    ASSUME WInv, NEW s \in Session, NEW next, Local(s, next), NEW r \in Session, r # s
    PROVE  Wary(r)'
<1>1. /\ UNCHANGED <<job, ticket, jobOf>> /\ tx'[r] = tx[r] /\ r # NoSession
      /\ \A j \in Job : /\ jobLock'[j] = r <=> jobLock[j] = r
                        /\ jobLock[j] = r => newJob'[j] = newJob[j]
      /\ \A t \in Ticket : /\ ticketLock'[t] = r <=> ticketLock[t] = r
                           /\ ticketLock[t] = r => newTicket'[t] = newTicket[t]
  BY TransactionsAssumption DEF Local, JobsLocked, TicketsLocked, JobKept, JobTaken, TicketKept,
     TicketTaken, JobFree, TicketFree, WInv, PInv, LInv, TypeOK
<1>2. View(r)' = View(r) /\ \A j : TicketsOf(j)' = TicketsOf(j)
  BY <1>1 DEF View, TicketSeen, TicketsOf
<1>3. tx[r].jobs \subseteq Job /\ (\A t \in Ticket : jobOf[t] \in Job) /\ Wary(r)
  BY WaryFacts DEF Wary
<1>4. (NoTickets(r)' <=> NoTickets(r)) /\ (NoJobs(r)' <=> NoJobs(r)) /\ (Held(r)' <=> Held(r))
  BY <1>1, <1>3 DEF NoTickets, NoJobs, Held
<1>5. Orderly(r)'
  BY <1>1, <1>3, <1>4 DEF Wary, Orderly
<1>6. Returned(r)'
  BY <1>1, <1>3 DEF Wary, Returned
<1>7. Cancelling(r)'
  <2>1. \A j \in Job : Marked(r, j)' <=> Marked(r, j)
    BY <1>1 DEF Marked
  <2>2. \A t : Ahead(r, t)' <=> Ahead(r, t)
    BY <1>1 DEF Ahead
  <2> QED
    BY <1>1, <1>2, <1>3, <2>1, <2>2 DEF Wary, Cancelling
<1> QED
  BY <1>5, <1>6, <1>7 DEF Wary

LEMMA WInvLocal ==
    ASSUME WInv, PInv', NEW s \in Session, NEW next, Local(s, next), Wary(s)'
    PROVE  WInv'
BY WaryOthers DEF WInv

(* A session that ends. *)
LEMMA WInvEnd ==
    ASSUME WInv, PInv', UNCHANGED jobOf, NEW s \in Session, Rollback(s) \/ Commit(s)
    PROVE  WInv'
<1>1. /\ \A r \in Session : tx'[r] = IF r = s THEN NoTransaction ELSE tx[r]
      /\ \A j \in Job : /\ jobLock'[j] = IF jobLock[j] = s THEN NoSession ELSE jobLock[j]
                        /\ jobLock[j] # s => newJob'[j] = newJob[j] /\ job'[j] = job[j]
      /\ \A t \in Ticket :
            /\ ticketLock'[t] = IF ticketLock[t] = s THEN NoSession ELSE ticketLock[t]
            /\ ticketLock[t] # s => newTicket'[t] = newTicket[t] /\ ticket'[t] = ticket[t]
            /\ ticketLock[t] = s => ticket'[t] \in {ticket[t], newTicket[t]}
      /\ jobOf' = jobOf /\ s # NoSession
  BY TransactionsAssumption DEF Rollback, Commit, Unlock, committed, WInv, PInv, LInv, TypeOK
<1>2. Wary(s)'
  <2>1. NoTickets(s)' /\ NoJobs(s)'
    BY <1>1 DEF NoTickets, NoJobs
  <2>2. tx'[s] = NoTransaction
    BY <1>1
  <2> QED
    BY <2>1, <2>2 DEF Wary, Orderly, Returned, Cancelling, Marked, NoTickets, NoJobs,
       NoTransaction, Settlement, Bulk
<1>3. ASSUME NEW r \in Session, r # s
      PROVE  Wary(r)'
  <2>1. /\ tx'[r] = tx[r] /\ r # NoSession /\ Wary(r)
        /\ \A j \in Job : /\ jobLock'[j] = r <=> jobLock[j] = r
                          /\ jobLock[j] = r => newJob'[j] = newJob[j] /\ job'[j] = job[j]
        /\ \A t \in Ticket : /\ ticketLock'[t] = r <=> ticketLock[t] = r
                             /\ ticketLock[t] = r => /\ newTicket'[t] = newTicket[t]
                                                     /\ ticket'[t] = ticket[t]
    BY <1>1, <1>3, TransactionsAssumption DEF WInv
  <2>2. tx[r].jobs \subseteq Job /\ \A t \in Ticket : jobOf[t] \in Job
    BY WaryFacts
  <2>3. (NoTickets(r)' <=> NoTickets(r)) /\ (NoJobs(r)' <=> NoJobs(r)) /\ (Held(r)' <=> Held(r))
    BY <2>1, <2>2 DEF NoTickets, NoJobs, Held
  <2>4. Orderly(r)'
    BY <1>1, <2>1, <2>3 DEF Wary, Orderly
  <2>5. Returned(r)'
    BY <1>1, <2>1, <2>2 DEF Wary, Returned
  <2>6. Cancelling(r)'
    <3>1. \A j \in Job : Marked(r, j)' <=> Marked(r, j)
      BY <2>1 DEF Marked
    <3>2. \A t : Ahead(r, t)' <=> Ahead(r, t)
      BY <2>1 DEF Ahead
    <3>3. ASSUME NEW j \in Job, jobLock[j] = r, NEW t \in TicketsOf(j),
                 View(r)'[t].status \in Pending
          PROVE  View(r)[t].status \in Pending
      <4>1. t \in Ticket /\ jobOf[t] = j
        BY Views
      <4>2. CASE ticketLock[t] = s
        <5>1. View(r)'[t] = ticket'[t] /\ View(r)[t] = ticket[t]
          BY <1>3, <2>1, <4>1, <4>2, Views, ViewsNext, <1>1
        <5>2. newTicket[t].status \in Pending => ticket[t].status \in Pending
          BY <1>3, <3>3, <4>1, <4>2, WaryFacts DEF Returned
        <5>3. ticket'[t] \in {ticket[t], newTicket[t]}
          BY <1>1, <4>1, <4>2
        <5> QED
          BY <3>3, <5>1, <5>2, <5>3
      <4>3. CASE ticketLock[t] # s
        <5>1. View(r)'[t] = View(r)[t]
          BY <1>1, <2>1, <4>1, <4>3, Views, ViewsNext
        <5> QED
          BY <3>3, <5>1
      <4> QED
        BY <4>2, <4>3
    <3>4. \A j : TicketsOf(j)' = TicketsOf(j)
      BY <1>1 DEF TicketsOf
    <3>5. ASSUME NEW j \in Job, Marked(r, j)
          PROVE  /\ tx[r].kind = "cancel" /\ tx[r].step \in {"scan", "rows", "count", "commit"}
                 /\ tx[r].step \in {"scan", "rows"} => tx[r].jobs = {j}
                 /\ \A t \in TicketsOf(j) : View(r)'[t].status \in Pending => Ahead(r, t)
      BY <2>1, <3>3, <3>5 DEF Wary, Cancelling, Marked
    <3> QED
      BY <2>1, <3>1, <3>2, <3>4, <3>5 DEF Wary, Cancelling
  <2> QED
    BY <2>4, <2>5, <2>6 DEF Wary
<1> QED
  BY <1>2, <1>3 DEF WInv

LEMMA WInvExpiry ==
    ASSUME WInv, PInv', UNCHANGED jobOf, NEW u \in Ticket, LeaseExpires(u)
    PROVE  WInv'
<1>1. /\ UNCHANGED <<job, newJob, jobLock, ticketLock, tx, jobOf>>
      /\ \A t \in Ticket : ticket'[t].status = ticket[t].status
      /\ \A t \in Ticket : newTicket'[t].status = newTicket[t].status
  BY DEF LeaseExpires, WInv, PInv, LInv, TypeOK, TicketRow
<1>2. ASSUME NEW r \in Session
      PROVE  Wary(r)'
  <2>1. Wary(r)
    BY DEF WInv
  <2>2. /\ \A t \in Ticket : View(r)'[t].status = View(r)[t].status
        /\ \A j : TicketsOf(j)' = TicketsOf(j)
        /\ \A j : TicketsOf(j) \subseteq Ticket
    BY <1>1, Views, ViewsNext
  <2>3. (NoTickets(r)' <=> NoTickets(r)) /\ (NoJobs(r)' <=> NoJobs(r)) /\ (Held(r)' <=> Held(r))
    BY <1>1 DEF NoTickets, NoJobs, Held
  <2>4. Orderly(r)' /\ Returned(r)'
    BY <1>1, <2>1, <2>3 DEF Wary, Orderly, Returned
  <2>5. /\ \A j : Marked(r, j)' <=> Marked(r, j)
        /\ \A t : Ahead(r, t)' <=> Ahead(r, t)
    BY <1>1 DEF Marked, Ahead
  <2>6. Cancelling(r)'
    BY <1>1, <2>1, <2>2, <2>5 DEF Wary, Cancelling
  <2> QED
    BY <2>4, <2>6 DEF Wary
<1> QED
  BY <1>2 DEF WInv

-----------------------------------------------------------------------------
(* What a statement leaves of the session that runs it. *)

LEMMA ReturnedKept ==
    ASSUME WInv, NEW s \in Session, UNCHANGED <<ticket, ticketLock, newTicket, jobOf>>,
           \A j \in Job : jobLock[j] = s => jobLock'[j] = s
    PROVE  Returned(s)'
BY WaryFacts DEF Returned

(* Only cancellations mark jobs. *)
LEMMA CancellingKept ==
    ASSUME WInv, NEW s \in Session, tx[s].kind # "cancel", tx'[s].kind # "cancel", UNCHANGED job,
           \A j \in Job : jobLock'[j] = s /\ newJob'[j].cancel =>
                            job[j].cancel \/ (jobLock[j] = s /\ newJob[j].cancel)
    PROVE  Cancelling(s)'
<1>1. \A j \in Job : ~ Marked(s, j)
  BY WaryFacts DEF Cancelling
<1>2. \A j \in Job : ~ Marked(s, j)'
  BY <1>1 DEF Marked
<1> QED
  BY <1>2 DEF Cancelling

LEMMA WaryBegin ==
    ASSUME WInv, UNCHANGED jobOf, NEW s \in Session,
           \/ \E t \in Ticket, w \in Worker, target \in SettleTarget :
                 BeginSettlement(s, t, w, target)
           \/ BeginOther(s)
    PROVE  Wary(s)'
<1>1. \E kind, step, worker, target, rows, jobs :
         /\ Begin(s, kind, step, worker, target, rows, jobs)
         /\ \/ kind \in Settlement \cup Bulk /\ step = "job"
            \/ kind = "heartbeat" /\ step = "rows"
            \/ kind \in {"claim", "sweep", "reconcile"} /\ step = "scan"
  <2>1. CASE \E t \in Ticket, w \in Worker, target \in SettleTarget :
                BeginSettlement(s, t, w, target)
    BY <2>1 DEF BeginSettlement, Settlement
  <2>2. CASE BeginOther(s)
    BY <2>2 DEF BeginOther, Bulk
  <2> QED
    BY <2>1, <2>2
<1>2. PICK kind, step, worker, target, rows, jobs :
         /\ Begin(s, kind, step, worker, target, rows, jobs)
         /\ \/ kind \in Settlement \cup Bulk /\ step = "job"
            \/ kind = "heartbeat" /\ step = "rows"
            \/ kind \in {"claim", "sweep", "reconcile"} /\ step = "scan"
  BY <1>1
<1> DEFINE next == [tx[s] EXCEPT !.kind = kind, !.step = step, !.worker = worker,
                                 !.target = target, !.rows = rows, !.jobs = jobs]
<1>3. /\ tx[s] = NoTransaction /\ UNCHANGED <<locks, job, ticket>> /\ tx' = [tx EXCEPT ![s] = next]
  BY <1>2 DEF Begin, committed
<1>4. /\ tx'[s] = next /\ next.kind = kind /\ next.step = step
  BY <1>3, WaryFacts DEF TypeOK, Transaction
<1>5. NoTickets(s) /\ NoJobs(s)
  BY <1>3, WaryFacts DEF Places, NoTransaction
<1>6. NoTickets(s)' /\ NoJobs(s)'
  BY <1>3, <1>5 DEF locks, NoTickets, NoJobs
<1> HIDE DEF next
<1>7. Orderly(s)'
  BY <1>2, <1>4, <1>6 DEF Orderly, Settlement, Bulk
<1> QED
  BY <1>6, <1>7 DEF Wary, Returned, Cancelling, Marked, NoTickets, NoJobs

LEMMA ScansWary ==
    ASSUME WInv, UNCHANGED jobOf, NEW s \in Session,
           ClaimScan(s) \/ SweepScan(s) \/ ReconcileScan(s), ~Rollback(s)
    PROVE  Wary(s)'
<1>1. /\ tx[s].step = "scan" /\ tx[s].kind \in {"claim", "sweep", "reconcile"}
      /\ UNCHANGED <<locks, job, ticket>>
      /\ tx'[s].kind = tx[s].kind
      /\ tx[s].kind \in {"claim", "sweep"} => tx'[s].step = "rows"
      /\ tx[s].kind = "reconcile" => tx'[s].step = "count"
  <2>1. CASE ClaimScan(s)
    BY <2>1, WaryFacts, Continued DEF ClaimScan
  <2>2. CASE SweepScan(s)
    BY <2>2, WaryFacts, Continued DEF SweepScan
  <2>3. CASE ReconcileScan(s)
    BY <2>3, WaryFacts, Continued DEF ReconcileScan
  <2> QED
    BY <2>1, <2>2, <2>3
<1>2. /\ UNCHANGED <<jobLock, newJob, ticketLock, newTicket>>
      /\ NoTickets(s)' <=> NoTickets(s)
  BY <1>1, LocksKept
<1>3. Orderly(s)'
  BY <1>1, <1>2, WaryFacts DEF Orderly, Settlement, Bulk
<1>4. Returned(s)'
  BY <1>1, <1>2, ReturnedKept
<1>5. Cancelling(s)'
  BY <1>1, <1>2, CancellingKept
<1> QED
  BY <1>3, <1>4, <1>5 DEF Wary

(* A cancellation has all pending tickets it sees before it. *)
LEMMA ScanJobRowsWary ==
    ASSUME WInv, UNCHANGED jobOf, NEW s \in Session, ScanJobRows(s), ~Rollback(s)
    PROVE  Wary(s)'
<1>1. PICK i \in tx[s].jobs :
        LET found == {t \in TicketsOf(i) : Matches(tx[s].kind, ticket[t])} IN
        /\ tx[s].kind \in Bulk /\ tx[s].step = "scan"
        /\ Continue(s, [tx[s] EXCEPT !.step = IF found = {} THEN "count" ELSE "rows",
                                     !.rows = found])
        /\ UNCHANGED locks
  BY DEF ScanJobRows, Bulk
<1> DEFINE found == {t \in TicketsOf(i) : Matches(tx[s].kind, ticket[t])}
           st == IF found = {} THEN "count" ELSE "rows"
<1>2. /\ tx'[s].kind = tx[s].kind /\ tx'[s].jobs = tx[s].jobs /\ tx'[s].step = st
      /\ tx'[s].rows = found /\ UNCHANGED <<job, ticket>>
  <2>1. TypeOK /\ tx[s] \in Transaction
    BY WaryFacts
  <2>2. Continue(s, [tx[s] EXCEPT !.step = st, !.rows = found])
    BY <1>1
  <2> HIDE DEF st, found
  <2>3. tx'[s] = [tx[s] EXCEPT !.step = st, !.rows = found] /\ UNCHANGED <<job, ticket>>
    BY <2>1, <2>2, ContinueFacts
  <2> QED
    BY <2>1, <2>3 DEF Transaction
<1>3. /\ UNCHANGED <<jobLock, newJob, ticketLock, newTicket>>
      /\ View(s)' = View(s) /\ \A j : TicketsOf(j)' = TicketsOf(j)
      /\ Held(s)' <=> Held(s)
  <2>1. UNCHANGED <<jobLock, newJob, ticketLock, newTicket>>
      /\ View(s)' = View(s) /\ \A j : TicketsOf(j)' = TicketsOf(j)
    BY <1>1, <1>2, LocksKept
  <2> HIDE DEF st, found
  <2> QED
    BY <1>2, <2>1 DEF Held
<1>4. NoTickets(s) /\ Held(s) /\ tx[s].jobs = {i} /\ i \in Job
  BY <1>1, WaryFacts DEF Places, Found, Bulk, Settlement
<1>5. st \in {"rows", "count"}
  OBVIOUS
<1>6. Orderly(s)'
  <2> HIDE DEF st, found
  <2> QED
    BY <1>1, <1>2, <1>3, <1>4, <1>5 DEF Orderly, Settlement, Bulk, NoTickets
<1>7. Returned(s)'
  <2> HIDE DEF st, found
  <2> QED
    BY <1>2, <1>3, ReturnedKept
<1>8. Cancelling(s)'
  <2>1. CASE tx[s].kind # "cancel"
    <3> HIDE DEF st, found
    <3> QED
      BY <1>2, <1>3, <2>1, CancellingKept
  <2>2. CASE tx[s].kind = "cancel"
    <3>1. \A j \in Job : Marked(s, j)' <=> Marked(s, j)
      BY <1>2, <1>3 DEF Marked
    <3>2. ASSUME NEW j \in Job, Marked(s, j)
          PROVE  j = i
      BY <1>1, <1>4, <3>2, WaryFacts DEF Cancelling
    <3>3. ASSUME NEW t \in TicketsOf(i), View(s)[t].status \in Pending
          PROVE  t \in found /\ st = "rows"
      <4>1. t \in Ticket /\ View(s)[t] = ticket[t]
        BY <1>4, Views DEF NoTickets
      <4>2. Matches(tx[s].kind, ticket[t])
        BY <2>2, <3>3, <4>1 DEF Matches
      <4> QED
        BY <4>2
    <3>4. ASSUME NEW t \in TicketsOf(i), View(s)[t].status \in Pending
          PROVE  Ahead(s, t)'
      <4>1. t \in found /\ st = "rows"
        BY <3>3, <3>4
      <4> HIDE DEF st, found
      <4> QED
        BY <1>2, <4>1 DEF Ahead
    <3> HIDE DEF st, found
    <3> QED
      BY <1>2, <1>3, <1>4, <1>5, <2>2, <3>1, <3>2, <3>4 DEF Cancelling, NoTickets
  <2> QED
    BY <2>1, <2>2
<1> QED
  BY <1>6, <1>7, <1>8 DEF Wary

LEMMA LockJobWary ==
    ASSUME WInv, UNCHANGED jobOf, NEW s \in Session, LockJob(s), ~Rollback(s)
    PROVE  Wary(s)'
<1>1. PICK j \in tx[s].jobs :
        /\ tx[s].step = "job" /\ JobFree(s, j) /\ NoTicketLocked
        /\ \/ /\ tx[s].kind \in Settlement \cup {"reset"}
              /\ LockJobs(s, [i \in {j} |-> job[i]])
           \/ /\ tx[s].kind = "cancel"
              /\ LockJobs(s, [i \in {j} |-> [job[i] EXCEPT !.cancel = TRUE]])
        /\ \E st \in {"rows", "scan"} :
             /\ tx[s].kind \in Bulk => st = "scan"
             /\ tx[s].kind \in Settlement => st = "rows"
             /\ \/ Continue(s, [tx[s] EXCEPT !.step = st])
                \/ \E g : Continue(s, [tx[s] EXCEPT !.step = st, !.target = g])
  BY DEF LockJob, Settlement, Bulk
<1>2. /\ tx'[s].kind = tx[s].kind /\ tx'[s].jobs = tx[s].jobs
      /\ tx'[s].step \in {"rows", "scan"}
      /\ tx[s].kind \in Bulk => tx'[s].step = "scan"
      /\ tx[s].kind \in Settlement => tx'[s].step = "rows"
      /\ UNCHANGED <<job, ticket>>
  <2>1. TypeOK /\ tx[s] \in Transaction
    BY WaryFacts
  <2>2. PICK st \in {"rows", "scan"} :
             /\ tx[s].kind \in Bulk => st = "scan"
             /\ tx[s].kind \in Settlement => st = "rows"
             /\ \/ Continue(s, [tx[s] EXCEPT !.step = st])
                \/ \E g : Continue(s, [tx[s] EXCEPT !.step = st, !.target = g])
    BY <1>1
  <2>3. /\ tx'[s].kind = tx[s].kind /\ tx'[s].jobs = tx[s].jobs /\ tx'[s].step = st
    <3>1. CASE Continue(s, [tx[s] EXCEPT !.step = st])
      <4>1. tx'[s] = [tx[s] EXCEPT !.step = st]
        BY <2>1, <3>1, ContinueFacts
      <4> QED
        BY <2>1, <4>1 DEF Transaction
    <3>2. ASSUME NEW g, Continue(s, [tx[s] EXCEPT !.step = st, !.target = g])
          PROVE  /\ tx'[s].kind = tx[s].kind /\ tx'[s].jobs = tx[s].jobs /\ tx'[s].step = st
      <4>1. tx'[s] = [tx[s] EXCEPT !.step = st, !.target = g]
        BY <2>1, <3>2, ContinueFacts
      <4> QED
        BY <2>1, <4>1 DEF Transaction
    <3> QED
      BY <2>2, <3>1, <3>2
  <2>4. UNCHANGED <<job, ticket>>
    BY <2>2 DEF Continue, committed
  <2> QED
    BY <2>2, <2>3, <2>4
<1>3. /\ tx[s].kind \in Settlement \cup Bulk /\ NoTickets(s) /\ NoJobs(s)
      /\ tx[s].jobs = {j} /\ j \in Job
  BY <1>1, WaryFacts DEF Places, Orderly, Asked, Found
<1>4. /\ jobLock'[j] = s /\ \A i \in Job \ {j} : jobLock'[i] # s
      /\ UNCHANGED <<ticketLock, newTicket>>
      /\ tx[s].kind # "cancel" => newJob'[j] = job[j]
  BY <1>1, <1>3 DEF LockJobs, NoTicketLocked, NoJobs, Settlement
<1>5. Orderly(s)'
  BY <1>2, <1>3, <1>4 DEF Orderly, Settlement, Bulk, NoTickets
<1>6. Returned(s)'
  BY <1>3, <1>4 DEF Returned, NoTickets
<1>7. Cancelling(s)'
  <2>1. CASE tx[s].kind # "cancel"
    <3>1. \A i \in Job : jobLock'[i] = s /\ newJob'[i].cancel => job[i].cancel
      BY <1>4, <2>1
    <3> QED
      BY <1>2, <2>1, <3>1, CancellingKept
  <2>2. CASE tx[s].kind = "cancel"
    <3>1. tx'[s].step = "scan"
      BY <1>2, <2>2 DEF Bulk
    <3>2. \A i \in Job : Marked(s, i)' => i = j
      BY <1>4 DEF Marked
    <3>3. \A t \in Ticket : ticketLock'[t] # s
      BY <1>3, <1>4 DEF NoTickets
    <3> QED
      BY <1>2, <1>3, <2>2, <3>1, <3>2, <3>3 DEF Cancelling, Ahead
  <2> QED
    BY <2>1, <2>2
<1> QED
  BY <1>5, <1>6, <1>7 DEF Wary

LEMMA SettleRowWary ==
    ASSUME WInv, UNCHANGED jobOf, NEW s \in Session, SettleRow(s), ~Rollback(s)
    PROVE  Wary(s)'
<1>1. PICK t \in tx[s].rows :
        /\ tx[s].kind \in Settlement /\ tx[s].step = "rows"
        /\ LockTickets(s, [u \in {t} |-> SettledRow(ticket[u], tx[s].target)])
        /\ Continue(s, [tx[s] EXCEPT !.step = "count"])
        /\ NoJobLocked
  BY DEF SettleRow, Settlement
<1>2. /\ tx'[s].kind = tx[s].kind /\ tx'[s].step = "count"
      /\ UNCHANGED <<job, ticket, jobLock, newJob>>
  BY <1>1, WaryFacts, Continued DEF NoJobLocked
<1>3. /\ t \in Ticket /\ tx[s].jobs = {jobOf[t]} /\ NoTickets(s) /\ jobLock[jobOf[t]] = s
  BY <1>1, WaryFacts DEF Asked, Places, Settlement, Bulk, Held
<1>4. \A u \in Ticket \ {t} : ticketLock'[u] = ticketLock[u]
  BY <1>1 DEF LockTickets
<1>5. Orderly(s)'
  BY <1>1, <1>2 DEF Orderly, Settlement, Bulk
<1>6. Returned(s)'
  BY <1>2, <1>3, <1>4 DEF Returned, NoTickets
<1>7. Cancelling(s)'
  <2>1. tx[s].kind # "cancel"
    BY <1>1 DEF Settlement
  <2> QED
    BY <1>2, <2>1, CancellingKept
<1> QED
  BY <1>5, <1>6, <1>7 DEF Wary

LEMMA HeartbeatRowWary ==
    ASSUME WInv, UNCHANGED jobOf, NEW s \in Session, HeartbeatRow(s), ~Rollback(s)
    PROVE  Wary(s)'
<1>1. PICK t \in tx[s].rows :
        /\ tx[s].kind = "heartbeat" /\ tx[s].step = "rows"
        /\ LockTickets(s, [u \in {t} |-> [ticket[u] EXCEPT !.lease = "live"]])
        /\ Continue(s, [tx[s] EXCEPT !.step = "commit"])
        /\ NoJobLocked
  BY DEF HeartbeatRow
<1>2. /\ tx'[s].kind = "heartbeat" /\ tx'[s].step = "commit"
      /\ UNCHANGED <<job, ticket, jobLock, newJob>>
  BY <1>1, WaryFacts, Continued DEF NoJobLocked
<1>3. t \in Ticket /\ NoTickets(s) /\ NoJobs(s)
  BY <1>1, WaryFacts DEF Places, Orderly, Bulk
<1>4. \A u \in Ticket : ticketLock'[u] = s => newTicket'[u].status = ticket[u].status
  <2>1. newTicket'[t] = [ticket[t] EXCEPT !.lease = "live"]
    BY <1>1, <1>3 DEF LockTickets
  <2>2. newTicket'[t].status = ticket[t].status
    BY <1>3, <2>1, WaryFacts DEF TypeOK, TicketRow
  <2>3. \A u \in Ticket \ {t} : ticketLock'[u] = ticketLock[u]
    BY <1>1 DEF LockTickets
  <2> QED
    BY <1>3, <2>2, <2>3 DEF NoTickets
<1>5. Orderly(s)'
  BY <1>2, <1>3 DEF Orderly, Settlement, Bulk, NoJobs
<1>6. Returned(s)'
  BY <1>2, <1>4 DEF Returned
<1>7. Cancelling(s)'
  BY <1>1, <1>2, CancellingKept
<1> QED
  BY <1>5, <1>6, <1>7 DEF Wary

LEMMA UpdateJobRowWary ==
    ASSUME WInv, UNCHANGED jobOf, NEW s \in Session, UpdateJobRow(s)
    PROVE  Wary(s)'
<1>1. PICK t \in tx[s].rows :
        /\ tx[s].kind \in Bulk /\ tx[s].step = "rows"
        /\ IF Matches(tx[s].kind, ticket[t])
             THEN LockTickets(s, [u \in {t} |-> BulkUpdated(tx[s].kind, ticket[u])])
             ELSE NoTicketLocked
        /\ Continue(s, [tx[s] EXCEPT !.rows = @ \ {t},
                                     !.step = IF tx[s].rows = {t} THEN "count" ELSE @])
        /\ NoJobLocked
  BY DEF UpdateJobRow, Bulk
<1>2. /\ tx'[s].kind = tx[s].kind /\ tx'[s].jobs = tx[s].jobs /\ tx'[s].rows = tx[s].rows \ {t}
      /\ tx'[s].step = IF tx[s].rows = {t} THEN "count" ELSE "rows"
      /\ UNCHANGED <<job, ticket, jobLock, newJob>>
  <2> DEFINE st == IF tx[s].rows = {t} THEN "count" ELSE "rows"
             R == tx[s].rows \ {t}
             next == [tx[s] EXCEPT !.rows = @ \ {t},
                                   !.step = IF tx[s].rows = {t} THEN "count" ELSE @]
  <2>1. next.kind = tx[s].kind /\ next.jobs = tx[s].jobs /\ next.rows = R /\ next.step = st
    BY <1>1, WaryFacts DEF Transaction
  <2>2. tx'[s] = next /\ UNCHANGED <<job, ticket>>
    <3>1. Continue(s, next) /\ TypeOK
      BY <1>1, WaryFacts
    <3> HIDE DEF next
    <3> QED
      BY <3>1, ContinueFacts
  <2> HIDE DEF next
  <2> QED
    BY <1>1, <2>1, <2>2 DEF NoJobLocked
<1>3. /\ t \in Ticket /\ jobOf[t] \in tx[s].jobs /\ jobOf[t] \in Job /\ jobLock[jobOf[t]] = s
      /\ Held(s) /\ ticket[t] \in TicketRow
  BY <1>1, WaryFacts DEF Found, Places, Held, TypeOK
<1>4. \A u \in Ticket \ {t} : ticketLock'[u] = ticketLock[u] /\ newTicket'[u] = newTicket[u]
  BY <1>1 DEF LockTickets, NoTicketLocked
<1>5. Orderly(s)'
  <2>1. Held(s)'
    BY <1>2, <1>3 DEF Held
  <2>2. \A u \in Ticket : ticketLock'[u] = s => jobOf[u] \in tx[s].jobs
    BY <1>1, <1>3, <1>4, WaryFacts DEF Orderly
  <2> QED
    BY <1>1, <1>2, <2>1, <2>2 DEF Orderly, Settlement, Bulk
<1>6. Returned(s)'
  BY <1>2, <1>3, <1>4, WaryFacts DEF Returned
<1>7. Cancelling(s)'
  <2>1. CASE tx[s].kind # "cancel"
    BY <1>2, <2>1, CancellingKept
  <2>2. CASE tx[s].kind = "cancel"
    <3>1. /\ ticketLock'[t] = s => newTicket'[t].status \notin Pending
          /\ View(s)'[t].status \notin Pending
      <4>1. CASE Matches(tx[s].kind, ticket[t])
        <5>1. ticketLock'[t] = s /\ newTicket'[t] = BulkUpdated("cancel", ticket[t])
          BY <1>1, <1>3, <2>2, <4>1 DEF LockTickets
        <5>2. newTicket'[t].status = "CANCELLED"
          BY <1>3, <5>1 DEF BulkUpdated, TicketRow
        <5> QED
          BY <1>3, <5>1, <5>2, ViewsNext DEF Pending
      <4>2. CASE ~Matches(tx[s].kind, ticket[t])
        <5>1. ticket[t].status \notin Pending /\ UNCHANGED <<ticketLock, newTicket>>
          BY <1>1, <2>2, <4>2 DEF Matches, NoTicketLocked
        <5>2. ticketLock[t] = s => newTicket[t].status \notin Pending
          BY <1>3, <2>2, WaryFacts DEF Cancelling
        <5> QED
          BY <1>2, <1>3, <5>1, <5>2, ViewsNext
      <4> QED
        BY <4>1, <4>2
    <3>2. \A j \in Job : Marked(s, j)' <=> Marked(s, j)
      BY <1>2 DEF Marked
    <3>3. ASSUME NEW j \in Job, Marked(s, j), NEW u \in TicketsOf(j),
                 View(s)'[u].status \in Pending
          PROVE  Ahead(s, u)'
      <4>1. u \in Ticket /\ u # t
        BY <3>1, <3>3, Views
      <4>2. View(s)'[u] = View(s)[u]
        BY <1>2, <1>4, <4>1, Views, ViewsNext
      <4>3. u \in tx[s].rows
        BY <1>1, <3>3, <4>2, WaryFacts DEF Cancelling, Ahead
      <4> QED
        BY <1>2, <4>1, <4>3 DEF Ahead
    <3>4. \A u \in Ticket : ticketLock'[u] = s => newTicket'[u].status \notin Pending
      BY <1>4, <2>2, <3>1, WaryFacts DEF Cancelling
    <3>5. \A j \in Job : Marked(s, j) => tx[s].jobs = {j}
      BY <1>1, WaryFacts DEF Cancelling
    <3>6. \A j : TicketsOf(j)' = TicketsOf(j)
      BY ViewsNext
    <3> QED
      BY <1>2, <2>2, <3>2, <3>3, <3>4, <3>5, <3>6 DEF Cancelling
  <2> QED
    BY <2>1, <2>2
<1> QED
  BY <1>5, <1>6, <1>7 DEF Wary

LEMMA ClaimRowsWary ==
    ASSUME WInv, UNCHANGED jobOf, NEW s \in Session, ClaimRows(s), ~Rollback(s)
    PROVE  Wary(s)'
<1>1. PICK S \in SUBSET ClaimedRows(s) :
        /\ tx[s].kind = "claim" /\ tx[s].step = "rows"
        /\ LockTickets(s, [t \in S |-> [status |-> "RUNNING", worker |-> tx[s].worker,
                                        lease |-> "live"]])
        /\ Continue(s, [tx[s] EXCEPT !.step = "after", !.rows = {},
                                     !.jobs = {jobOf[t] : t \in S}])
        /\ NoJobLocked
  BY DEF ClaimRows
<1>2. /\ tx'[s].kind = "claim" /\ tx'[s].step = "after"
      /\ UNCHANGED <<job, ticket, jobLock, newJob>>
  <2> DEFINE J == {jobOf[t] : t \in S}
  <2>1. Continue(s, [tx[s] EXCEPT !.step = "after", !.rows = {}, !.jobs = J])
    BY <1>1
  <2>2. TypeOK /\ tx[s] \in Transaction
    BY WaryFacts
  <2> HIDE DEF J
  <2>3. tx'[s] = [tx[s] EXCEPT !.step = "after", !.rows = {}, !.jobs = J]
        /\ UNCHANGED <<job, ticket>>
    BY <2>1, <2>2, ContinueFacts
  <2> QED
    BY <1>1, <2>2, <2>3 DEF Transaction, NoJobLocked
<1>3. NoTickets(s)
  BY <1>1, WaryFacts DEF Places, Bulk
<1>4. \A u \in Ticket : ticketLock'[u] = s => newTicket'[u].status = "RUNNING"
  <2> SUFFICES ASSUME NEW u \in Ticket, ticketLock'[u] = s
               PROVE  newTicket'[u].status = "RUNNING"
    OBVIOUS
  <2> DEFINE row == [status |-> "RUNNING", worker |-> tx[s].worker, lease |-> "live"]
             rows == [t \in S |-> row]
  <2>1. DOMAIN rows = S /\ row.status = "RUNNING"
    OBVIOUS
  <2>2. LockTickets(s, rows)
    BY <1>1
  <2>3. u \in S
    <3> HIDE DEF rows
    <3> QED
      BY <1>3, <2>1, <2>2 DEF LockTickets, NoTickets
  <2>4. newTicket'[u] = row
    BY <2>2, <2>3 DEF LockTickets
  <2> HIDE DEF row
  <2> QED
    BY <2>1, <2>4
<1>5. Orderly(s)'
  BY <1>2 DEF Orderly, Settlement, Bulk
<1>6. Returned(s)'
  BY <1>4 DEF Returned, Pending
<1>7. Cancelling(s)'
  BY <1>1, <1>2, CancellingKept
<1> QED
  BY <1>5, <1>6, <1>7 DEF Wary

LEMMA MarkRunningWary ==
    ASSUME WInv, UNCHANGED jobOf, NEW s \in Session, MarkRunning(s)
    PROVE  Wary(s)'
<1> DEFINE J == {j \in tx[s].jobs : JobFree(s, j) /\ job[j].status \in {"CREATED", "READY"}}
           rows == [j \in J |-> [job[j] EXCEPT !.status = "RUNNING"]]
<1>1. /\ tx[s].kind = "claim" /\ tx[s].step = "after"
      /\ LockJobs(s, rows) /\ Continue(s, [tx[s] EXCEPT !.step = "commit", !.jobs = {}])
      /\ NoTicketLocked
  BY DEF MarkRunning
<1>2. /\ tx'[s].kind = "claim" /\ tx'[s].step = "commit"
      /\ UNCHANGED <<job, ticket, ticketLock, newTicket>>
  BY <1>1, WaryFacts, Continued DEF NoTicketLocked
<1>3. NoJobs(s)
  BY <1>1, WaryFacts DEF Places, Bulk
<1>4. ASSUME NEW j \in Job, jobLock'[j] = s
      PROVE  newJob'[j].cancel = job[j].cancel
  <2>1. DOMAIN rows = J
    OBVIOUS
  <2>2. j \in J /\ newJob'[j] = rows[j]
    <3> HIDE DEF rows, J
    <3> QED
      BY <1>1, <1>3, <1>4, <2>1 DEF LockJobs, NoJobs
  <2>3. job[j] \in JobRow /\ newJob'[j] = [job[j] EXCEPT !.status = "RUNNING"]
    BY <2>2, WaryFacts DEF TypeOK
  <2> QED
    BY <2>3 DEF JobRow
<1>5. Orderly(s)'
  BY <1>2 DEF Orderly, Settlement, Bulk
<1>6. Returned(s)'
  BY <1>2, <1>3, ReturnedKept DEF NoJobs
<1>7. Cancelling(s)'
  BY <1>1, <1>2, <1>4, CancellingKept
<1> QED
  BY <1>5, <1>6, <1>7 DEF Wary

LEMMA SweepRowsWary ==
    ASSUME WInv, UNCHANGED jobOf, NEW s \in Session, SweepRows(s)
    PROVE  Wary(s)'
<1>1. PICK T \in SUBSET tx[s].rows, target \in [Ticket -> {"RETRY", "FAILED"}] :
        LET J == {j \in {jobOf[t] : t \in T} : JobFree(s, j)}
            S == {t \in T : jobOf[t] \in J /\ TicketFree(s, t) /\ Swept(t)} IN
        /\ LockJobs(s, [j \in J |-> job[j]])
        /\ LockTickets(s, [t \in S |->
             SweptRow(ticket[t], IF jobOf[t] \in tx[s].seen THEN "CANCELLED" ELSE target[t])])
        /\ Continue(s, [tx[s] EXCEPT !.step = "after", !.rows = {},
                                     !.jobs = {jobOf[t] : t \in S}])
  BY DEF SweepRows
<1> DEFINE J == {j \in {jobOf[t] : t \in T} : JobFree(s, j)}
           S == {t \in T : jobOf[t] \in J /\ TicketFree(s, t) /\ Swept(t)}
           K == {jobOf[t] : t \in S}
<1>2. NoTickets(s) /\ tx[s].kind = "sweep" /\ tx[s].step = "rows"
  BY WaryFacts DEF SweepRows, Places, Bulk
<1>3. /\ tx'[s].kind = "sweep" /\ tx'[s].step = "after" /\ tx'[s].jobs = K
      /\ UNCHANGED <<job, ticket>>
  <2>1. Continue(s, [tx[s] EXCEPT !.step = "after", !.rows = {}, !.jobs = K])
    BY <1>1
  <2>2. TypeOK /\ tx[s] \in Transaction
    BY WaryFacts
  <2> HIDE DEF K
  <2>3. tx'[s] = [tx[s] EXCEPT !.step = "after", !.rows = {}, !.jobs = K]
        /\ UNCHANGED <<job, ticket>>
    BY <2>1, <2>2, ContinueFacts
  <2> QED
    BY <1>2, <2>2, <2>3 DEF Transaction
<1>4. /\ \A j \in J : jobLock'[j] = s /\ newJob'[j] = job[j]
      /\ \A j \in Job \ J : jobLock'[j] = jobLock[j] /\ newJob'[j] = newJob[j]
  <2> DEFINE rows == [j \in J |-> job[j]]
  <2>1. DOMAIN rows = J /\ (\A j \in J : rows[j] = job[j]) /\ LockJobs(s, rows)
    BY <1>1
  <2>2. J \subseteq Job
    BY <1>1, WaryFacts
  <2> HIDE DEF rows, J
  <2> QED
    BY <2>1, <2>2 DEF LockJobs
<1>5. \A t \in Ticket : ticketLock'[t] = s <=> t \in S
  <2> DEFINE to(t) == IF jobOf[t] \in tx[s].seen THEN "CANCELLED" ELSE target[t]
             rows == [t \in S |-> SweptRow(ticket[t], to(t))]
  <2>1. DOMAIN rows = S /\ LockTickets(s, rows)
    BY <1>1
  <2> HIDE DEF rows, S
  <2> QED
    BY <1>2, <2>1 DEF LockTickets, NoTickets
<1>6. Orderly(s)'
  <2>1. K \subseteq J
    OBVIOUS
  <2>2. Held(s)'
    <3> HIDE DEF J, K
    <3> QED
      BY <1>3, <1>4, <2>1 DEF Held
  <2> HIDE DEF K
  <2> QED
    BY <1>3, <2>2 DEF Orderly, Settlement, Bulk
<1>7. Returned(s)'
  <2> SUFFICES ASSUME NEW t \in Ticket, ticketLock'[t] = s
               PROVE  jobLock'[jobOf[t]] = s
    BY DEF Returned
  <2>1. jobOf[t] \in J
    BY <1>5
  <2> QED
    BY <1>4, <2>1
<1>8. Cancelling(s)'
  <2>1. \A j \in Job : jobLock'[j] = s /\ newJob'[j].cancel =>
                         job[j].cancel \/ (jobLock[j] = s /\ newJob[j].cancel)
    <3> HIDE DEF J
    <3> QED
      BY <1>4
  <2> QED
    BY <1>2, <1>3, <2>1, CancellingKept
<1> QED
  BY <1>6, <1>7, <1>8 DEF Wary

LEMMA SweepCancelledWary ==
    ASSUME WInv, UNCHANGED jobOf, NEW s \in Session, SweepCancelled(s)
    PROVE  Wary(s)'
<1> DEFINE J == {j \in Job : /\ job[j].cancel /\ JobFree(s, j)
                             /\ \E t \in TicketsOf(j) : Swept(t)}
           S == {t \in Ticket : jobOf[t] \in J /\ ticketLock[t] = NoSession /\ Swept(t)}
           jobRows == [j \in J |-> JobSeen(s, j)]
           rows == [t \in S |-> [ticket[t] EXCEPT !.status = "CANCELLED", !.lease = "none"]]
           K == tx[s].jobs \cup {jobOf[t] : t \in S}
<1>1. /\ tx[s].kind = "sweep" /\ tx[s].step = "after"
      /\ LockJobs(s, jobRows) /\ LockTickets(s, rows)
      /\ Continue(s, [tx[s] EXCEPT !.step = "count", !.jobs = K])
  BY DEF SweepCancelled
<1>2. Held(s) /\ Returned(s) /\ Cancelling(s)
  BY <1>1, WaryFacts DEF Orderly
<1>3. /\ tx'[s].kind = "sweep" /\ tx'[s].step = "count" /\ tx'[s].jobs = K
      /\ UNCHANGED <<job, ticket>>
  <2>1. TypeOK /\ tx[s] \in Transaction
    BY WaryFacts
  <2> HIDE DEF K
  <2>2. tx'[s] = [tx[s] EXCEPT !.step = "count", !.jobs = K] /\ UNCHANGED <<job, ticket>>
    BY <1>1, <2>1, ContinueFacts
  <2> QED
    BY <1>1, <2>1, <2>2 DEF Transaction
<1>4. /\ \A j \in J : jobLock'[j] = s /\ newJob'[j] = JobSeen(s, j)
      /\ \A j \in Job \ J : jobLock'[j] = jobLock[j] /\ newJob'[j] = newJob[j]
  <2>1. DOMAIN jobRows = J /\ (\A j \in J : jobRows[j] = JobSeen(s, j)) /\ J \subseteq Job
    OBVIOUS
  <2> HIDE DEF jobRows, J
  <2> QED
    BY <1>1, <2>1 DEF LockJobs
<1>5. /\ \A t \in S : ticketLock'[t] = s
      /\ \A t \in Ticket \ S : ticketLock'[t] = ticketLock[t] /\ newTicket'[t] = newTicket[t]
  <2>1. DOMAIN rows = S /\ S \subseteq Ticket
    OBVIOUS
  <2> HIDE DEF rows, S
  <2> QED
    BY <1>1, <2>1 DEF LockTickets
<1>6. \A j \in Job : jobLock[j] = s => jobLock'[j] = s
  BY <1>4
<1>7. Orderly(s)'
  <2>1. \A j \in K : jobLock'[j] = s
    <3> SUFFICES ASSUME NEW j \in K PROVE jobLock'[j] = s
      OBVIOUS
    <3>1. CASE j \in tx[s].jobs
      BY <1>2, <1>6, <3>1, WaryFacts DEF Held
    <3>2. CASE j \in J
      BY <1>4, <3>2
    <3> QED
      BY <3>1, <3>2
  <2>2. Held(s)'
    <3> HIDE DEF K
    <3> QED
      BY <1>3, <2>1 DEF Held
  <2> HIDE DEF K
  <2> QED
    BY <1>3, <2>2 DEF Orderly, Settlement, Bulk
<1>8. Returned(s)'
  <2> SUFFICES ASSUME NEW t \in Ticket, ticketLock'[t] = s, newTicket'[t].status \in Pending
               PROVE  ticket[t].status \in Pending \/ jobLock'[jobOf[t]] = s
    BY <1>3 DEF Returned
  <2>1. CASE t \in S
    <3>1. jobOf[t] \in J
      BY <2>1
    <3> QED
      BY <1>4, <3>1
  <2>2. CASE t \notin S
    <3>1. ticketLock[t] = s /\ newTicket'[t] = newTicket[t] /\ jobOf[t] \in Job
      BY <1>5, <2>2, WaryFacts
    <3> HIDE DEF J, S
    <3> QED
      BY <1>2, <1>6, <2>2, <3>1 DEF Returned
  <2> QED
    BY <2>1, <2>2
<1>9. Cancelling(s)'
  <2>1. \A j \in Job : jobLock'[j] = s /\ newJob'[j].cancel =>
                         job[j].cancel \/ (jobLock[j] = s /\ newJob[j].cancel)
    <3> HIDE DEF J
    <3> QED
      BY <1>4 DEF JobSeen
  <2> HIDE DEF J, S, K
  <2> QED
    BY <1>1, <1>3, <2>1, CancellingKept
<1> QED
  BY <1>7, <1>8, <1>9 DEF Wary

LEMMA CountProgressWary ==
    ASSUME WInv, UNCHANGED jobOf, NEW s \in Session, CountProgress(s)
    PROVE  Wary(s)'
<1>1. PICK j \in tx[s].jobs :
        /\ tx[s].kind \in Settlement /\ tx[s].step = "count"
        /\ Continue(s, [tx[s] EXCEPT !.step = "write", !.progress = Counted(s, j)])
        /\ UNCHANGED locks
  BY DEF CountProgress, Settlement
<1>2. /\ tx'[s].kind = tx[s].kind /\ tx'[s].step = "write" /\ UNCHANGED <<job, ticket>>
  <2> DEFINE p == Counted(s, j)
  <2>1. TypeOK /\ tx[s] \in Transaction
    BY WaryFacts
  <2>2. Continue(s, [tx[s] EXCEPT !.step = "write", !.progress = p])
    BY <1>1
  <2> HIDE DEF p
  <2>3. tx'[s] = [tx[s] EXCEPT !.step = "write", !.progress = p] /\ UNCHANGED <<job, ticket>>
    BY <2>1, <2>2, ContinueFacts
  <2> QED
    BY <2>1, <2>3 DEF Transaction
<1>3. UNCHANGED <<jobLock, newJob, ticketLock, newTicket>>
  BY <1>1 DEF locks
<1>4. Orderly(s)'
  BY <1>1, <1>2 DEF Orderly, Settlement, Bulk
<1>5. Returned(s)'
  BY <1>2, <1>3, ReturnedKept
<1>6. Cancelling(s)'
  BY <1>1, <1>2, <1>3, CancellingKept DEF Settlement
<1> QED
  BY <1>4, <1>5, <1>6 DEF Wary

LEMMA WriteProgressWary ==
    ASSUME WInv, UNCHANGED jobOf, NEW s \in Session, WriteProgress(s)
    PROVE  Wary(s)'
<1>1. PICK j \in tx[s].jobs :
        /\ tx[s].step = "write"
        /\ LockJobs(s, [i \in {j} |-> WithProgress(JobSeen(s, i), tx[s].progress)])
        /\ Continue(s, [tx[s] EXCEPT !.step = "commit"])
        /\ NoTicketLocked
  BY DEF WriteProgress
<1>2. /\ tx'[s].kind = tx[s].kind /\ tx'[s].step = "commit"
      /\ UNCHANGED <<job, ticket, ticketLock, newTicket>>
  BY <1>1, WaryFacts, Continued DEF NoTicketLocked
<1>3. tx[s].kind \in Settlement /\ j \in Job
  BY <1>1, WaryFacts DEF Places
<1>4. /\ newJob'[j] = WithProgress(JobSeen(s, j), tx[s].progress) /\ jobLock'[j] = s
      /\ \A i \in Job \ {j} : jobLock'[i] = jobLock[i] /\ newJob'[i] = newJob[i]
  BY <1>1, <1>3 DEF LockJobs
<1>5. newJob'[j].cancel = JobSeen(s, j).cancel
  BY <1>3, <1>4, WaryFacts, SeenTypes DEF WithProgress, JobRow
<1>6. Orderly(s)'
  BY <1>2, <1>3 DEF Orderly, Settlement, Bulk
<1>7. Returned(s)'
  BY <1>2, <1>4, ReturnedKept
<1>8. Cancelling(s)'
  <2>1. \A i \in Job : jobLock'[i] = s /\ newJob'[i].cancel =>
                         job[i].cancel \/ (jobLock[i] = s /\ newJob[i].cancel)
    BY <1>4, <1>5 DEF JobSeen
  <2> QED
    BY <1>2, <1>3, <2>1, CancellingKept DEF Settlement
<1> QED
  BY <1>6, <1>7, <1>8 DEF Wary

LEMMA RecomputeProgressWary ==
    ASSUME WInv, UNCHANGED jobOf, NEW s \in Session, RecomputeProgress(s)
    PROVE  Wary(s)'
<1>1. /\ tx[s].kind \notin Settlement /\ tx[s].step = "count" /\ NoTicketLocked
  BY DEF RecomputeProgress, Settlement
<1>2. \E st \in {"count", "commit"}, J \in SUBSET tx[s].jobs :
        /\ tx'[s].kind = tx[s].kind /\ tx'[s].step = st /\ tx'[s].jobs = J
        /\ UNCHANGED <<job, ticket>>
  <2>1. TypeOK /\ tx[s] \in Transaction
    BY WaryFacts
  <2>2. CASE Continue(s, [tx[s] EXCEPT !.step = "commit"])
    BY <2>1, <2>2, Continued
  <2>3. ASSUME NEW j \in tx[s].jobs, Continue(s, [tx[s] EXCEPT !.jobs = @ \ {j}])
        PROVE  /\ tx'[s].kind = tx[s].kind /\ tx'[s].step = "count"
               /\ tx'[s].jobs \in SUBSET tx[s].jobs /\ UNCHANGED <<job, ticket>>
    <3>1. tx'[s] = [tx[s] EXCEPT !.jobs = @ \ {j}] /\ UNCHANGED <<job, ticket>>
      BY <2>1, <2>3, ContinueFacts
    <3> QED
      BY <1>1, <2>1, <3>1 DEF Transaction
  <2> QED
    BY <2>2, <2>3 DEF RecomputeProgress
<1>3. \A j \in Job : /\ jobLock[j] = s => jobLock'[j] = s
                     /\ jobLock'[j] = s => newJob'[j].cancel = JobSeen(s, j).cancel
  <2>1. CASE NoJobLocked
    BY <2>1 DEF NoJobLocked, JobSeen
  <2>2. ASSUME NEW j \in tx[s].jobs,
               LockJobs(s, [i \in {j} |-> WithProgress(JobSeen(s, i), Counted(s, i))])
        PROVE  \A i \in Job : /\ jobLock[i] = s => jobLock'[i] = s
                              /\ jobLock'[i] = s => newJob'[i].cancel = JobSeen(s, i).cancel
    <3>1. j \in Job
      BY WaryFacts
    <3>2. /\ newJob'[j] = WithProgress(JobSeen(s, j), Counted(s, j)) /\ jobLock'[j] = s
          /\ \A i \in Job \ {j} : jobLock'[i] = jobLock[i] /\ newJob'[i] = newJob[i]
      BY <2>2, <3>1 DEF LockJobs
    <3>3. newJob'[j].cancel = JobSeen(s, j).cancel
      BY <3>1, <3>2, WaryFacts, SeenTypes DEF WithProgress, JobRow
    <3> QED
      BY <3>2, <3>3 DEF JobSeen
  <2> QED
    BY <2>1, <2>2 DEF RecomputeProgress
<1>4. UNCHANGED <<ticketLock, newTicket, job, ticket>>
  BY <1>1, <1>2 DEF NoTicketLocked
<1>5. Orderly(s)'
  <2>1. Held(s) => Held(s)'
    BY <1>2, <1>3, WaryFacts DEF Held
  <2>2. NoTickets(s) => NoTickets(s)'
    BY <1>4 DEF NoTickets
  <2> QED
    BY <1>1, <1>2, <2>1, <2>2, WaryFacts DEF Orderly, Settlement, Bulk
<1>6. Returned(s)'
  BY <1>3, <1>4, ReturnedKept
<1>7. Cancelling(s)'
  <2>1. CASE tx[s].kind # "cancel"
    <3>1. \A j \in Job : jobLock'[j] = s /\ newJob'[j].cancel =>
                           job[j].cancel \/ (jobLock[j] = s /\ newJob[j].cancel)
      BY <1>3 DEF JobSeen
    <3> QED
      BY <1>2, <1>4, <2>1, <3>1, CancellingKept
  <2>2. CASE tx[s].kind = "cancel"
    <3>1. \A j \in Job : Marked(s, j)' => Marked(s, j)
      BY <1>3, <1>4 DEF Marked, JobSeen
    <3>2. View(s)' = View(s) /\ \A j : TicketsOf(j)' = TicketsOf(j)
      BY <1>4 DEF View, TicketSeen, TicketsOf
    <3>3. \A t : ~Ahead(s, t)
      BY <1>1 DEF Ahead
    <3> QED
      BY <1>2, <1>4, <2>2, <3>1, <3>2, <3>3, WaryFacts DEF Cancelling
  <2> QED
    BY <2>1, <2>2
<1> QED
  BY <1>5, <1>6, <1>7 DEF Wary

LEMMA StatementWary ==
    ASSUME WInv, UNCHANGED jobOf, NEW s \in Session, Statement(s), ~Rollback(s), ~Commit(s)
    PROVE  Wary(s)'
BY LockJobWary, SettleRowWary, HeartbeatRowWary, ScansWary, ScanJobRowsWary, UpdateJobRowWary,
   ClaimRowsWary, MarkRunningWary, SweepRowsWary, SweepCancelledWary,
   CountProgressWary, WriteProgressWary, RecomputeProgressWary DEF Statement

LEMMA WInvInit == Init => WInv
<1> SUFFICES ASSUME Init PROVE WInv
  OBVIOUS
<1>1. ASSUME NEW s \in Session
      PROVE  Wary(s)
  <2>1. NoTickets(s) /\ NoJobs(s) /\ tx[s] = NoTransaction
    BY TransactionsAssumption DEF Init, NoTickets, NoJobs
  <2> QED
    BY <2>1 DEF Wary, Orderly, Returned, Cancelling, Marked, NoTickets, NoJobs, NoTransaction,
       Settlement, Bulk
<1> QED
  BY <1>1, PInvInit DEF WInv

LEMMA WInvStep == WInv /\ [Next]_vars => WInv'
<1> SUFFICES ASSUME WInv, [Next]_vars PROVE WInv'
  OBVIOUS
<1>1. PInv /\ LInv /\ PInv'
  BY PInvStep DEF WInv, PInv
<1>2. CASE Next
  <2>1. UNCHANGED jobOf
    BY <1>2 DEF Next
  <2>2. ASSUME NEW s \in Session,
               \/ \E t \in Ticket, w \in Worker, target \in SettleTarget :
                     BeginSettlement(s, t, w, target)
               \/ BeginOther(s)
        PROVE  WInv'
    <3>1. Wary(s)'
      BY <2>1, <2>2, WaryBegin
    <3>2. \E next : Local(s, next)
      BY <1>1, <2>1, <2>2, BeginningsLocal
    <3> QED
      BY <1>1, <3>1, <3>2, WInvLocal
  <2>3. ASSUME NEW s \in Session, Statement(s)
        PROVE  WInv'
    <3>1. CASE Rollback(s) \/ Commit(s)
      BY <1>1, <2>1, <3>1, WInvEnd
    <3>2. CASE ~Rollback(s) /\ ~Commit(s)
      <4>1. Wary(s)'
        BY <2>1, <2>3, <3>2, StatementWary
      <4>2. \E next : Local(s, next)
        BY <1>1, <2>1, <2>3, <3>2, StatementLocal
      <4> QED
        BY <1>1, <4>1, <4>2, WInvLocal
    <3> QED
      BY <3>1, <3>2
  <2>4. ASSUME NEW s \in Session, Abort(s)
        PROVE  WInv'
    BY <1>1, <2>1, <2>4, WInvEnd DEF Abort
  <2>5. ASSUME NEW t \in Ticket, LeaseExpires(t)
        PROVE  WInv'
    BY <1>1, <2>1, <2>5, WInvExpiry
  <2> QED
    BY <1>2, <2>2, <2>3, <2>4, <2>5 DEF Next, SettleTarget
<1>3. CASE UNCHANGED vars
  <2>1. /\ UNCHANGED <<jobOf, job, ticket, newJob, newTicket, jobLock, ticketLock, tx>>
        /\ \A j : TicketsOf(j)' = TicketsOf(j)
    BY <1>3 DEF vars, TicketsOf
  <2>2. ASSUME NEW s \in Session
        PROVE  Wary(s)'
    <3>1. View(s)' = View(s)
      BY <2>1 DEF View, TicketSeen
    <3> QED
      BY <2>1, <3>1 DEF WInv, Wary, Orderly, Returned, Cancelling, Marked, Ahead,
         NoTickets, NoJobs, Held
  <2> QED
    BY <1>1, <2>2 DEF WInv
<1> QED
  BY <1>2, <1>3

-----------------------------------------------------------------------------
(* Who waits, and for what.  The wait for a job is the first thing a        *)
(* settlement or a bulk update does, and the reconciliation's only one;     *)
(* the wait for a ticket comes under the lock of its job, or is that of a   *)
(* heartbeat, which holds nothing.                                          *)
EmptyHanded(s) == NoTickets(s) /\ NoJobs(s)

AtRows(s) == tx[s].kind \in Settlement \cup Bulk /\ tx[s].step = "rows"

LEMMA Waits ==
    ASSUME WInv, NEW s \in Session, NEW r \in WaitsFor(s)
    PROVE  /\ r # s
           /\ \/ EmptyHanded(s) /\ ((\E j \in Job : jobLock[j] = r) \/ (\E t \in Ticket : ticketLock[t] = r))
              \/ /\ tx[s].kind = "reconcile" /\ NoTickets(s)
                 /\ \E j \in Job : jobLock[j] = r
              \/ /\ AtRows(s)
                 /\ \E t \in Ticket : ticketLock[t] = r /\ jobLock[jobOf[t]] = s
<1>1. /\ Places(s) /\ Orderly(s) /\ Asked(tx[s]) /\ Found(tx[s])
      /\ tx[s].jobs \subseteq Job /\ tx[s].rows \subseteq Ticket /\ r # s
      /\ tx[s].kind \in {"none", "persist", "settle", "claim", "heartbeat", "cancel", "reset",
                         "sweep", "reconcile"}
  <2>1. r # s
    BY DEF WaitsFor
  <2>2. tx[s] \in Transaction
    BY WaryFacts
  <2> QED
    BY <2>1, <2>2, WaryFacts, TransactionsAssumption DEF Transaction
<1>2. CASE tx[s].step = "job"
  <2>1. EmptyHanded(s)
    BY <1>1, <1>2 DEF Places, Orderly, EmptyHanded
  <2>2. \E j \in tx[s].jobs : jobLock[j] = r
    BY <1>2 DEF WaitsFor
  <2> QED
    BY <1>1, <2>1, <2>2
<1>3. CASE tx[s].step = "write"
  <2>1. \E j \in tx[s].jobs : jobLock[j] = r
    BY <1>3 DEF WaitsFor
  <2> QED
    BY <1>1, <1>3, <2>1 DEF Places, Held
<1>4. CASE tx[s].step = "count"
  <2>1. tx[s].kind \notin Settlement /\ \E j \in tx[s].jobs : jobLock[j] = r
    BY <1>4 DEF WaitsFor, Settlement
  <2>2. ~Held(s)
    BY <1>1, <2>1 DEF Held
  <2>3. tx[s].kind = "reconcile" /\ NoTickets(s)
    BY <1>1, <1>4, <2>1, <2>2 DEF Places, Orderly, Settlement, Bulk
  <2> QED
    BY <1>1, <2>1, <2>3
<1>5. CASE tx[s].step = "rows"
  <2>1. tx[s].kind \notin {"claim", "sweep"} /\ \E t \in tx[s].rows : ticketLock[t] = r
    BY <1>5 DEF WaitsFor
  <2>2. CASE tx[s].kind = "heartbeat"
    <3>1. EmptyHanded(s)
      BY <1>1, <1>5, <2>2 DEF Places, Orderly, Bulk, EmptyHanded
    <3> QED
      BY <1>1, <2>1, <3>1
  <2>3. CASE tx[s].kind \in Settlement \cup Bulk
    <3>1. PICK t \in tx[s].rows : ticketLock[t] = r
      BY <2>1
    <3>2. jobOf[t] \in tx[s].jobs /\ Held(s)
      BY <1>1, <1>5, <2>3 DEF Asked, Found, Places
    <3> QED
      BY <1>1, <1>5, <2>3, <3>1, <3>2 DEF AtRows, Held
  <2>4. tx[s].kind \notin {"none", "reconcile"}
    BY <1>1, <1>5 DEF Places, Orderly
  <2> QED
    BY <1>1, <2>1, <2>2, <2>3, <2>4 DEF Settlement, Bulk
<1> QED
  BY <1>2, <1>3, <1>4, <1>5 DEF WaitsFor

(* Who holds a ticket that another session waits for under the job's lock   *)
(* waits for nobody.                                                        *)
LEMMA RowHoldersRun ==
    ASSUME WInv, NEW s \in Session, NEW r \in Session, r # s,
           NEW t \in Ticket, ticketLock[t] = r, jobLock[jobOf[t]] = s
    PROVE  WaitsFor(r) = {}
<1> SUFFICES ASSUME NEW q \in WaitsFor(r) PROVE FALSE
  OBVIOUS
<1>1. ~NoTickets(r)
  BY DEF NoTickets
<1>2. AtRows(r)
  BY <1>1, Waits DEF EmptyHanded
<1>3. tx[r].kind \in Bulk
  BY <1>1, <1>2, WaryFacts DEF AtRows, Places
<1>4. jobOf[t] \in tx[r].jobs /\ Held(r)
  BY <1>2, <1>3, WaryFacts DEF AtRows, Orderly, Places
<1> QED
  BY <1>4 DEF Held

(* No set of sessions waits in itself, whatever its size: a wait leads in   *)
(* at most three more to a session that runs.  The job row is taken before  *)
(* its tickets by all that wait for rows (ticket_repository.py:174, :313,   *)
(* :330, :404), and the claim, the sweep and mark_running_if_pending skip   *)
(* what is locked (ticket_repository.py:121, job_repository.py:137).        *)
THEOREM NoWaitCycleHolds == Spec => []NoWaitCycle
<1>1. WInv => NoWaitCycle
  <2> SUFFICES ASSUME WInv,
                      \A r, s \in Session :
                         tx[r].kind = "reconcile" /\ tx[s].kind = "reconcile" => r = s,
                      NEW S \in (SUBSET Session) \ {{}},
                      \A s \in S : WaitsFor(s) \cap S # {}
               PROVE  FALSE
    BY DEF NoWaitCycle
  <2>1. ASSUME NEW s \in S
        PROVE  ~AtRows(s) \/ EmptyHanded(s) \/ tx[s].kind = "reconcile"
    <3> SUFFICES ASSUME AtRows(s), ~EmptyHanded(s), tx[s].kind # "reconcile"
                 PROVE  FALSE
      OBVIOUS
    <3>1. PICK r \in WaitsFor(s) \cap S : TRUE
      OBVIOUS
    <3>2. r # s /\ \E t \in Ticket : ticketLock[t] = r /\ jobLock[jobOf[t]] = s
      BY <3>1, Waits
    <3>3. WaitsFor(r) = {}
      BY <3>2, RowHoldersRun
    <3> QED
      BY <3>3
  <2>2. ASSUME NEW s \in S
        PROVE  EmptyHanded(s) \/ tx[s].kind = "reconcile"
    <3>1. PICK r \in WaitsFor(s) \cap S : TRUE
      OBVIOUS
    <3> QED
      BY <2>1, <3>1, Waits
  <2>3. PICK s \in S : TRUE
    OBVIOUS
  <2>4. PICK r \in WaitsFor(s) \cap S : TRUE
    OBVIOUS
  <2>5. PICK q \in WaitsFor(r) \cap S : TRUE
    OBVIOUS
  <2>6. ~EmptyHanded(r) /\ ~EmptyHanded(q) /\ q # r
    BY <2>4, <2>5, Waits DEF EmptyHanded, NoTickets, NoJobs
  <2>7. tx[r].kind = "reconcile" /\ tx[q].kind = "reconcile"
    BY <2>2, <2>6
  <2> QED
    BY <2>6, <2>7
<1> QED
  BY <1>1, WInvInit, WInvStep, PTL DEF Spec

(* When a cancellation commits, no ticket of its job is left pending:       *)
(* cancel_unclaimed runs under the job's lock, waits for the claims it      *)
(* meets, and no settlement, retry or sweep of the job can give a ticket    *)
(* back before the commit (ticket_repository.py:313, job_service.py:305).   *)
THEOREM CancelLeavesNonePendingHolds == Spec => CancelLeavesNonePending
<1> DEFINE Cancelled ==
        \A j \in Job :
           ~job[j].cancel /\ job'[j].cancel =>
             \A t \in TicketsOf(j) : ticket'[t].status \notin Pending
<1>1. ASSUME WInv, Next
      PROVE  Cancelled
  <2> SUFFICES ASSUME NEW j \in Job, ~job[j].cancel, job'[j].cancel, NEW t \in TicketsOf(j)
               PROVE  ticket'[t].status \notin Pending
    OBVIOUS
  <2>1. PICK s \in Session : Commit(s)
    <3>1. \/ \E s \in Session : Rollback(s) \/ Commit(s) \/ \E next : Local(s, next)
          \/ \E u \in Ticket : LeaseExpires(u)
      BY <1>1, NextCases DEF WInv, PInv
    <3> QED
      BY <3>1 DEF Rollback, committed, Local, LeaseExpires
  <2>2. Marked(s, j) /\ tx[s].step = "commit"
    BY <2>1 DEF Commit, Marked
  <2>3. View(s)[t].status \notin Pending
    BY <1>1, <2>2, WaryFacts DEF Cancelling, Ahead
  <2>4. t \in Ticket /\ ticket'[t] = View(s)[t]
    BY <2>1, Views DEF Commit
  <2> QED
    BY <2>3, <2>4
<1>2. WInv /\ [Next]_vars => [Cancelled]_vars
  BY <1>1
<1> HIDE DEF Cancelled
<1>3. Spec => [][Cancelled]_vars
  BY <1>2, WInvInit, WInvStep, PTL DEF Spec
<1> QED
  BY <1>3 DEF CancelLeavesNonePending, Cancelled
=============================================================================
