--------------------------- MODULE RunnerLoopProofs ---------------------------
(* Proofs about RunnerLoop, for any number of tickets, threads and failing  *)
(* claims, in both modes.                                                   *)
EXTENDS RunnerLoop, FiniteSetTheorems, TLAPS

(* What the pool still has to run, and what it has run. *)
Active == {t \in Ticket : thread[t] \in {"queued", "running"}}
Ended == {t \in Ticket : thread[t] \in {"resolved", "done"}}

(* TypeOK without the bound of the counter, which is that of Ended. *)
Types ==
    /\ drain \in Modes
    /\ coming \subseteq Later /\ runnable \subseteq Ticket
    /\ pc \in MainState
    /\ limit \in 0 .. MaxConcurrency
    /\ claimed \in {"busy", "none", "some"}
    /\ batch \subseteq Ticket /\ current \in Ticket \cup {NoTicket}
    /\ thread \in [Ticket -> ThreadState]
    /\ inflight \subseteq Ticket /\ watched \subseteq Ticket
    /\ lease \in [Ticket -> {"none", "live", "expired"}]
    /\ failures \in 0 .. MaxFailures
    /\ stop \in BOOLEAN /\ graceOver \in BOOLEAN
    /\ pc \in {"register", "callback"} => current \in Ticket

Counted == processed = Cardinality(Ended)

(* A ticket is to come, runnable, to be submitted, or has a thread. *)
Places ==
    /\ runnable \cap coming = {}
    /\ \A t \in Ticket :
          /\ t \in batch \/ thread[t] # "none" => t \notin runnable \cup coming
          /\ t \in batch => thread[t] = "none"
    /\ batch # {} => pc \in {"submit", "register", "callback"}

(* What the pool has to run is in flight, but for the ticket whose future  *)
(* _submit has just got.                                                   *)
Tracked == \A t \in Active : t \in inflight \/ (pc = "register" /\ t = current)

(* The capacity that was read is still there at the claim. *)
Slots ==
    /\ EveryClaimHasAThread
    /\ pc = "claim" => limit >= 1 /\ limit + Cardinality(Active) <= MaxConcurrency

(* "none" means that the queue was empty, or that the claim failed. *)
Emptied ==
    /\ pc \in {"submit", "register", "callback"} => claimed = "some"
    /\ failures = 0 /\ pc = "check" /\ claimed = "none" => runnable \subseteq Later
    /\ failures = 0 /\ ~stop /\ pc \in {"await", "join", "stopped"} => runnable \subseteq Later

IInv == Types /\ Counted /\ Places /\ Tracked /\ Slots /\ Emptied

-----------------------------------------------------------------------------
(* Finite sets of tickets. *)

LEMMA FiniteParts ==
    ASSUME NEW S, S \subseteq Ticket
    PROVE  /\ IsFiniteSet(S) /\ Cardinality(S) \in Nat
           /\ \A T \in SUBSET S : Cardinality(T) \in Nat /\ Cardinality(T) <= Cardinality(S)
<1>1. IsFiniteSet(S)
  BY RunnerAssumption, FS_Subset
<1> QED
  BY <1>1, FS_Subset, FS_CardinalityType

LEMMA AddOne ==
    ASSUME NEW S, S \subseteq Ticket, NEW t \in Ticket, t \notin S
    PROVE  Cardinality(S \cup {t}) = Cardinality(S) + 1
  BY FiniteParts, FS_AddElement

LEMMA TakeOne ==
    ASSUME NEW S, S \subseteq Ticket, NEW t \in S
    PROVE  Cardinality(S \ {t}) = Cardinality(S) - 1
  BY FiniteParts, FS_RemoveElement

(* What a claim takes keeps to its limit. *)
LEMMA BatchesKeepLimit ==
    ASSUME Types, NEW S \in Batches
    PROVE  /\ S \subseteq runnable
           /\ Cardinality(S) \in Nat /\ Cardinality(S) <= limit
           /\ limit >= 1 /\ S = {} => runnable = {}
<1>1. /\ S \subseteq runnable /\ S \subseteq Ticket /\ runnable \subseteq Ticket
      /\ Cardinality(S) = Smaller(limit, Cardinality(runnable))
  BY DEF Batches, Types
<1>2. /\ Cardinality(S) \in Nat /\ Cardinality(runnable) \in Nat /\ limit \in Nat
      /\ IsFiniteSet(runnable)
  BY <1>1, FiniteParts, RunnerAssumption DEF Types
<1>3. S = {} => Cardinality(S) = 0
  BY FS_EmptySet
<1>4. Cardinality(runnable) = 0 => runnable = {}
  BY <1>2, FS_EmptySet
<1> QED
  BY <1>1, <1>2, <1>3, <1>4 DEF Smaller

-----------------------------------------------------------------------------
(* Types *)

LEMMA TypesStep ==
    ASSUME Types, Next
    PROVE  Types'
<1> USE RunnerAssumption DEF Types, MainState, ThreadState, Go, queue, pool, main
<1>1. CASE Head \/ Check \/ Wait \/ AwaitInflight \/ JoinPool \/ Stop
  BY <1>1 DEF Head, Check, Wait, AwaitInflight, JoinPool, Stop
<1>2. CASE Capacity
  <2> DEFINE free == MaxConcurrency - Cardinality(inflight)
  <2>1. Cardinality(inflight) \in Nat
    BY FiniteParts
  <2>2. free > 0 => ClaimLimit(free) \in 0 .. MaxConcurrency
    BY <2>1 DEF ClaimLimit, Smaller
  <2> QED
    BY <1>2, <2>1, <2>2 DEF Capacity
<1>3. CASE ClaimOnce
  <2>1. PICK S \in Batches :
            /\ runnable' = runnable \ S
            /\ batch' = S
            /\ lease' = [t \in Ticket |-> IF t \in S THEN "live" ELSE lease[t]]
            /\ claimed' = IF S = {} THEN "none" ELSE "some"
            /\ pc' = IF S = {} THEN "check" ELSE "submit"
    BY <1>3 DEF ClaimOnce
  <2>2. batch' \subseteq Ticket
    BY <2>1 DEF Batches
  <2> QED
    BY <1>3, <2>1, <2>2 DEF ClaimOnce
<1>4. CASE ClaimFails
  BY <1>4 DEF ClaimFails
<1>5. CASE Submit
  BY <1>5 DEF Submit
<1>6. CASE TrackFuture
  BY <1>6 DEF TrackFuture, Submitted
<1>7. ASSUME NEW t \in Ticket, Thread(t)
      PROVE  Types'
  BY <1>7 DEF Thread, Start, Finish, DoneCallback
<1>8. ASSUME NEW t \in Ticket, Heartbeat(t) \/ LeaseExpires(t)
      PROVE  Types'
  BY <1>8 DEF Heartbeat, LeaseExpires
<1>9. ASSUME NEW t \in Ticket, BecomesRunnable(t) \/ TakenByOther(t)
      PROVE  Types'
  BY <1>9 DEF BecomesRunnable, TakenByOther
<1> QED
  BY <1>1, <1>2, <1>3, <1>4, <1>5, <1>6, <1>7, <1>8, <1>9 DEF Next, Main

-----------------------------------------------------------------------------
(* The steps that leave the threads alone. *)

Quiet ==
    \/ Head \/ Capacity \/ ClaimOnce \/ TrackFuture \/ Check \/ Wait \/ AwaitInflight
    \/ JoinPool \/ ClaimFails \/ Stop
    \/ \E t \in Ticket : Heartbeat(t) \/ LeaseExpires(t) \/ BecomesRunnable(t) \/ TakenByOther(t)

LEMMA NextSplit ==
    ASSUME Next
    PROVE  Quiet \/ Submit \/ \E t \in Ticket : Start(t) \/ Finish(t) \/ DoneCallback(t)
  BY DEF Next, Main, Quiet, Thread

LEMMA QuietStep ==
    ASSUME Quiet
    PROVE  UNCHANGED <<thread, processed>>
  BY DEF Quiet, Head, Capacity, ClaimOnce, TrackFuture, Check, Wait, AwaitInflight, JoinPool,
         ClaimFails, Stop, Heartbeat, LeaseExpires, BecomesRunnable, TakenByOther, queue, main, pool

(* The counter follows the threads. *)
LEMMA CountedStep ==
    ASSUME Types, Places, Counted, Next
    PROVE  Counted'
<1>1. CASE Quiet
  BY <1>1, QuietStep DEF Counted, Ended
<1>2. CASE Submit
  <2>1. PICK t \in batch : thread' = [thread EXCEPT ![t] = "queued"]
    BY <1>2 DEF Submit
  <2>2. t \in Ticket /\ thread[t] = "none"
    BY DEF Types, Places
  <2>3. Ended' = Ended
    BY <2>1, <2>2 DEF Ended, Types
  <2> QED
    BY <1>2, <2>3 DEF Submit, Counted
<1>3. ASSUME NEW t \in Ticket, Start(t) \/ DoneCallback(t)
      PROVE  Counted'
  <2>1. Ended' = Ended /\ processed' = processed
    BY <1>3 DEF Start, DoneCallback, Ended, Types
  <2> QED
    BY <2>1 DEF Counted
<1>4. ASSUME NEW t \in Ticket, Finish(t)
      PROVE  Counted'
  <2>1. Ended' = Ended \cup {t} /\ t \notin Ended /\ processed' = processed + 1
    BY <1>4 DEF Finish, Ended, Types
  <2>2. Cardinality(Ended') = Cardinality(Ended) + 1
    BY <2>1, AddOne DEF Ended
  <2> QED
    BY <2>1, <2>2 DEF Counted
<1> QED
  BY <1>1, <1>2, <1>3, <1>4, NextSplit

(* No ticket is in two places. *)
LEMMA PlacesStep ==
    ASSUME Types, Places, Next
    PROVE  Places'
<1> USE DEF Types, Places, Go, queue, main, pool
<1>1. CASE Head \/ Check \/ Wait \/ AwaitInflight \/ JoinPool \/ Stop \/ Capacity
  BY <1>1 DEF Head, Check, Wait, AwaitInflight, JoinPool, Stop, Capacity
<1>2. CASE ClaimOnce
  <2>1. PICK S \in Batches :
            /\ runnable' = runnable \ S
            /\ batch' = S
            /\ pc' = IF S = {} THEN "check" ELSE "submit"
    BY <1>2 DEF ClaimOnce
  <2>2. S \subseteq runnable /\ UNCHANGED <<coming, thread>>
    BY <1>2 DEF ClaimOnce, Batches
  <2> QED
    BY <2>1, <2>2
<1>3. CASE ClaimFails
  BY <1>3 DEF ClaimFails
<1>4. CASE Submit
  BY <1>4 DEF Submit
<1>5. CASE TrackFuture
  BY <1>5 DEF TrackFuture, Submitted
<1>6. ASSUME NEW t \in Ticket, Thread(t)
      PROVE  Places'
  BY <1>6 DEF Thread, Start, Finish, DoneCallback
<1>7. ASSUME NEW t \in Ticket, Heartbeat(t) \/ LeaseExpires(t)
      PROVE  Places'
  BY <1>7 DEF Heartbeat, LeaseExpires
<1>8. ASSUME NEW t \in Ticket, BecomesRunnable(t) \/ TakenByOther(t)
      PROVE  Places'
  BY <1>8 DEF BecomesRunnable, TakenByOther
<1> QED
  BY <1>1, <1>2, <1>3, <1>4, <1>5, <1>6, <1>7, <1>8 DEF Next, Main

(* A future leaves _inflight only when its thread is through. *)
LEMMA TrackedStep ==
    ASSUME Types, Tracked, Next
    PROVE  Tracked'
<1> USE DEF Types, Tracked, Active, Go, queue, main, pool
<1>1. CASE Head \/ Check \/ Wait \/ AwaitInflight \/ JoinPool \/ Stop \/ Capacity \/ ClaimFails
  BY <1>1 DEF Head, Check, Wait, AwaitInflight, JoinPool, Stop, Capacity, ClaimFails
<1>2. CASE ClaimOnce
  BY <1>2 DEF ClaimOnce
<1>3. CASE Submit
  BY <1>3 DEF Submit
<1>4. CASE TrackFuture
  BY <1>4 DEF TrackFuture, Submitted, Resolved
<1>5. ASSUME NEW t \in Ticket, Thread(t)
      PROVE  Tracked'
  BY <1>5 DEF Thread, Start, Finish, DoneCallback
<1>6. ASSUME NEW t \in Ticket,
             Heartbeat(t) \/ LeaseExpires(t) \/ BecomesRunnable(t) \/ TakenByOther(t)
      PROVE  Tracked'
  BY <1>6 DEF Heartbeat, LeaseExpires, BecomesRunnable, TakenByOther
<1> QED
  BY <1>1, <1>2, <1>3, <1>4, <1>5, <1>6 DEF Next, Main

-----------------------------------------------------------------------------
(* Slots of the pool. *)

LEMMA SlotsStep ==
    ASSUME Types, Places, Tracked, Slots, Next
    PROVE  Slots'
<1> DEFINE sum == Cardinality(batch) + Cardinality(Active)
<1>1. /\ Active \subseteq Ticket /\ batch \subseteq Ticket /\ inflight \subseteq Ticket
      /\ Cardinality(Active) \in Nat /\ Cardinality(batch) \in Nat
      /\ Cardinality(inflight) \in Nat
      /\ MaxConcurrency \in Nat \ {0} /\ ClaimBatch \in Nat \ {0} /\ limit \in Nat
  BY FiniteParts, RunnerAssumption DEF Active, Types
<1>2. /\ EveryClaimHasAThread <=> sum <= MaxConcurrency
      /\ EveryClaimHasAThread' <=> sum' <= MaxConcurrency
  BY DEF EveryClaimHasAThread, Active
<1>3. ASSUME UNCHANGED <<thread, batch>>, pc' # "claim" \/ UNCHANGED <<pc, limit>>
      PROVE  Slots'
  BY <1>2, <1>3 DEF Slots, Active
<1>4. CASE Capacity
  <2> DEFINE free == MaxConcurrency - Cardinality(inflight)
  <2>1. batch = {} /\ pc = "capacity" /\ UNCHANGED <<thread, batch>>
    BY <1>4 DEF Capacity, Places, pool
  <2>2. Active \subseteq inflight
    BY <2>1 DEF Tracked
  <2>3. Cardinality(Active) <= Cardinality(inflight)
    BY <1>1, <2>2, FiniteParts
  <2>4. pc' = "claim" => free > 0 /\ limit' = ClaimLimit(free)
    BY <1>1, <1>4 DEF Capacity, Go
  <2>5. pc' = "claim" => limit' >= 1 /\ limit' + Cardinality(Active) <= MaxConcurrency
    BY <1>1, <2>3, <2>4 DEF ClaimLimit, Smaller
  <2> QED
    BY <1>2, <2>1, <2>5 DEF Slots, Active
<1>5. CASE ClaimOnce
  <2>1. PICK S \in Batches : batch' = S
    BY <1>5 DEF ClaimOnce
  <2>2. Cardinality(S) \in Nat /\ Cardinality(S) <= limit
    BY <1>5, BatchesKeepLimit DEF Slots, ClaimOnce
  <2>3. pc = "claim" /\ pc' # "claim" /\ Active' = Active
    BY <1>5 DEF ClaimOnce, Go, Active
  <2>4. sum' <= MaxConcurrency
    BY <1>1, <2>1, <2>2, <2>3 DEF Slots
  <2> QED
    BY <1>2, <2>3, <2>4 DEF Slots
<1>6. CASE Submit
  <2>1. PICK t \in batch : batch' = batch \ {t} /\ thread' = [thread EXCEPT ![t] = "queued"]
    BY <1>6 DEF Submit
  <2>2. t \in Ticket /\ t \notin Active /\ Active' = Active \cup {t}
    BY <2>1 DEF Types, Places, Active
  <2>3. Cardinality(batch') = Cardinality(batch) - 1 /\ Cardinality(Active') = Cardinality(Active) + 1
    BY <1>1, <2>1, <2>2, AddOne, TakeOne
  <2>4. pc' # "claim"
    BY <1>6 DEF Submit, Go
  <2> QED
    BY <1>1, <1>2, <2>3, <2>4 DEF Slots
<1>7. ASSUME NEW t \in Ticket, Start(t) \/ Finish(t) \/ DoneCallback(t)
      PROVE  Slots'
  <2>1. Active' \subseteq Active /\ UNCHANGED <<batch, pc, limit>>
    BY <1>7 DEF Start, Finish, DoneCallback, Active, Types, main
  <2>2. Cardinality(Active') \in Nat /\ Cardinality(Active') <= Cardinality(Active)
    BY <1>1, <2>1, FiniteParts
  <2> QED
    BY <1>1, <1>2, <2>1, <2>2 DEF Slots
<1>8. CASE Head \/ Check \/ Wait \/ AwaitInflight \/ JoinPool \/ ClaimFails \/ TrackFuture
  BY <1>3, <1>8 DEF Head, Check, Wait, AwaitInflight, JoinPool, ClaimFails, TrackFuture,
                    Submitted, Go, pool
<1>9. CASE Stop \/ \E t \in Ticket : \/ Heartbeat(t) \/ LeaseExpires(t)
                                     \/ BecomesRunnable(t) \/ TakenByOther(t)
  BY <1>3, <1>9 DEF Stop, Heartbeat, LeaseExpires, BecomesRunnable, TakenByOther, main, pool
<1> QED
  BY <1>4, <1>5, <1>6, <1>7, <1>8, <1>9, NextSplit DEF Quiet

-----------------------------------------------------------------------------
(* The end of drain mode. *)

LEMMA EmptiedStep ==
    ASSUME Types, Slots, Emptied, Next
    PROVE  Emptied'
<1> USE DEF Types, Emptied, Go, queue, main, pool
<1>1. CASE Head \/ Check \/ Wait \/ AwaitInflight \/ JoinPool \/ Stop \/ Capacity
  BY <1>1 DEF Head, Check, Wait, AwaitInflight, JoinPool, Stop, Capacity, Drained
<1>2. CASE ClaimOnce
  <2>1. PICK S \in Batches :
            /\ runnable' = runnable \ S
            /\ claimed' = IF S = {} THEN "none" ELSE "some"
            /\ pc' = IF S = {} THEN "check" ELSE "submit"
    BY <1>2 DEF ClaimOnce
  <2>2. limit >= 1
    BY <1>2 DEF ClaimOnce, Slots
  <2>3. S = {} => runnable' = {}
    BY <2>1, <2>2, BatchesKeepLimit
  <2> QED
    BY <2>1, <2>3
<1>3. CASE ClaimFails
  BY <1>3 DEF ClaimFails
<1>4. CASE Submit
  BY <1>4 DEF Submit
<1>5. CASE TrackFuture
  BY <1>5 DEF TrackFuture, Submitted
<1>6. ASSUME NEW t \in Ticket, Thread(t) \/ Heartbeat(t) \/ LeaseExpires(t)
      PROVE  Emptied'
  BY <1>6 DEF Thread, Start, Finish, DoneCallback, Heartbeat, LeaseExpires
<1>7. ASSUME NEW t \in Ticket, BecomesRunnable(t) \/ TakenByOther(t)
      PROVE  Emptied'
  BY <1>7 DEF BecomesRunnable, TakenByOther
<1> QED
  BY <1>1, <1>2, <1>3, <1>4, <1>5, <1>6, <1>7 DEF Next, Main

-----------------------------------------------------------------------------
(* The theorems. *)

LEMMA IInvInit ==
    ASSUME Init
    PROVE  IInv
<1>1. Active = {} /\ Ended = {} /\ batch = {}
  BY DEF Init, Active, Ended
<1>2. Cardinality({}) = 0
  BY FS_EmptySet
<1>3. Types
  <2>1. thread \in [Ticket -> ThreadState] /\ lease \in [Ticket -> {"none", "live", "expired"}]
    BY DEF Init, ThreadState
  <2>2. limit \in 0 .. MaxConcurrency /\ failures \in 0 .. MaxFailures
    BY RunnerAssumption DEF Init
  <2>3. coming \subseteq Later /\ runnable \subseteq Ticket
    BY DEF Init
  <2> QED
    BY <2>1, <2>2, <2>3 DEF Init, Types, MainState
<1>4. Places /\ Tracked /\ Emptied
  BY <1>1 DEF Init, Places, Tracked, Emptied
<1>5. Counted
  BY <1>1, <1>2 DEF Init, Counted
<1>6. Slots
  BY <1>1, <1>2, RunnerAssumption DEF Init, Slots, EveryClaimHasAThread, Active
<1> QED
  BY <1>3, <1>4, <1>5, <1>6 DEF IInv

LEMMA IInvStep ==
    ASSUME IInv, [Next]_vars
    PROVE  IInv'
<1>1. CASE Next
  BY <1>1, TypesStep, CountedStep, PlacesStep, TrackedStep, SlotsStep, EmptiedStep DEF IInv
<1>2. CASE UNCHANGED vars
  BY <1>2 DEF vars, IInv, Types, Counted, Ended, Places, Tracked, Active, Slots,
              EveryClaimHasAThread, Emptied
<1> QED
  BY <1>1, <1>2

THEOREM IInvHolds == Spec => []IInv
  BY IInvInit, IInvStep, PTL DEF Spec

(* Every variable keeps its type: the counter of runner.py:150 counts no   *)
(* ticket twice.                                                           *)
THEOREM TypeCorrect == Spec => []TypeOK
<1>1. IInv => TypeOK
  <2> SUFFICES ASSUME IInv PROVE TypeOK
    OBVIOUS
  <2>1. Cardinality(Ended) \in Nat /\ Cardinality(Ended) <= Cardinality(Ticket)
        /\ Cardinality(Ticket) \in Nat
    BY FiniteParts DEF Ended
  <2>2. processed \in 0 .. Cardinality(Ticket)
    BY <2>1 DEF IInv, Counted
  <2> QED
    BY <2>2 DEF IInv, Types, TypeOK
<1> QED
  BY <1>1, IInvHolds, PTL

(* run_once never claims more tickets than the pool has idle threads, for  *)
(* any pool, batch size and order in which threads finish (runner.py:193). *)
THEOREM EveryClaimHasAThreadHolds == Spec => []EveryClaimHasAThread
<1>1. IInv => EveryClaimHasAThread
  BY DEF IInv, Slots
<1> QED
  BY <1>1, IInvHolds, PTL

(* Drain mode that was not stopped and had no failed claim leaves nothing  *)
(* behind that was runnable when it started (runner.py:235).               *)
THEOREM DrainProcessesAllHolds == Spec => []DrainProcessesAll
<1>1. IInv => DrainProcessesAll
  BY DEF IInv, Emptied, DrainProcessesAll
<1> QED
  BY <1>1, IInvHolds, PTL
=============================================================================
