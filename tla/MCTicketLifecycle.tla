-------------------------- MODULE MCTicketLifecycle --------------------------
(* Instances of TicketLifecycle for TLC. *)
EXTENDS TicketLifecycle, TLC

CONSTANTS j1, j2, t1, t2

(* One job with both tickets; t1 may be tried twice, t2 once. *)
OneJob == t1 :> j1 @@ t2 :> j1
TwoThenOne == t1 :> 2 @@ t2 :> 1

(* One job per ticket. *)
TwoJobs == t1 :> j1 @@ t2 :> j2

(* One ticket. *)
Alone == t1 :> j1
Twice == t1 :> 2

WorkerSymmetry == Permutations(Worker)
=============================================================================
