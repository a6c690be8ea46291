-------------------------- MODULE MCJobTransactions --------------------------
(* Small instances of JobTransactions for TLC. *)
EXTENDS JobTransactions, TLC

OneJob == {[t \in Ticket |-> j] : j \in Job}
AnyJobs == [Ticket -> Job]

RowSymmetry == Permutations(Session) \cup Permutations(Ticket) \cup Permutations(Job)
=============================================================================
