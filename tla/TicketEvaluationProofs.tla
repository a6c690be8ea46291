----------------------- MODULE TicketEvaluationProofs -----------------------
(***************************************************************************)
(* Proofs about TicketEvaluation.                                          *)
(***************************************************************************)
EXTENDS TicketEvaluation, SubsequenceProofs, FiniteSetTheorems

-----------------------------------------------------------------------------
(***************************************************************************)
(* How an attempt ends                                                     *)
(***************************************************************************)

Asked(m, values) == m.evaluator = "llm_judge" /\ DOMAIN values # {} /\ m.params.sound

AnswersTo(m, values) == IF Asked(m, values) THEN Answers ELSE {None}

LEMMA NoneIsNoAnswer == None \notin Answers
BY AnswersAssumption DEF None

(* An evaluator passes, fails, raises or, for a judge, finds no verdict in *)
(* an answer.                                                              *)
LEMMA RunEnds ==
    ASSUME NEW m \in Metrics, NEW values, NEW a \in AnswersTo(m, values)
    PROVE  /\ EvaluatorRun(m, values, a).end \in {"PASSED", "FAILED", "ERROR", "raised"}
           /\ EvaluatorRun(m, values, a).end = "ERROR" => Asked(m, values)
<1>1. m.evaluator \in Evaluators
  BY MetricsAssumption
<1>2. ASSUME NEW p, NEW s
      PROVE  Outcome(p, s).end \in {"PASSED", "FAILED"} /\ Raised(p).end = "raised"
  BY DEF Outcome, Raised
<1>3. CASE m.evaluator = "required_fields"
  BY <1>2, <1>3 DEF EvaluatorRun, RequiredFields
<1>4. CASE m.evaluator = "span_exists"
  BY <1>2, <1>4 DEF EvaluatorRun, SpanExists
<1>5. CASE m.evaluator = "tool_calls"
  BY <1>2, <1>5 DEF EvaluatorRun, ToolCalls
<1>6. CASE m.evaluator = "llm_judge"
  <2>1. EvaluatorRun(m, values, a) = LlmJudge(values, m.params, a)
    BY <1>6 DEF EvaluatorRun
  <2>2. CASE ~Asked(m, values)
    BY <1>2, <1>6, <2>1, <2>2 DEF LlmJudge, Asked
  <2>3. CASE Asked(m, values)
    <3>1. ASSUME NEW x PROVE JudgeVerdict(a, x).end \in {"PASSED", "FAILED"}
      BY <1>2 DEF JudgeVerdict
    <3> QED
      BY <1>2, <2>1, <2>3, <3>1 DEF LlmJudge, Unparseable, JudgeVerdict, Outcome, Raised
  <2> QED
    BY <2>2, <2>3
<1> QED
  BY <1>1, <1>3, <1>4, <1>5, <1>6 DEF Evaluators

Final(output) ==
    /\ output.storable
    /\ output.end = "raised" => ClassifyError(output.raised) = "permanent"

(* Without asking anyone an evaluator raises nothing transient, and what   *)
(* it finds can be stored.                                                 *)
LEMMA RunIsFinal ==
    ASSUME NEW m \in Metrics, NEW values, NEW a, ~Asked(m, values)
    PROVE  /\ EvaluatorRun(m, values, a).storable
           /\ EvaluatorRun(m, values, a).end = "raised" =>
                ClassifyError(EvaluatorRun(m, values, a).raised) = "permanent"
<1>1. m.evaluator \in Evaluators
  BY MetricsAssumption
<1>2. ASSUME NEW p, NEW s PROVE Final(Outcome(p, s))
  BY DEF Outcome, Final
<1>3. ASSUME NEW type \in {"TypeError", "ValueError", "InvalidEvaluatorConfigError"}
      PROVE  Final(Raised(Error(type)))
  BY DEF Raised, Outcome, Error, ClassifyError, Final
<1>4. CASE m.evaluator = "required_fields"
  <2>1. EvaluatorRun(m, values, a) = RequiredFields(values, m.params)
    BY <1>4 DEF EvaluatorRun
  <2> QED
    BY <1>2, <1>3, <2>1 DEF RequiredFields, Final
<1>5. CASE m.evaluator = "span_exists"
  <2>1. EvaluatorRun(m, values, a) = SpanExists(values, m.params)
    BY <1>5 DEF EvaluatorRun
  <2> QED
    BY <1>2, <1>3, <2>1 DEF SpanExists, Final
<1>6. CASE m.evaluator = "tool_calls"
  <2>1. EvaluatorRun(m, values, a) = ToolCalls(values, m.params)
    BY <1>6 DEF EvaluatorRun
  <2>2. Final(ToolCalls(values, m.params))
    BY <1>2, <1>3 DEF ToolCalls
  <2> QED
    BY <2>1, <2>2 DEF Final
<1>7. CASE m.evaluator = "llm_judge"
  <2>1. EvaluatorRun(m, values, a) = LlmJudge(values, m.params, a)
    BY <1>7 DEF EvaluatorRun
  <2> QED
    BY <1>2, <1>3, <1>7, <2>1 DEF LlmJudge, Asked, Final
<1> QED
  BY <1>1, <1>4, <1>5, <1>6, <1>7 DEF Evaluators, Final

(* The first delay is for the first attempt, the last one for those beyond *)
(* the list.                                                               *)
LEMMA BackoffEnds ==
    ASSUME attempt \in Nat
    PROVE  /\ attempt = 1 => BackoffForAttempt(attempt) = Backoff[1]
           /\ attempt >= Len(Backoff) => BackoffForAttempt(attempt) = Backoff[Len(Backoff)]
<1>1. Len(Backoff) \in Nat \ {0}
  BY BackoffAssumption
<1> QED
  BY <1>1 DEF BackoffForAttempt

(* How the step that ends an attempt leaves the ticket.                    *)
AttemptEnds ==
    \/ /\ status' \in {"DONE", "FAILED", "NOT_APPLICABLE"} /\ step' = "idle"
       /\ result' # NoResult
    \/ /\ status' = "RETRY" /\ step' = "idle"
       /\ attempt < MaxAttempts
       /\ answer' # None \/ ~Storable(resolved)'
       /\ delay' = BackoffForAttempt(attempt)
    \/ /\ step' = "lost" /\ status' = status
       /\ ~Storable(resolved)'

LEMMA RowsAreResults ==
    /\ \A outcome, score : outcome # "none" => Upserted(outcome, score) # NoResult
    /\ NotApplicableRow # NoResult
BY DEF Upserted, NoResult, NotApplicableRow

(* A failure retries an attempt only when its error may pass.              *)
LEMMA FailureEnds ==
    ASSUME NEW error, HandleFailure(error, resolved), resolved' = resolved,
           ClassifyError(error) # "transient" \/ answer' # None \/ ~Storable(resolved)
    PROVE  AttemptEnds
<1>1. Storable(resolved)' <=> Storable(resolved)
  BY DEF Storable
<1>2. CASE ClassifyError(error) = "transient" /\ attempt < MaxAttempts
  <2>1. Settle("RETRY", BackoffForAttempt(attempt), result)
    BY <1>2 DEF HandleFailure
  <2> QED
    BY <1>1, <1>2, <2>1 DEF Settle, AttemptEnds
<1>3. CASE ~(ClassifyError(error) = "transient" /\ attempt < MaxAttempts)
  <2>1. CASE Storable(resolved)
    <3>1. PICK row : Settle("FAILED", 0, row) /\ row # NoResult
      BY <1>3, <2>1, RowsAreResults DEF HandleFailure
    <3> QED
      BY <3>1 DEF Settle, AttemptEnds
  <2>2. CASE ~Storable(resolved)
    <3>1. Escape
      BY <1>3, <2>2 DEF HandleFailure
    <3> QED
      BY <1>1, <2>2, <3>1 DEF Escape, AttemptEnds
  <2> QED
    BY <2>1, <2>2
<1> QED
  BY <1>2, <1>3

LEMMA DataErrorIsTransient == ClassifyError(Error("DataError")) = "transient"
BY DEF ClassifyError, Error

(* Persisting a last result, whether it works or not.                      *)
LEMMA PersistEnds ==
    ASSUME NEW target \in {"DONE", "FAILED", "NOT_APPLICABLE"}, NEW wait, NEW row, NEW storable,
           row # NoResult, Persist(target, wait, row, resolved, storable), resolved' = resolved,
           storable \/ answer' # None
    PROVE  AttemptEnds
<1>1. CASE storable /\ Storable(resolved)
  <2>1. Settle(target, wait, row)
    BY <1>1 DEF Persist
  <2> QED
    BY <2>1 DEF Settle, AttemptEnds
<1>2. CASE ~(storable /\ Storable(resolved))
  <2>1. HandleFailure(Error("DataError"), resolved)
    BY <1>2 DEF Persist
  <2> QED
    BY <1>2, <2>1, FailureEnds
<1> QED
  BY <1>1, <1>2

-----------------------------------------------------------------------------
(***************************************************************************)
(* The invariant behind RetriesAreJustified and EndsWithResult: a thread   *)
(* is lost only to values that cannot be stored.                           *)
(***************************************************************************)

AttemptInv ==
    /\ metric \in Metrics
    /\ attempt \in Nat /\ (status # "READY" => attempt > 0)
    /\ step \in {"idle", "claimed", "resolved", "lost"}
    /\ step # "idle" <=> status = "RUNNING"
    /\ step = "claimed" => resolved = Unresolved
    /\ step = "lost" => ~Storable(resolved)
    /\ RetriesAreJustified
    /\ EndsWithResult

LEMMA UnresolvedIsStorable == Storable(Unresolved)
BY DEF Storable, Unresolved

LEMMA AttemptInit == Init => AttemptInv
BY DEF Init, AttemptInv, RetriesAreJustified, EndsWithResult

(* The end of an attempt keeps the invariant. *)
LEMMA EndKeepsInv ==
    ASSUME AttemptInv, step # "idle", AttemptEnds, UNCHANGED <<metric, attempt>>
    PROVE  AttemptInv'
<1>1. attempt \in Nat /\ attempt > 0 /\ status = "RUNNING" /\ metric \in Metrics
  BY DEF AttemptInv
<1>2. CASE status' = "RETRY" /\ step' = "idle"
  <2>1. /\ attempt < MaxAttempts
        /\ answer' # None \/ ~Storable(resolved)'
        /\ delay' = BackoffForAttempt(attempt)
    BY <1>2 DEF AttemptEnds
  <2>2. RetriesAreJustified'
    BY <1>1, <2>1, BackoffEnds DEF RetriesAreJustified
  <2> QED
    BY <1>1, <1>2, <2>2 DEF AttemptInv, EndsWithResult
<1>3. CASE status' \in {"DONE", "FAILED", "NOT_APPLICABLE"} /\ step' = "idle" /\ result' # NoResult
  BY <1>1, <1>3 DEF AttemptInv, RetriesAreJustified, EndsWithResult, NoResult, Upserted
<1>4. CASE step' = "lost" /\ status' = status /\ ~Storable(resolved)'
  BY <1>1, <1>4 DEF AttemptInv, RetriesAreJustified, EndsWithResult
<1> QED
  BY <1>2, <1>3, <1>4 DEF AttemptEnds

LEMMA ClaimKept == ASSUME AttemptInv, Claim PROVE AttemptInv'
BY DEF Claim, AttemptInv, RetriesAreJustified, EndsWithResult

LEMMA LoadKept == ASSUME AttemptInv, Load PROVE AttemptInv'
<1>1. step = "claimed" /\ status = "RUNNING" /\ resolved = Unresolved
  BY DEF Load, AttemptInv
<1>2. CASE file' = Gone
  <2>1. /\ HandleFailure(Error("SourcePayloadMissingError"), resolved)
        /\ resolved' = resolved /\ UNCHANGED <<metric, attempt>>
    BY <1>1, <1>2 DEF Load
  <2>2. ClassifyError(Error("SourcePayloadMissingError")) # "transient"
    BY DEF ClassifyError, Error
  <2>3. AttemptEnds
    BY <2>1, <2>2, FailureEnds
  <2> QED
    BY <1>1, <2>1, <2>3, EndKeepsInv
<1>3. CASE file' # Gone
  <2>1. step' = "resolved" /\ UNCHANGED <<status, delay, result, metric, attempt>>
    BY <1>3 DEF Load
  <2> QED
    BY <1>1, <2>1 DEF AttemptInv, RetriesAreJustified, EndsWithResult
<1> QED
  BY <1>2, <1>3

LEMMA SettleNotApplicableKept == ASSUME AttemptInv, SettleNotApplicable PROVE AttemptInv'
<1>1. /\ Persist("NOT_APPLICABLE", 0, NotApplicableRow, resolved, TRUE)
      /\ step # "idle" /\ resolved' = resolved /\ UNCHANGED <<metric, attempt>>
  BY DEF SettleNotApplicable
<1>2. AttemptEnds
  BY <1>1, PersistEnds, RowsAreResults
<1> QED
  BY <1>1, <1>2, EndKeepsInv

LEMMA MissContextKept == ASSUME AttemptInv, MissContext PROVE AttemptInv'
<1>1. step # "idle" /\ resolved' = resolved /\ UNCHANGED <<metric, attempt>>
  BY DEF MissContext
<1>2. CASE Persist("NOT_APPLICABLE", 0, NotApplicableRow, resolved, TRUE)
  BY <1>1, <1>2, PersistEnds, RowsAreResults, EndKeepsInv
<1>3. CASE HandleFailure(Error("MissingContextError"), resolved)
  <2>1. ClassifyError(Error("MissingContextError")) # "transient"
    BY DEF ClassifyError, Error
  <2> QED
    BY <1>1, <1>3, <2>1, FailureEnds, EndKeepsInv
<1> QED
  BY <1>2, <1>3 DEF MissContext

LEMMA EvaluateKept == ASSUME AttemptInv, Evaluate PROVE AttemptInv'
<1> DEFINE values == resolved.values
           run == EvaluatorRun(metric, resolved.values, answer')
<1>1. /\ step # "idle" /\ resolved' = resolved /\ UNCHANGED <<metric, attempt>>
      /\ metric \in Metrics /\ answer' \in AnswersTo(metric, values)
      /\ Record(run)
  BY DEF Evaluate, AttemptInv, Asks, AnswersTo, Asked
<1>2. /\ run.end \in {"PASSED", "FAILED", "ERROR", "raised"}
      /\ run.end = "ERROR" => Asked(metric, values)
  BY <1>1, RunEnds
<1>3. Asked(metric, values) => answer' # None
  BY <1>1, NoneIsNoAnswer DEF AnswersTo
<1>4. ~Asked(metric, values) =>
         run.storable /\ (run.end = "raised" => ClassifyError(run.raised) = "permanent")
  BY <1>1, RunIsFinal
<1> HIDE DEF run
<1> DEFINE row == Upserted(run.end, run.score)
<1>5. row # NoResult
  BY <1>2, RowsAreResults
<1>6. AttemptEnds
  <2>1. CASE run.end = "raised"
    <3>1. HandleFailure(run.raised, resolved)
      BY <1>1, <2>1 DEF Record
    <3> QED
      BY <1>1, <1>3, <1>4, <2>1, <3>1, FailureEnds
  <2>2. CASE run.end = "ERROR" /\ attempt < MaxAttempts
    <3>1. Persist("RETRY", BackoffForAttempt(attempt), result, resolved, TRUE)
      BY <1>1, <2>2 DEF Record
    <3>2. CASE Storable(resolved)
      <4>1. Settle("RETRY", BackoffForAttempt(attempt), result)
        BY <3>1, <3>2 DEF Persist
      <4> QED
        BY <1>2, <1>3, <2>2, <4>1 DEF Settle, AttemptEnds
    <3>3. CASE ~Storable(resolved)
      <4>1. HandleFailure(Error("DataError"), resolved)
        BY <3>1, <3>3 DEF Persist
      <4> QED
        BY <1>1, <3>3, <4>1, FailureEnds
    <3> QED
      BY <3>2, <3>3
  <2>3. CASE run.end = "ERROR" /\ ~(attempt < MaxAttempts)
    <3>1. Persist("FAILED", 0, row, resolved, run.storable)
      BY <1>1, <2>3 DEF Record
    <3> HIDE DEF row
    <3> QED
      BY <1>1, <1>2, <1>3, <1>5, <2>3, <3>1, PersistEnds
  <2>4. CASE run.end \in {"PASSED", "FAILED"}
    <3>1. Persist("DONE", 0, row, resolved, run.storable)
      BY <1>1, <2>4 DEF Record
    <3> HIDE DEF row
    <3> QED
      BY <1>1, <1>3, <1>4, <1>5, <3>1, PersistEnds
  <2> QED
    BY <1>2, <2>1, <2>2, <2>3, <2>4
<1> QED
  BY <1>1, <1>6, EndKeepsInv

LEMMA RecoverKept == ASSUME AttemptInv, Recover PROVE AttemptInv'
<1>1. /\ ~Storable(resolved)' /\ attempt > 0
      /\ Settle(IF attempt < MaxAttempts THEN "RETRY" ELSE "FAILED", 0, result)
      /\ UNCHANGED <<metric, attempt>>
  BY DEF Recover, AttemptInv, Storable
<1>2. /\ status' = IF attempt < MaxAttempts THEN "RETRY" ELSE "FAILED"
      /\ step' = "idle"
  BY <1>1 DEF Settle
<1> QED
  BY <1>1, <1>2 DEF AttemptInv, RetriesAreJustified, EndsWithResult

LEMMA AttemptNext == AttemptInv /\ [Next]_vars => AttemptInv'
<1> SUFFICES ASSUME AttemptInv, [Next]_vars PROVE AttemptInv'
  OBVIOUS
<1>1. CASE UNCHANGED vars
  <2>1. Storable(resolved)' <=> Storable(resolved)
    BY <1>1 DEF Storable, vars
  <2> QED
    BY <1>1, <2>1 DEF vars, AttemptInv, RetriesAreJustified, EndsWithResult, NoResult
<1> QED
  BY <1>1, ClaimKept, LoadKept, SettleNotApplicableKept, MissContextKept, EvaluateKept,
     RecoverKept DEF Next

(* A retry is granted only where another attempt may end differently, and  *)
(* waits for the delay that is configured for it.                          *)
THEOREM RetriesAreJustifiedHolds == Spec => []RetriesAreJustified
<1>1. AttemptInv => RetriesAreJustified
  BY DEF AttemptInv
<1> QED
  BY <1>1, AttemptInit, AttemptNext, PTL DEF Spec

(* A ticket ends with a result, unless what it resolved cannot be stored.  *)
THEOREM EndsWithResultHolds == Spec => []EndsWithResult
<1>1. AttemptInv => EndsWithResult
  BY DEF AttemptInv
<1> QED
  BY <1>1, AttemptInit, AttemptNext, PTL DEF Spec

-----------------------------------------------------------------------------
(***************************************************************************)
(* What a ticket is shown of a trace.  Sorting and filtering only move and *)
(* drop spans, so every span shown is one of the trace, and the spans in   *)
(* V, which no filter drops, are all there.                                *)
(***************************************************************************)

Shows(p, s, r, V) ==
    /\ p \in [1 .. Len(s) -> 1 .. Len(r)]
    /\ \A k \in 1 .. Len(s) : s[k] = r[p[k]]
    /\ \A j, k \in 1 .. Len(s) : p[j] = p[k] => j = k
    /\ \A i \in 1 .. Len(r) : r[i] \in V => \E k \in 1 .. Len(s) : p[k] = i

LEMMA ShowsCompose ==
    ASSUME NEW T, NEW r \in Seq(T), NEW s \in Seq(T), NEW t \in Seq(T), NEW V, NEW p, NEW q,
           Shows(p, s, r, V), Shows(q, t, s, V)
    PROVE  \E x : Shows(x, t, r, V)
<1> DEFINE x == [k \in 1 .. Len(t) |-> p[q[k]]]
<1>1. Len(r) \in Nat /\ Len(s) \in Nat /\ Len(t) \in Nat
  OBVIOUS
<1>2. \A k \in 1 .. Len(t) : q[k] \in 1 .. Len(s) /\ t[k] = s[q[k]]
  BY DEF Shows
<1>3. \A k \in 1 .. Len(s) : p[k] \in 1 .. Len(r) /\ s[k] = r[p[k]]
  BY DEF Shows
<1>4. x \in [1 .. Len(t) -> 1 .. Len(r)] /\ \A k \in 1 .. Len(t) : x[k] = p[q[k]]
  BY <1>2, <1>3
<1> HIDE DEF x
<1>5. \A k \in 1 .. Len(t) : t[k] = r[x[k]]
  BY <1>2, <1>3, <1>4
<1>6. ASSUME NEW j \in 1 .. Len(t), NEW k \in 1 .. Len(t), x[j] = x[k] PROVE j = k
  <2>1. p[q[j]] = p[q[k]] /\ q[j] \in 1 .. Len(s) /\ q[k] \in 1 .. Len(s)
    BY <1>2, <1>4, <1>6
  <2>2. q[j] = q[k]
    BY <2>1 DEF Shows
  <2> QED
    BY <2>2 DEF Shows
<1>7. ASSUME NEW i \in 1 .. Len(r), r[i] \in V PROVE \E k \in 1 .. Len(t) : x[k] = i
  <2>1. PICK j \in 1 .. Len(s) : p[j] = i
    BY <1>7 DEF Shows
  <2>2. s[j] \in V
    BY <1>3, <1>7, <2>1
  <2>3. PICK k \in 1 .. Len(t) : q[k] = j
    BY <2>2 DEF Shows
  <2> QED
    BY <1>4, <2>1, <2>3
<1>8. Shows(x, t, r, V)
  BY <1>4, <1>5, <1>6, <1>7 DEF Shows
<1> QED
  BY <1>8

LEMMA ShowsItself ==
    ASSUME NEW T, NEW s \in Seq(T), NEW V
    PROVE  \E p : Shows(p, s, s, V)
<1> DEFINE p == [k \in 1 .. Len(s) |-> k]
<1>1. Shows(p, s, s, V)
  BY DEF Shows
<1> QED
  BY <1>1

LEMMA KeptShows ==
    ASSUME NEW T, NEW s \in Seq(T), NEW I, NEW V, \A i \in 1 .. Len(s) : s[i] \in V => i \in I
    PROVE  Kept(s, I) \in Seq(T) /\ \E p : Shows(p, Kept(s, I), s, V)
<1> DEFINE t == Kept(s, I)
<1>1. t \in Seq(T) /\ \E p : Enumerates(p, Len(t), s, I, Len(s), t)
  BY KeptElements
<1> HIDE DEF t
<1>2. PICK p : Enumerates(p, Len(t), s, I, Len(s), t)
  BY <1>1
<1>3. Len(t) \in Nat /\ Len(s) \in Nat /\ \A k \in 1 .. Len(t) : p[k] \in 1 .. Len(s)
  BY <1>1, <1>2 DEF Enumerates
<1>4. ASSUME NEW j \in 1 .. Len(t), NEW k \in 1 .. Len(t), p[j] = p[k] PROVE j = k
  <2>1. ~(j < k) /\ ~(k < j)
    BY <1>2, <1>3, <1>4 DEF Enumerates
  <2> QED
    BY <1>3, <2>1
<1>5. Shows(p, t, s, V)
  BY <1>2, <1>4 DEF Shows, Enumerates
<1> QED
  BY <1>1, <1>5 DEF t

(* started_at, where it is an instant, is a number.                        *)
Timed(s) ==
    \A i \in 1 .. Len(s) :
        LET start == Get(s[i], "started_at") IN start.kind = "time" => start.at \in Int

LEMMA TimedShown ==
    ASSUME NEW T, NEW r \in Seq(T), NEW s \in Seq(T), NEW V, NEW p, Shows(p, s, r, V), Timed(r)
    PROVE  Timed(s)
BY DEF Timed, Shows

(* The order of the spans is strict and total ...                          *)
LEMMA OrderIsTotal ==
    ASSUME NEW T, NEW s \in Seq(T), Timed(s),
           NEW i \in 1 .. Len(s), NEW j \in 1 .. Len(s), NEW k \in 1 .. Len(s)
    PROVE  /\ ~ComesBefore(s, i, i)
           /\ i # j => ComesBefore(s, i, j) \/ ComesBefore(s, j, i)
           /\ ComesBefore(s, i, j) /\ ComesBefore(s, j, k) => ComesBefore(s, i, k)
<1> DEFINE time(n) == Get(s[n], "started_at").kind = "time"
           at(n) == Get(s[n], "started_at").at
<1>1. \A m \in 1 .. Len(s) : time(m) => at(m) \in Int
  BY DEF Timed
<1>2. \A m, n \in 1 .. Len(s) :
         StartsBefore(s[m], s[n]) <=> time(m) /\ (time(n) => at(m) < at(n))
  BY DEF StartsBefore
<1>3. i \in Int /\ j \in Int /\ k \in Int
  OBVIOUS
<1> HIDE DEF time, at
<1> QED
  BY <1>1, <1>2, <1>3 DEF ComesBefore

(* ... so that every span has a rank of its own, and every rank a span.    *)
LEMMA RankOrders ==
    ASSUME NEW T, NEW s \in Seq(T), Timed(s), NEW i \in 1 .. Len(s)
    PROVE  /\ Rank(s, i) \in 0 .. Len(s) - 1
           /\ \A j \in 1 .. Len(s) : ComesBefore(s, i, j) => Rank(s, i) < Rank(s, j)
<1> DEFINE N == Len(s)
           Before(j) == {k \in 1 .. N : ComesBefore(s, k, j)}
<1>1. N \in Nat /\ DOMAIN s = 1 .. N
  OBVIOUS
<1>2. \A j \in 1 .. N : Rank(s, j) = Cardinality(Before(j))
  BY <1>1 DEF Rank
<1>3. IsFiniteSet(1 .. N) /\ Cardinality(1 .. N) = N
  BY <1>1, FS_Interval
<1>4. \A j \in 1 .. N : IsFiniteSet(Before(j)) /\ Cardinality(Before(j)) \in Nat
  BY <1>3, FS_Subset, FS_CardinalityType
<1>5. ASSUME NEW j \in 1 .. N, NEW W \in SUBSET (1 .. N), Before(j) \subseteq W, j \in W
      PROVE  Cardinality(Before(j)) < Cardinality(W)
  <2>1. j \notin Before(j)
    BY OrderIsTotal
  <2>2. IsFiniteSet(W) /\ Cardinality(W) \in Nat
    BY <1>3, FS_Subset, FS_CardinalityType
  <2>3. /\ Cardinality(Before(j)) <= Cardinality(W)
        /\ Cardinality(W) = Cardinality(Before(j)) => W = Before(j)
    BY <1>5, <2>2, FS_Subset
  <2> HIDE DEF Before
  <2> QED
    BY <1>4, <1>5, <2>1, <2>2, <2>3
<1>6. Cardinality(Before(i)) < N
  BY <1>3, <1>5
<1>7. ASSUME NEW j \in 1 .. N, ComesBefore(s, i, j)
      PROVE  Cardinality(Before(i)) < Cardinality(Before(j))
  <2>1. Before(i) \subseteq Before(j) /\ i \in Before(j)
    BY <1>7, OrderIsTotal
  <2> HIDE DEF Before
  <2>2. Before(j) \in SUBSET (1 .. N)
    BY DEF Before
  <2> QED
    BY <1>5, <2>1, <2>2
<1> HIDE DEF Before
<1> QED
  BY <1>1, <1>2, <1>4, <1>6, <1>7

LEMMA RankIsOnto ==
    ASSUME NEW T, NEW s \in Seq(T), Timed(s)
    PROVE  /\ \A i, j \in 1 .. Len(s) : Rank(s, i) = Rank(s, j) => i = j
           /\ \A n \in 0 .. Len(s) - 1 : \E i \in 1 .. Len(s) : Rank(s, i) = n
<1> DEFINE N == Len(s)
           f == [i \in 1 .. N |-> Rank(s, i)]
<1>1. N \in Nat
  OBVIOUS
<1>2. \A i \in 1 .. N : Rank(s, i) \in 0 .. N - 1
  BY RankOrders
<1>3. ASSUME NEW i \in 1 .. N, NEW j \in 1 .. N, Rank(s, i) = Rank(s, j) PROVE i = j
  <2>1. ~(Rank(s, i) < Rank(s, j)) /\ ~(Rank(s, j) < Rank(s, i))
    BY <1>1, <1>2, <1>3
  <2> QED
    BY <2>1, RankOrders, OrderIsTotal
<1>4. f \in Injection(1 .. N, 0 .. N - 1)
  BY <1>2, <1>3 DEF Injection, IsInjective
<1>5. IsFiniteSet(0 .. N - 1) /\ Cardinality(1 .. N) = Cardinality(0 .. N - 1)
  BY <1>1, FS_Interval
<1> HIDE DEF N
<1>6. f \in Surjection(1 .. N, 0 .. N - 1)
  <2> HIDE DEF f
  <2> QED
    BY <1>4, <1>5, FS_Injection
<1> QED
  BY <1>3, <1>6 DEF Surjection, N

LEMMA OrderShows ==
    ASSUME NEW T, NEW s \in Seq(T), Timed(s), NEW V
    PROVE  OrderSpans(s) \in Seq(T) /\ \E p : Shows(p, OrderSpans(s), s, V)
<1> DEFINE N == Len(s)
           At(k) == CHOOSE i \in 1 .. N : Rank(s, i) = k - 1
           p == [k \in 1 .. N |-> At(k)]
           t == OrderSpans(s)
<1>1. N \in Nat /\ DOMAIN s = 1 .. N
  OBVIOUS
<1>2. \A k \in 1 .. N : At(k) \in 1 .. N /\ Rank(s, At(k)) = k - 1
  <2> SUFFICES ASSUME NEW k \in 1 .. N PROVE At(k) \in 1 .. N /\ Rank(s, At(k)) = k - 1
    OBVIOUS
  <2>1. \E i \in 1 .. N : Rank(s, i) = k - 1
    BY RankIsOnto
  <2> QED
    BY <2>1
<1>3. t = [k \in 1 .. N |-> s[At(k)]]
  BY <1>1 DEF OrderSpans
<1> HIDE DEF At, t
<1>4. \A k \in 1 .. N : s[At(k)] \in T
  BY <1>1, <1>2
<1>5. t \in Seq(T) /\ Len(t) = N /\ \A k \in 1 .. N : t[k] = s[At(k)]
  BY <1>1, <1>3, <1>4
<1>6. p \in [1 .. N -> 1 .. N] /\ \A k \in 1 .. N : p[k] = At(k)
  BY <1>2
<1> HIDE DEF p
<1>7. \A j, k \in 1 .. N : p[j] = p[k] => j = k
  BY <1>1, <1>2, <1>6
<1>8. ASSUME NEW i \in 1 .. N PROVE \E k \in 1 .. N : p[k] = i
  <2>1. Rank(s, i) \in 0 .. N - 1
    BY RankOrders
  <2>2. PICK k \in 1 .. N : Rank(s, i) = k - 1
    <3>1. Rank(s, i) + 1 \in 1 .. N /\ Rank(s, i) = (Rank(s, i) + 1) - 1
      BY <1>1, <2>1
    <3> QED
      BY <3>1
  <2>3. Rank(s, p[k]) = Rank(s, i) /\ p[k] \in 1 .. N
    BY <1>2, <1>6, <2>2
  <2>4. p[k] = i
    BY <2>3, RankIsOnto
  <2> QED
    BY <2>4
<1>9. Shows(p, t, s, V)
  BY <1>5, <1>6, <1>7, <1>8 DEF Shows
<1> QED
  BY <1>5, <1>9 DEF t

-----------------------------------------------------------------------------
(***************************************************************************)
(* A name means the same in what is shown as in the whole trace.           *)
(***************************************************************************)

Carrying(spans, name, by) == {i \in DOMAIN spans : SpanHasIdentity(spans[i], name, {by})}

(* V has all the spans of T that carry the name as one of the identities.  *)
HasCarriers(V, T, name, keys) == \A x \in T : SpanHasIdentity(x, name, keys) => x \in V

(* As many spans carry the name here as there, and if it is one it is the  *)
(* same.                                                                   *)
SameCarriers(s, r, name, by) ==
    /\ IsFiniteSet(Carrying(r, name, by)) /\ IsFiniteSet(Carrying(s, name, by))
    /\ Cardinality(Carrying(s, name, by)) = Cardinality(Carrying(r, name, by))
    /\ TheOnly(s, Carrying(s, name, by)) = TheOnly(r, Carrying(r, name, by))

LEMMA CarryingShown ==
    ASSUME NEW T, NEW r \in Seq(T), NEW s \in Seq(T), NEW V, NEW p, Shows(p, s, r, V),
           NEW name, NEW by, HasCarriers(V, T, name, {by})
    PROVE  SameCarriers(s, r, name, by)
<1> DEFINE S == Carrying(s, name, by)
           R == Carrying(r, name, by)
           f == [k \in S |-> p[k]]
<1>1. /\ \A k : k \in S <=> k \in 1 .. Len(s) /\ SpanHasIdentity(s[k], name, {by})
      /\ \A k : k \in R <=> k \in 1 .. Len(r) /\ SpanHasIdentity(r[k], name, {by})
  BY DEF Carrying
<1>2. Len(s) \in Nat /\ Len(r) \in Nat /\ \A k \in 1 .. Len(r) : r[k] \in T
  OBVIOUS
<1>3. \A k \in 1 .. Len(s) : p[k] \in 1 .. Len(r) /\ s[k] = r[p[k]]
  BY DEF Shows
<1> HIDE DEF S, R
<1>4. IsFiniteSet(S) /\ IsFiniteSet(R)
  <2>1. S \in SUBSET (1 .. Len(s)) /\ R \in SUBSET (1 .. Len(r))
    BY <1>1
  <2>2. IsFiniteSet(1 .. Len(s)) /\ IsFiniteSet(1 .. Len(r))
    BY <1>2, FS_Interval
  <2> QED
    BY <2>1, <2>2, FS_Subset
<1>5. \A k \in S : p[k] \in R /\ s[k] = r[p[k]]
  BY <1>1, <1>3
<1>6. \A i \in R : \E k \in S : p[k] = i
  <2> SUFFICES ASSUME NEW i \in R PROVE \E k \in S : p[k] = i
    OBVIOUS
  <2>1. i \in 1 .. Len(r) /\ r[i] \in V /\ SpanHasIdentity(r[i], name, {by})
    BY <1>1, <1>2 DEF HasCarriers
  <2>2. PICK k \in 1 .. Len(s) : p[k] = i
    BY <2>1 DEF Shows
  <2>3. k \in S
    BY <1>1, <1>3, <2>1, <2>2
  <2> QED
    BY <2>2, <2>3
<1>7. \A j, k \in S : p[j] = p[k] => j = k
  BY <1>1 DEF Shows
<1>8. Cardinality(S) = Cardinality(R)
  <2>1. f \in Bijection(S, R)
    BY <1>5, <1>6, <1>7 DEF Bijection, Injection, Surjection, IsInjective
  <2> HIDE DEF f
  <2>2. ExistsBijection(S, R)
    BY <2>1 DEF ExistsBijection
  <2> QED
    BY <1>4, <2>2, FS_Bijection
<1>9. TheOnly(s, S) = TheOnly(r, R)
  <2>1. CASE Cardinality(R) > 1
    BY <1>8, <2>1 DEF TheOnly
  <2>2. CASE R = {}
    <3>1. S = {}
      BY <1>5, <2>2
    <3>2. Cardinality(R) = 0 /\ Cardinality(S) = 0
      BY <2>2, <3>1, FS_EmptySet
    <3> QED
      BY <2>2, <3>1, <3>2 DEF TheOnly
  <2>3. CASE ~(Cardinality(R) > 1) /\ R # {}
    <3>1. Cardinality(R) = 1
      BY <1>4, <2>3, FS_CardinalityType, FS_EmptySet
    <3>2. PICK i : R = {i}
      BY <1>4, <3>1, FS_Singleton
    <3>3. PICK k : S = {k}
      BY <1>4, <1>8, <3>1, FS_Singleton
    <3>4. s[k] = r[i]
      BY <1>5, <3>2, <3>3
    <3>5. (CHOOSE x \in R : TRUE) = i /\ (CHOOSE x \in S : TRUE) = k
      BY <3>2, <3>3
    <3> QED
      BY <1>8, <2>3, <3>1, <3>3, <3>4, <3>5 DEF TheOnly
  <2> QED
    BY <2>1, <2>2, <2>3
<1> QED
  BY <1>4, <1>8, <1>9 DEF S, R, SameCarriers

(* The identities by which a token selects, and the name it looks for.     *)
WantedBy(token) == IF token.kind = "select" THEN token.name ELSE token.text

Identity(token) ==
    IF token.kind = "select" THEN token.by \in SpanIdentityKeys ELSE token.kind = "key"

LEMMA IdentityOfSome ==
    ASSUME NEW span, NEW name, NEW by \in SpanIdentityKeys, SpanHasIdentity(span, name, {by})
    PROVE  SpanHasIdentity(span, name, SpanIdentityKeys) /\ IsSpan(span)
<1>1. name # "" /\ Get(span, by) = Text(name)
  BY DEF SpanHasIdentity
<1>2. Get(span, by).kind # "null"
  <2>1. Text(name).kind = "string"
    BY DEF Text
  <2> QED
    BY <1>1, <2>1
<1>3. span.kind = "object" /\ by \in DOMAIN span.fields
  BY <1>2 DEF Get, Null
<1> QED
  BY <1>1, <1>3 DEF SpanHasIdentity, IsSpan

LEMMA FindSpanShown ==
    ASSUME NEW T, NEW r \in Seq(T), NEW s \in Seq(T), NEW V, NEW p, Shows(p, s, r, V),
           NEW token, Identity(token),
           HasCarriers(V, T, WantedBy(token), SpanIdentityKeys)
    PROVE  FindSpan(s, token) = FindSpan(r, token)
<1>1. ASSUME NEW by \in SpanIdentityKeys
      PROVE  SameCarriers(s, r, WantedBy(token), by)
  <2>1. HasCarriers(V, T, WantedBy(token), {by})
    BY IdentityOfSome DEF HasCarriers
  <2> QED
    BY <2>1, CarryingShown
<1>2. CASE token.kind = "select"
  <2>1. FindSpan(s, token) = TheOnly(s, Carrying(s, token.name, token.by))
    BY <1>2 DEF FindSpan, Carrying
  <2>2. FindSpan(r, token) = TheOnly(r, Carrying(r, token.name, token.by))
    BY <1>2 DEF FindSpan, Carrying
  <2>3. SameCarriers(s, r, token.name, token.by)
    BY <1>1, <1>2 DEF Identity, WantedBy
  <2> QED
    BY <2>1, <2>2, <2>3 DEF SameCarriers
<1>3. CASE token.kind = "key"
  <2> DEFINE Either(spans) ==
               IF Carrying(spans, token.text, "name") # {} THEN Carrying(spans, token.text, "name")
               ELSE IF Cardinality(Carrying(spans, token.text, "span_id")) = 1
                 THEN Carrying(spans, token.text, "span_id") ELSE {}
  <2>1. FindSpan(s, token) = TheOnly(s, Either(s)) /\ FindSpan(r, token) = TheOnly(r, Either(r))
    BY <1>3 DEF FindSpan, Carrying
  <2>2. WantedBy(token) = token.text /\ {"name", "span_id"} \subseteq SpanIdentityKeys
    BY <1>3 DEF WantedBy, SpanIdentityKeys
  <2>3. SameCarriers(s, r, token.text, "name") /\ SameCarriers(s, r, token.text, "span_id")
    BY <1>1, <2>2
  <2>4. Carrying(s, token.text, "name") = {} <=> Carrying(r, token.text, "name") = {}
    BY <2>3, FS_EmptySet DEF SameCarriers
  <2>5. Cardinality({}) = 0
    BY FS_EmptySet
  <2>6. TheOnly(s, {}) = TheOnly(r, {})
    BY <2>5 DEF TheOnly
  <2> QED
    BY <2>1, <2>3, <2>4, <2>6 DEF SameCarriers
<1> QED
  BY <1>2, <1>3 DEF Identity

-----------------------------------------------------------------------------
(***************************************************************************)
(* What a ticket is shown of its file.                                     *)
(***************************************************************************)

OfName(T, name) == {x \in T : SpanHasIdentity(x, name, SpanIdentityKeys)}

NamedIn(spans, wanted) ==
    {i \in DOMAIN spans : \E name \in wanted : SpanHasIdentity(spans[i], name, SpanIdentityKeys)}

LEMMA GivenFields ==
    ASSUME NEW object, NEW key, Get(object, key).kind # "null"
    PROVE  object.kind = "object" /\ key \in DOMAIN object.fields
BY DEF Get, Null

With(object, key, value) == Object([object.fields EXCEPT ![key] = value])

LEMMA GetReplaced ==
    ASSUME NEW object, NEW key, Get(object, key).kind # "null", NEW value
    PROVE  Get(With(object, key, value), key) = value
<1> DEFINE new == [object.fields EXCEPT ![key] = value]
<1>1. key \in DOMAIN object.fields
  BY GivenFields
<1>2. key \in DOMAIN new /\ new[key] = value
  BY <1>1
<1>3. With(object, key, value) = Object(new)
  BY DEF With
<1> HIDE DEF new
<1>4. Object(new).kind = "object" /\ Object(new).fields = new
  BY DEF Object
<1> HIDE DEF Object
<1> QED
  BY <1>2, <1>3, <1>4 DEF Get

LEMMA RawOfScoped ==
    ASSUME NEW f, NEW wanted
    PROVE  \/ RawSpans(ScopePayload(f, wanted)) = RawSpans(f)
           \/ /\ wanted # {}
              /\ RawSpans(ScopePayload(f, wanted)) =
                    Kept(RawSpans(f), NamedIn(RawSpans(f), wanted))
<1> DEFINE context == Get(f, "trace_context")
           trace == Get(context, "trace")
           kept == List(Kept(RawSpans(f), NamedIn(RawSpans(f), wanted)))
           newTrace == With(trace, "spans", kept)
           newContext == With(context, "trace", newTrace)
           new == With(f, "trace_context", newContext)
<1>1. CASE wanted = {} \/ Get(trace, "spans").kind # "list"
  <2>1. ScopePayload(f, wanted) = f
    BY <1>1 DEF ScopePayload
  <2> QED
    BY <2>1
<1>2. CASE wanted # {} /\ Get(trace, "spans").kind = "list"
  <2>1. ScopePayload(f, wanted) = new
    BY <1>2 DEF ScopePayload, NamedIn, With
  <2>2. Get(trace, "spans").kind # "null" /\ trace.kind = "object"
    BY <1>2, GivenFields
  <2>3. Get(context, "trace").kind # "null" /\ context.kind = "object"
    BY <2>2, GivenFields
  <2>4. Get(f, "trace_context").kind # "null"
    BY <2>3
  <2>5. Get(new, "trace_context") = newContext
    BY <2>4, GetReplaced
  <2>6. Get(newContext, "trace") = newTrace
    BY <2>3, GetReplaced
  <2>7. Get(newTrace, "spans") = kept
    BY <2>2, GetReplaced
  <2>8. kept.kind = "list" /\ kept.items = Kept(RawSpans(f), NamedIn(RawSpans(f), wanted))
    BY DEF List
  <2> HIDE DEF kept, newTrace, newContext, new
  <2>9. RawSpans(new) = kept.items
    BY <2>5, <2>6, <2>7, <2>8 DEF RawSpans
  <2> QED
    BY <1>2, <2>1, <2>8, <2>9
<1> QED
  BY <1>1, <1>2

LEMMA ExtractShows ==
    ASSUME NEW T, NEW f, RawSpans(f) \in Seq(T), Timed(RawSpans(f)), NEW V, \A x \in V : IsSpan(x)
    PROVE  ExtractSpans(f) \in Seq(T) /\ \E p : Shows(p, ExtractSpans(f), RawSpans(f), V)
<1> DEFINE raw == RawSpans(f)
           spans == Kept(raw, {i \in DOMAIN raw : IsSpan(raw[i])})
<1>1. DOMAIN raw = 1 .. Len(raw)
  OBVIOUS
<1>2. \A i \in 1 .. Len(raw) : raw[i] \in V => i \in {j \in DOMAIN raw : IsSpan(raw[j])}
  BY <1>1
<1>3. spans \in Seq(T) /\ \E p : Shows(p, spans, raw, V)
  <2> HIDE DEF raw
  <2>1. raw \in Seq(T)
    BY DEF raw
  <2> QED
    BY <1>2, <2>1, KeptShows
<1>4. ExtractSpans(f) = OrderSpans(spans)
  BY DEF ExtractSpans
<1> HIDE DEF spans
<1>5. PICK p : Shows(p, spans, raw, V)
  BY <1>3
<1>6. Timed(spans)
  BY <1>3, <1>5, TimedShown
<1>7. OrderSpans(spans) \in Seq(T) /\ \E q : Shows(q, OrderSpans(spans), spans, V)
  BY <1>3, <1>6, OrderShows
<1>8. PICK q : Shows(q, OrderSpans(spans), spans, V)
  BY <1>7
<1> HIDE DEF raw
<1>9. raw \in Seq(T)
  BY DEF raw
<1>10. \E x : Shows(x, OrderSpans(spans), raw, V)
  BY <1>3, <1>5, <1>7, <1>8, <1>9, ShowsCompose
<1> QED
  BY <1>4, <1>7, <1>10 DEF raw

(* A ticket is shown every span that carries one of the wanted names; no   *)
(* span carries the empty name.                                            *)
InScope(name, wanted) == name = "" \/ name \in wanted

LEMMA ScopedShows ==
    ASSUME NEW T, NEW f, RawSpans(f) \in Seq(T), Timed(RawSpans(f)),
           NEW wanted, NEW name, InScope(name, wanted)
    PROVE  /\ ExtractSpans(ScopePayload(f, wanted)) \in Seq(T)
           /\ \E p : Shows(p, ExtractSpans(ScopePayload(f, wanted)), RawSpans(f), OfName(T, name))
<1> DEFINE V == OfName(T, name)
           g == ScopePayload(f, wanted)
           raw == RawSpans(f)
<1>1. \A x \in V : IsSpan(x)
  <2> SUFFICES ASSUME NEW x \in V PROVE IsSpan(x)
    OBVIOUS
  <2>1. PICK by \in SpanIdentityKeys : SpanHasIdentity(x, name, {by})
    BY DEF OfName, SpanHasIdentity
  <2> QED
    BY <2>1, IdentityOfSome
<1>2. DOMAIN raw = 1 .. Len(raw)
  OBVIOUS
<1>3. RawSpans(g) \in Seq(T) /\ \E p : Shows(p, RawSpans(g), raw, V)
  <2>1. CASE RawSpans(g) = raw
    BY <2>1, ShowsItself
  <2>2. CASE RawSpans(g) = Kept(raw, NamedIn(raw, wanted))
    <3>1. ASSUME NEW i \in 1 .. Len(raw), raw[i] \in V PROVE i \in NamedIn(raw, wanted)
      <4>1. SpanHasIdentity(raw[i], name, SpanIdentityKeys)
        BY <3>1 DEF OfName
      <4>2. name \in wanted
        BY <4>1 DEF SpanHasIdentity, InScope
      <4>3. i \in DOMAIN raw
        BY <1>2
      <4> QED
        BY <4>1, <4>2, <4>3 DEF NamedIn
    <3> HIDE DEF V, g, raw
    <3>2. raw \in Seq(T)
      BY DEF raw
    <3> QED
      BY <2>2, <3>1, <3>2, KeptShows
  <2> HIDE DEF V
  <2> QED
    BY <2>1, <2>2, RawOfScoped
<1> HIDE DEF V, g, raw
<1>4. PICK p : Shows(p, RawSpans(g), raw, V)
  BY <1>3
<1>5. raw \in Seq(T) /\ Timed(raw)
  BY DEF raw
<1>6. Timed(RawSpans(g))
  BY <1>3, <1>4, <1>5, TimedShown
<1>7. ExtractSpans(g) \in Seq(T) /\ \E q : Shows(q, ExtractSpans(g), RawSpans(g), V)
  BY <1>1, <1>3, <1>6, ExtractShows
<1>8. PICK q : Shows(q, ExtractSpans(g), RawSpans(g), V)
  BY <1>7
<1>9. \E x : Shows(x, ExtractSpans(g), raw, V)
  BY <1>3, <1>4, <1>5, <1>7, <1>8, ShowsCompose
<1> QED
  BY <1>7, <1>9 DEF V, g, raw

LEMMA FileSpans ==
    ASSUME NEW f \in Files
    PROVE  RawSpans(f) \in Seq(Range(RawSpans(f))) /\ Timed(RawSpans(f))
<1>1. RawSpans(f) \in Seq(Range(RawSpans(f)))
  BY FilesAssumption
<1>2. DOMAIN RawSpans(f) = 1 .. Len(RawSpans(f))
  BY <1>1
<1> QED
  BY <1>1, <1>2, FilesAssumption DEF Timed

(* A name the metric knows of, or none, finds the same span in what the    *)
(* ticket is shown, in the file, and in the file's spans as they stand.    *)
LEMMA FindInScope ==
    ASSUME NEW f \in Files, NEW wanted, NEW token, Identity(token),
           InScope(WantedBy(token), wanted)
    PROVE  /\ FindSpan(ExtractSpans(ScopePayload(f, wanted)), token) = FindSpan(RawSpans(f), token)
           /\ FindSpan(ExtractSpans(f), token) = FindSpan(RawSpans(f), token)
<1> DEFINE raw == RawSpans(f)
           T == Range(raw)
           shown == ExtractSpans(ScopePayload(f, wanted))
           all == ExtractSpans(f)
           V == OfName(T, WantedBy(token))
<1>1. raw \in Seq(T) /\ Timed(raw)
  BY FileSpans
<1> HIDE DEF T
<1>2. HasCarriers(V, T, WantedBy(token), SpanIdentityKeys)
  BY DEF HasCarriers, OfName
<1>3. shown \in Seq(T) /\ \E p : Shows(p, shown, raw, V)
  BY <1>1, ScopedShows
<1>4. all \in Seq(T) /\ \E p : Shows(p, all, raw, V)
  <2>1. ScopePayload(f, {}) = f
    BY DEF ScopePayload
  <2>2. \A x \in V : IsSpan(x)
    <3> SUFFICES ASSUME NEW x \in V PROVE IsSpan(x)
      OBVIOUS
    <3>1. PICK by \in SpanIdentityKeys : SpanHasIdentity(x, WantedBy(token), {by})
      BY DEF OfName, SpanHasIdentity
    <3> QED
      BY <3>1, IdentityOfSome
  <2> HIDE DEF V
  <2> QED
    BY <1>1, <2>2, ExtractShows
<1> HIDE DEF V, shown, all, raw
<1>5. FindSpan(shown, token) = FindSpan(raw, token)
  <2>1. PICK p : Shows(p, shown, raw, V)
    BY <1>3
  <2> QED
    BY <1>1, <1>2, <1>3, <2>1, FindSpanShown
<1>6. FindSpan(all, token) = FindSpan(raw, token)
  <2>1. PICK p : Shows(p, all, raw, V)
    BY <1>4
  <2> QED
    BY <1>1, <1>2, <1>4, <2>1, FindSpanShown
<1> QED
  BY <1>5, <1>6 DEF shown, all, raw

LEMMA EmptySequence == ASSUME NEW T, NEW s \in Seq(T) PROVE s = << >> <=> Len(s) = 0
OBVIOUS

(* Where a path selects a span by an identity, that name is one the metric *)
(* shows its ticket, and the path goes on in the span that has it.         *)
LEMMA NamedPath ==
    ASSUME NEW m \in Metrics, NEW key \in DOMAIN m.mapping,
           SelectedBy(m.mapping[key].path) # None
    PROVE  /\ Identity(SelectedBy(m.mapping[key].path))
           /\ InScope(WantedBy(SelectedBy(m.mapping[key].path)), MetricSpanNames(m))
           /\ \E rest : \A doc : ResolvePath(doc, m.mapping[key].path) =
                 InSpan(ExtractSpans(doc), SelectedBy(m.mapping[key].path), rest)
<1> DEFINE path == m.mapping[key].path
           T == Range(path)
           token == SelectedBy(path)
<1>1. path \in Seq(T) /\ path # << >>
  BY MetricsAssumption
<1>2. \A i \in DOMAIN path :
         path[i].kind = "select" => path[i].text \notin ReservedSections /\ path[i].by \in SpanIdentityKeys
  BY MetricsAssumption
<1>3. SpanToken(path) # "" => SpanToken(path) \in MetricSpanNames(m)
  BY DEF MetricSpanNames, TokensOf
<1>4. SelectedBy(path) # None
  OBVIOUS
<1> HIDE DEF path, T
<1>5. /\ Head(path) = path[1] /\ 1 \in DOMAIN path
      /\ Tail(path) = << >> <=> ~(Len(path) > 1)
      /\ Len(path) > 1 => Head(Tail(path)) = path[2] /\ 2 \in DOMAIN path
  <2>1. Len(path) \in Nat /\ Len(path) > 0 /\ DOMAIN path = 1 .. Len(path)
    BY <1>1
  <2>2. Head(path) = path[1]
    BY <1>1
  <2>3. Tail(path) \in Seq(T) /\ Len(Tail(path)) = Len(path) - 1
    BY <1>1, <2>1
  <2>4. Tail(path) = << >> <=> ~(Len(path) > 1)
    <3>1. Tail(path) = << >> <=> Len(Tail(path)) = 0
      BY <2>3, EmptySequence
    <3> QED
      BY <2>1, <2>3, <3>1
  <2>5. ASSUME Len(path) > 1 PROVE Head(Tail(path)) = path[2]
    <3>1. Head(Tail(path)) = Tail(path)[1]
      <4>1. Tail(path) # << >>
        BY <2>4, <2>5
      <4> HIDE DEF T
      <4> QED
        BY <2>3, <4>1
    <3>2. Tail(path)[1] = path[2]
      BY <1>1, <2>1, <2>5
    <3> QED
      BY <3>1, <3>2
  <2> QED
    BY <2>1, <2>2, <2>4, <2>5
<1>6. token.kind \in {"key", "select"} /\ token.text \notin ReservedSections
  BY <1>4 DEF SelectedBy
<1>7. token = IF path[1].text = "spans" /\ Len(path) > 1 THEN path[2] ELSE path[1]
  BY <1>4, <1>5 DEF SelectedBy
<1> HIDE DEF token
<1>8. Identity(token)
  BY <1>2, <1>5, <1>6, <1>7 DEF Identity
<1>9. "spans" \in ReservedSections /\ "payload" \in ReservedSections
  BY DEF ReservedSections
<1>10. CASE path[1].text = "spans" /\ Len(path) > 1
  <2>1. token = path[2] /\ path[1].kind # "select"
    BY <1>2, <1>5, <1>7, <1>9, <1>10
  <2>2. SpanToken(path) = WantedBy(token)
    BY <1>5, <1>6, <1>10, <2>1 DEF SpanToken, WantedBy
  <2>3. \A doc : ResolvePath(doc, path) = InSpan(ExtractSpans(doc), token, Tail(Tail(path)))
    <3> SUFFICES ASSUME NEW doc
                 PROVE  ResolvePath(doc, path) = InSpan(ExtractSpans(doc), token, Tail(Tail(path)))
      OBVIOUS
    <3>1. Head(path).text = "spans" /\ ~(Tail(path) = << >> \/ Head(Tail(path)).kind \in {"star", "index"})
      BY <1>5, <1>6, <1>10, <2>1
    <3> QED
      BY <1>5, <1>10, <2>1, <3>1 DEF ResolvePath
  <2> QED
    BY <1>3, <1>8, <2>2, <2>3 DEF path, token, InScope
<1>11. CASE ~(path[1].text = "spans" /\ Len(path) > 1)
  <2>1. token = path[1]
    BY <1>7, <1>11
  <2>2. SpanToken(path) = WantedBy(token)
    BY <1>5, <1>6, <1>9, <2>1 DEF SpanToken, WantedBy
  <2>3. \A doc : ResolvePath(doc, path) = InSpan(ExtractSpans(doc), token, Tail(path))
    BY <1>5, <1>6, <1>9, <2>1 DEF ResolvePath
  <2> QED
    BY <1>3, <1>8, <2>2, <2>3 DEF path, token, InScope
<1> QED
  BY <1>10, <1>11

LEMMA LostIsLost == \A code : code # "none" => Lost(code).code # "none"
BY DEF Lost

(* A name that finds a span is carried by that span alone.                 *)
LEMMA FoundIsUnique ==
    ASSUME NEW f \in Files, NEW token, Identity(token),
           FindSpan(RawSpans(f), token).code = "none"
    PROVE  Cardinality(Holders(RawSpans(f), token)) = 1
<1> DEFINE raw == RawSpans(f)
           only(matches) == Cardinality(matches) <= 1 /\ matches # {}
<1>1. raw \in Seq(Range(raw))
  BY FileSpans
<1> HIDE DEF raw
<1>2. ASSUME NEW matches \in SUBSET (DOMAIN raw), TheOnly(raw, matches).code = "none"
      PROVE  Cardinality(matches) = 1
  <2>1. DOMAIN raw = 1 .. Len(raw) /\ Len(raw) \in Nat
    BY <1>1
  <2>2. IsFiniteSet(matches)
    <3>1. IsFiniteSet(DOMAIN raw)
      BY <2>1, FS_Interval
    <3> QED
      BY <3>1, FS_Subset
  <2>3. ~(Cardinality(matches) > 1) /\ matches # {}
    BY <1>2, LostIsLost DEF TheOnly
  <2> QED
    BY <2>2, <2>3, FS_CardinalityType, FS_EmptySet
<1>3. ASSUME NEW name, NEW by
      PROVE  Carrying(raw, name, by) =
                IF name = "" THEN {} ELSE {i \in DOMAIN raw : Get(raw[i], by) = Text(name)}
  BY DEF Carrying, SpanHasIdentity
<1>4. \A name, by : Carrying(raw, name, by) \in SUBSET (DOMAIN raw)
  BY DEF Carrying
<1>5. CASE token.kind = "select"
  <2>1. TheOnly(raw, Carrying(raw, token.name, token.by)).code = "none"
    BY <1>5 DEF FindSpan, Carrying, raw
  <2>2. Cardinality(Carrying(raw, token.name, token.by)) = 1
    BY <1>2, <1>4, <2>1
  <2>3. token.name # ""
    <3>1. SUFFICES ASSUME token.name = "" PROVE FALSE
      OBVIOUS
    <3>2. Carrying(raw, token.name, token.by) = {}
      BY <1>3, <3>1
    <3> QED
      BY <2>2, <3>2, FS_EmptySet
  <2> QED
    BY <1>3, <1>5, <2>2, <2>3 DEF Holders, raw
<1>6. CASE token.kind = "key"
  <2> DEFINE Named == Carrying(raw, token.text, "name")
             Identified == Carrying(raw, token.text, "span_id")
             either == IF Named # {} THEN Named
                       ELSE IF Cardinality(Identified) = 1 THEN Identified ELSE {}
  <2>1. TheOnly(raw, either).code = "none"
    BY <1>6 DEF FindSpan, Carrying, raw
  <2>2. either \in SUBSET (DOMAIN raw)
    BY <1>4
  <2> HIDE DEF either
  <2>3. Cardinality(either) = 1
    BY <1>2, <2>1, <2>2
  <2>4. token.text # ""
    <3>1. SUFFICES ASSUME token.text = "" PROVE FALSE
      OBVIOUS
    <3>2. Named = {} /\ Identified = {}
      BY <1>3, <3>1
    <3>3. either = {}
      BY <3>2 DEF either
    <3> QED
      BY <2>3, <3>3, FS_EmptySet
  <2>5. /\ Named = {i \in DOMAIN raw : Get(raw[i], "name") = Text(token.text)}
        /\ Identified = {i \in DOMAIN raw : Get(raw[i], "span_id") = Text(token.text)}
    BY <1>3, <2>4
  <2>6. Holders(raw, token) = IF Named # {} THEN Named ELSE Identified
    BY <1>6, <2>5 DEF Holders
  <2> HIDE DEF Named, Identified
  <2>7. Cardinality({}) = 0
    BY FS_EmptySet
  <2> QED
    BY <2>3, <2>6, <2>7 DEF either, raw
<1> QED
  BY <1>5, <1>6 DEF Identity

(* What NamedKeysMeanTheFile says of a ticket's file. *)
LEMMA NamedKeyResolves ==
    ASSUME NEW m \in Metrics, NEW key \in DOMAIN m.mapping, NEW f \in Files,
           SelectedBy(m.mapping[key].path) # None
    PROVE  /\ ResolvePath(ScopePayload(f, MetricSpanNames(m)), m.mapping[key].path)
                  = ResolvePath(f, m.mapping[key].path)
           /\ ResolvePath(f, m.mapping[key].path).code = "none" =>
                  Cardinality(Holders(RawSpans(f), SelectedBy(m.mapping[key].path))) = 1
<1> DEFINE path == m.mapping[key].path
           token == SelectedBy(path)
           shown == ScopePayload(f, MetricSpanNames(m))
<1>1. PICK rest : \A doc : ResolvePath(doc, path) = InSpan(ExtractSpans(doc), token, rest)
  BY NamedPath
<1>2. Identity(token) /\ InScope(WantedBy(token), MetricSpanNames(m))
  BY NamedPath
<1> HIDE DEF path, token
<1>3. FindSpan(ExtractSpans(shown), token) = FindSpan(RawSpans(f), token)
  BY <1>2, FindInScope
<1>4. FindSpan(ExtractSpans(f), token) = FindSpan(RawSpans(f), token)
  BY <1>2, FindInScope
<1> HIDE DEF shown
<1>5. ResolvePath(shown, path) = ResolvePath(f, path)
  BY <1>1, <1>3, <1>4 DEF InSpan
<1>6. ASSUME ResolvePath(f, path).code = "none"
      PROVE  Cardinality(Holders(RawSpans(f), token)) = 1
  <2>1. FindSpan(RawSpans(f), token).code = "none"
    BY <1>1, <1>4, <1>6 DEF InSpan
  <2> QED
    BY <1>2, <2>1, FoundIsUnique
<1> QED
  BY <1>5, <1>6 DEF path, token, shown

-----------------------------------------------------------------------------
(***************************************************************************)
(* The invariant behind the other two properties: what was resolved is     *)
(* from a file, and a verdict from what was resolved.                      *)
(***************************************************************************)

Origin ==
    /\ file \in Files
    /\ payload = ScopePayload(file, MetricSpanNames(metric))
    /\ resolved = ResolveInputMapping(payload, metric.mapping)

Verdict ==
    LET run == EvaluatorRun(metric, resolved.values, answer) IN
    /\ resolved.missing = {}
    /\ answer \in AnswersTo(metric, resolved.values)
    /\ run.end \in {"PASSED", "FAILED"}
    /\ result = Upserted(run.end, run.score)

VerdictInv ==
    /\ AttemptInv
    /\ step = "resolved" \/ status = "DONE" => Origin
    /\ status = "DONE" => Verdict

LEMMA VerdictInit == Init => VerdictInv
BY AttemptInit DEF Init, VerdictInv

LEMMA FailureLeaves ==
    ASSUME NEW error, NEW snapshot, HandleFailure(error, snapshot), status = "RUNNING"
    PROVE  step' \in {"idle", "lost"} /\ status' # "DONE"
BY DEF HandleFailure, Settle, Escape

PersistedAs(target, row) ==
    /\ step' \in {"idle", "lost"}
    /\ status' = "DONE" => target = "DONE" /\ result' = row

LEMMA PersistLeaves ==
    ASSUME NEW target, NEW wait, NEW row, NEW snapshot, NEW storable, status = "RUNNING",
           Persist(target, wait, row, snapshot, storable)
    PROVE  PersistedAs(target, row)
<1> USE DEF PersistedAs
<1>1. CASE storable /\ Storable(snapshot)
  BY <1>1 DEF Persist, Settle
<1>2. CASE ~(storable /\ Storable(snapshot))
  BY <1>2, FailureLeaves DEF Persist
<1> QED
  BY <1>1, <1>2

LEMMA EvaluateLeaves ==
    ASSUME VerdictInv, Evaluate
    PROVE  /\ step' \in {"idle", "lost"}
           /\ status' = "DONE" => Origin' /\ Verdict'
<1> DEFINE run == EvaluatorRun(metric, resolved.values, answer')
           row == Upserted(run.end, run.score)
<1>1. /\ status = "RUNNING" /\ Origin /\ metric \in Metrics
      /\ UNCHANGED <<metric, attempt, payload, file, resolved>>
      /\ resolved.missing = {}
      /\ answer' \in AnswersTo(metric, resolved.values)
      /\ Record(run)
  BY DEF Evaluate, VerdictInv, AttemptInv, Asks, AnswersTo, Asked
<1>2. run.end \in {"PASSED", "FAILED", "ERROR", "raised"}
  BY <1>1, RunEnds
<1>3. Origin'
  BY <1>1 DEF Origin
<1> HIDE DEF run
<1>4. CASE run.end = "raised"
  <2>1. HandleFailure(run.raised, resolved)
    BY <1>1, <1>4 DEF Record
  <2> QED
    BY <1>1, <2>1, FailureLeaves
<1>5. CASE run.end = "ERROR"
  <2>1. \/ Persist("RETRY", BackoffForAttempt(attempt), result, resolved, TRUE)
        \/ Persist("FAILED", 0, row, resolved, run.storable)
    BY <1>1, <1>5 DEF Record
  <2> HIDE DEF row
  <2>2. PersistedAs("RETRY", result) \/ PersistedAs("FAILED", row)
    BY <1>1, <2>1, PersistLeaves
  <2> QED
    BY <2>2 DEF PersistedAs
<1>6. CASE run.end \in {"PASSED", "FAILED"}
  <2>1. Persist("DONE", 0, row, resolved, run.storable)
    BY <1>1, <1>6 DEF Record
  <2>2. step' \in {"idle", "lost"} /\ (status' = "DONE" => result' = row)
    <3> HIDE DEF row
    <3>1. PersistedAs("DONE", row)
      BY <1>1, <2>1, PersistLeaves
    <3> QED
      BY <3>1 DEF PersistedAs
  <2>3. ASSUME status' = "DONE" PROVE Verdict'
    <3>1. EvaluatorRun(metric, resolved.values, answer)' = run
      BY <1>1 DEF run
    <3> QED
      BY <1>1, <1>6, <2>2, <2>3, <3>1 DEF Verdict
  <2> QED
    BY <1>3, <2>2, <2>3
<1> QED
  BY <1>2, <1>4, <1>5, <1>6

LEMMA LoadLeaves ==
    ASSUME VerdictInv, Load
    PROVE  (step' = "resolved" => Origin') /\ status' # "DONE"
<1>1. status = "RUNNING"
  BY DEF Load, VerdictInv, AttemptInv
<1>2. CASE file' = Gone
  <2>1. HandleFailure(Error("SourcePayloadMissingError"), Unresolved)
    BY <1>2 DEF Load
  <2> QED
    BY <1>1, <2>1, FailureLeaves
<1>3. CASE file' # Gone
  BY <1>1, <1>3 DEF Load, PayloadSource, Origin
<1> QED
  BY <1>2, <1>3

LEMMA VerdictNext == VerdictInv /\ [Next]_vars => VerdictInv'
<1> SUFFICES ASSUME VerdictInv, [Next]_vars PROVE VerdictInv'
  OBVIOUS
<1>1. AttemptInv'
  BY AttemptNext DEF VerdictInv
<1>2. step # "idle" <=> status = "RUNNING"
  BY DEF VerdictInv, AttemptInv
<1>3. ASSUME step' # "resolved", status' # "DONE" PROVE VerdictInv'
  BY <1>1, <1>3 DEF VerdictInv
<1>4. CASE Claim
  BY <1>3, <1>4 DEF Claim
<1>5. CASE Load
  BY <1>1, <1>5, LoadLeaves DEF VerdictInv
<1>6. CASE SettleNotApplicable
  <2>1. PersistedAs("NOT_APPLICABLE", NotApplicableRow)
    BY <1>2, <1>6, PersistLeaves DEF SettleNotApplicable
  <2> QED
    BY <1>3, <2>1 DEF PersistedAs
<1>7. CASE MissContext
  <2>1. \/ Persist("NOT_APPLICABLE", 0, NotApplicableRow, resolved, TRUE)
        \/ HandleFailure(Error("MissingContextError"), resolved)
    BY <1>7 DEF MissContext
  <2>2. status = "RUNNING"
    BY <1>2, <1>7 DEF MissContext
  <2>3. CASE Persist("NOT_APPLICABLE", 0, NotApplicableRow, resolved, TRUE)
    <3>1. PersistedAs("NOT_APPLICABLE", NotApplicableRow)
      BY <2>2, <2>3, PersistLeaves
    <3> QED
      BY <1>3, <3>1 DEF PersistedAs
  <2>4. CASE HandleFailure(Error("MissingContextError"), resolved)
    BY <1>3, <2>2, <2>4, FailureLeaves
  <2> QED
    BY <2>1, <2>3, <2>4
<1>8. CASE Evaluate
  BY <1>1, <1>8, EvaluateLeaves DEF VerdictInv
<1>9. CASE Recover
  BY <1>3, <1>9 DEF Recover, Settle
<1>10. CASE UNCHANGED vars
  <2>1. (Origin' <=> Origin) /\ (Verdict' <=> Verdict)
    BY <1>10 DEF vars, Origin, Verdict
  <2> QED
    BY <1>1, <1>10, <2>1 DEF vars, VerdictInv
<1> QED
  BY <1>4, <1>5, <1>6, <1>7, <1>8, <1>9, <1>10 DEF Next

(* A key that selects a span by an identity means the same in what the     *)
(* ticket is shown as in the whole file, and has a value only where one    *)
(* span of the file is meant.                                              *)
THEOREM NamedKeysMeanTheFileHolds == Spec => []NamedKeysMeanTheFile
<1>1. VerdictInv => NamedKeysMeanTheFile
  BY NamedKeyResolves DEF VerdictInv, AttemptInv, Origin, NamedKeysMeanTheFile
<1> QED
  BY <1>1, VerdictInit, VerdictNext, PTL DEF Spec

-----------------------------------------------------------------------------
(***************************************************************************)
(* What a verdict says is so.                                              *)
(***************************************************************************)

LEMMA OutcomeEnds ==
    /\ \A p, s : Outcome(p, s).end = IF p THEN "PASSED" ELSE "FAILED"
    /\ \A e : Raised(e).end = "raised"
BY DEF Outcome, Raised

(* What a key without a default has is what its path gives.                *)
LEMMA KeyIsResolved ==
    ASSUME NEW doc, NEW mapping, NEW key,
           key \in DOMAIN ResolveInputMapping(doc, mapping).values,
           mapping[key].default = NoDefault
    PROVE  /\ ResolvePath(doc, mapping[key].path).code = "none"
           /\ ResolveInputMapping(doc, mapping).values[key] = ResolvePath(doc, mapping[key].path).value
<1> DEFINE got == [k \in DOMAIN mapping |-> ResolveKey(doc, mapping[k])]
           resolves(k) == got[k].code = "none"
           there == {k \in DOMAIN mapping : resolves(k) \/ mapping[k].default # NoDefault}
           values == [k \in there |-> IF resolves(k) THEN got[k].value ELSE mapping[k].default]
           r == ResolvePath(doc, mapping[key].path)
<1>1. ResolveInputMapping(doc, mapping).values = values
  BY DEF ResolveInputMapping
<1>2. key \in there
  BY <1>1
<1>3. key \in DOMAIN mapping /\ got[key] = ResolveKey(doc, mapping[key]) /\ resolves(key)
  BY <1>2
<1>4. values[key] = got[key].value
  BY <1>2, <1>3
<1>5. ResolveKey(doc, mapping[key]).code = "none"
  BY <1>3
<1>6. ResolveKey(doc, mapping[key]) = r
  BY <1>5, LostIsLost DEF ResolveKey
<1> QED
  BY <1>1, <1>3, <1>4, <1>5, <1>6

LEMMA RequiredIsThere ==
    ASSUME NEW doc, NEW mapping, ResolveInputMapping(doc, mapping).missing = {},
           NEW key \in DOMAIN mapping, mapping[key].required
    PROVE  key \in DOMAIN ResolveInputMapping(doc, mapping).values
BY DEF ResolveInputMapping

LEMMA DigNowhere == \A value : Dig(value, << >>) = Given(value)
<1> SUFFICES ASSUME NEW value PROVE Dig(value, << >>) = Given(value)
  OBVIOUS
<1> DEFINE Rec(f) == f = [n \in 0 .. 0 |-> IF n = 0 THEN Given(value)
                                           ELSE DigInto(f[n - 1], << >>[n])]
           u == CHOOSE f : Rec(f)
<1>1. Dig(value, << >>) = u[0]
  BY DEF Dig
<1>2. Rec([n \in 0 .. 0 |-> Given(value)])
  OBVIOUS
<1>3. Rec(u)
  <2> HIDE DEF Rec
  <2> QED
    BY <1>2
<1> HIDE DEF u
<1>4. u[0] = Given(value)
  BY <1>3
<1> QED
  BY <1>1, <1>4

RequiredFieldsEarned ==
    Passed("required_fields") /\ metric.params.fields = {} /\ ~metric.params.allow_empty =>
        \A key \in DOMAIN metric.mapping :
            LET spec == metric.mapping[key]
                found == ResolvePath(file, spec.path)
            IN spec.required /\ spec.default = NoDefault /\ SelectedBy(spec.path) # None =>
                 found.code = "none" /\ ~IsEmpty(found.value)

LEMMA RequiredFieldsAreEarned == VerdictInv => RequiredFieldsEarned
<1> DEFINE values == resolved.values
           params == metric.params
           spec(key) == metric.mapping[key]
<1> SUFFICES ASSUME VerdictInv, Passed("required_fields"), params.fields = {}, ~params.allow_empty,
                    NEW key \in DOMAIN metric.mapping,
                    spec(key).required, spec(key).default = NoDefault,
                    SelectedBy(spec(key).path) # None
             PROVE  /\ ResolvePath(file, spec(key).path).code = "none"
                    /\ ~IsEmpty(ResolvePath(file, spec(key).path).value)
  BY DEF RequiredFieldsEarned
<1>1. Origin /\ Verdict /\ metric \in Metrics
  BY DEF VerdictInv, AttemptInv, Passed, Judged
<1>2. RequiredFields(values, params).end = "PASSED"
  <2>1. EvaluatorRun(metric, values, answer) = RequiredFields(values, params)
    BY DEF Passed, Judged, EvaluatorRun
  <2>2. result.status = EvaluatorRun(metric, values, answer).end
    BY <1>1 DEF Verdict, Upserted
  <2> QED
    BY <2>1, <2>2 DEF Passed
<1>3. resolved = ResolveInputMapping(payload, metric.mapping) /\ resolved.missing = {}
  BY <1>1 DEF Origin, Verdict
<1>4. key \in DOMAIN values
  BY <1>3, RequiredIsThere
<1>5. /\ ResolvePath(payload, spec(key).path).code = "none"
      /\ values[key] = ResolvePath(payload, spec(key).path).value
  BY <1>3, <1>4, KeyIsResolved
<1>6. ResolvePath(payload, spec(key).path) = ResolvePath(file, spec(key).path)
  BY <1>1, NamedKeyResolves DEF Origin
<1>7. ~IsEmpty(values[key])
  <2> DEFINE field == [key |-> key, sub |-> << >>]
             fields == CheckedFields(values, params)
             present == {x \in fields : FieldPresent(values, params.allow_empty, x)}
  <2>1. field \in fields
    BY <1>4 DEF CheckedFields
  <2>2. present = fields
    BY <1>2, OutcomeEnds DEF RequiredFields
  <2>3. FieldPresent(values, params.allow_empty, field)
    BY <2>1, <2>2
  <2>4. Dig(values[key], << >>) = Given(values[key]) /\ Given(values[key]).value = values[key]
    BY DigNowhere DEF Given
  <2> QED
    BY <2>3, <2>4 DEF FieldPresent
<1> QED
  BY <1>5, <1>6, <1>7

LEMMA SomeShown ==
    ASSUME NEW T, NEW r \in Seq(T), NEW s \in Seq(T), NEW name, NEW p,
           Shows(p, s, r, OfName(T, name))
    PROVE  (\E i \in DOMAIN s : SpanHasIdentity(s[i], name, SpanIdentityKeys))
             <=> (\E i \in DOMAIN r : SpanHasIdentity(r[i], name, SpanIdentityKeys))
<1>1. DOMAIN s = 1 .. Len(s) /\ DOMAIN r = 1 .. Len(r) /\ \A i \in 1 .. Len(r) : r[i] \in T
  OBVIOUS
<1>2. \A k \in 1 .. Len(s) : p[k] \in 1 .. Len(r) /\ s[k] = r[p[k]]
  BY DEF Shows
<1>3. ASSUME NEW i \in 1 .. Len(r), SpanHasIdentity(r[i], name, SpanIdentityKeys)
      PROVE  \E k \in 1 .. Len(s) : p[k] = i
  BY <1>1, <1>3 DEF Shows, OfName
<1> QED
  BY <1>1, <1>2, <1>3

SpanExistsEarned ==
    Judged("span_exists") /\ metric.mapping["spans"].path = <<Key("spans")>>
      /\ metric.mapping["spans"].default = NoDefault =>
        LET spans == RawSpans(file) IN
        result.status = "PASSED" <=>
           \A name \in metric.params.required_spans :
               \E i \in DOMAIN spans : SpanHasIdentity(spans[i], name, SpanIdentityKeys)

LEMMA SpanExistsIsEarned == VerdictInv => SpanExistsEarned
<1> DEFINE values == resolved.values
           params == metric.params
           raw == RawSpans(file)
           T == Range(raw)
           shown == ExtractSpans(payload)
           spans == CoerceSpans(values["spans"])
           has(seq, name) ==
              \E i \in DOMAIN seq : SpanHasIdentity(seq[i], name, SpanIdentityKeys)
<1> SUFFICES ASSUME VerdictInv, Judged("span_exists"),
                    metric.mapping["spans"].path = <<Key("spans")>>,
                    metric.mapping["spans"].default = NoDefault
             PROVE  result.status = "PASSED" <=> \A name \in params.required_spans : has(raw, name)
  BY DEF SpanExistsEarned
<1>1. Origin /\ Verdict /\ metric \in Metrics
  BY DEF VerdictInv, AttemptInv, Judged
<1>2. /\ result.status = SpanExists(values, params).end
      /\ SpanExists(values, params).end \in {"PASSED", "FAILED"}
  <2>1. EvaluatorRun(metric, values, answer) = SpanExists(values, params)
    BY DEF Judged, EvaluatorRun
  <2> QED
    BY <1>1, <2>1 DEF Verdict, Upserted
<1>3. "spans" \in DOMAIN values
  BY <1>2, OutcomeEnds DEF SpanExists
<1>4. SpanExists(values, params).end = "PASSED" <=> \A name \in params.required_spans : has(spans, name)
  BY <1>2, OutcomeEnds DEF SpanExists
<1>5. values["spans"] = List(shown)
  <2>1. resolved = ResolveInputMapping(payload, metric.mapping)
    BY <1>1 DEF Origin
  <2>2. values["spans"] = ResolvePath(payload, <<Key("spans")>>).value
    BY <1>3, <2>1, KeyIsResolved
  <2>3. Head(<<Key("spans")>>).text = "spans" /\ Tail(<<Key("spans")>>) = << >>
    BY DEF Key
  <2>4. ResolvePath(payload, <<Key("spans")>>) = Given(List(shown))
    BY <2>3 DEF ResolvePath, Traverse
  <2> QED
    BY <2>2, <2>4 DEF Given
<1>6. spans = Objects(shown)
  BY <1>5 DEF CoerceSpans, List
<1>7. raw \in Seq(T) /\ Timed(raw)
  BY <1>1, FileSpans DEF Origin
<1>8. payload = ScopePayload(file, MetricSpanNames(metric))
  BY <1>1 DEF Origin
<1> HIDE DEF T, raw, shown, spans
<1>9. ASSUME NEW name \in params.required_spans PROVE has(spans, name) <=> has(raw, name)
  <2> DEFINE V == OfName(T, name)
             objects == {i \in DOMAIN shown : shown[i].kind = "object"}
  <2>1. InScope(name, MetricSpanNames(metric))
    BY DEF InScope, MetricSpanNames
  <2>2. shown \in Seq(T) /\ \E p : Shows(p, shown, raw, V)
    BY <1>7, <1>8, <2>1, ScopedShows DEF raw, shown
  <2>3. \A i \in 1 .. Len(shown) : shown[i] \in V => i \in objects
    <3> SUFFICES ASSUME NEW i \in 1 .. Len(shown), shown[i] \in V PROVE i \in objects
      OBVIOUS
    <3>1. PICK by \in SpanIdentityKeys : SpanHasIdentity(shown[i], name, {by})
      BY DEF OfName, SpanHasIdentity
    <3>2. IsSpan(shown[i])
      BY <3>1, IdentityOfSome
    <3>3. DOMAIN shown = 1 .. Len(shown)
      BY <2>2
    <3> QED
      BY <3>2, <3>3 DEF IsSpan
  <2>4. spans = Kept(shown, objects)
    BY <1>6 DEF Objects
  <2> HIDE DEF V, objects
  <2>5. spans \in Seq(T) /\ \E q : Shows(q, spans, shown, V)
    BY <2>2, <2>3, <2>4, KeptShows
  <2>6. PICK p : Shows(p, shown, raw, V)
    BY <2>2
  <2>7. PICK q : Shows(q, spans, shown, V)
    BY <2>5
  <2>8. has(shown, name) <=> has(raw, name)
    BY <1>7, <2>2, <2>6, SomeShown DEF V
  <2>9. has(spans, name) <=> has(shown, name)
    BY <2>2, <2>5, <2>7, SomeShown DEF V
  <2> QED
    BY <2>8, <2>9
<1> QED
  BY <1>2, <1>4, <1>9

ToolCallsEarned ==
    Passed("tool_calls") /\ metric.params.require_response =>
        \A tool \in metric.params.expected :
            LET calls == Calls(resolved.values["tool_calls"]) IN
            \E i \in DOMAIN calls :
                /\ ToolName(calls[i]) = tool
                /\ \E key \in ResponseKeys : ~IsEmpty(Get(calls[i], key))

LEMMA ToolCallsAreEarned == VerdictInv => ToolCallsEarned
<1> DEFINE values == resolved.values
           params == metric.params
           calls == Calls(values["tool_calls"])
<1> SUFFICES ASSUME VerdictInv, Passed("tool_calls"), params.require_response,
                    NEW tool \in params.expected
             PROVE  \E i \in DOMAIN calls : ToolName(calls[i]) = tool /\ HasResponse(calls[i])
  BY DEF ToolCallsEarned, HasResponse
<1>1. ToolCalls(values, params).end = "PASSED"
  <2>1. EvaluatorRun(metric, values, answer) = ToolCalls(values, params)
    BY DEF Passed, Judged, EvaluatorRun
  <2> QED
    BY <2>1 DEF VerdictInv, Verdict, Upserted, Passed, Judged
<1> DEFINE observed == {ToolName(calls[i]) : i \in DOMAIN calls} \ {""}
<1>2. params.expected \ observed = {} /\ Unanswered(calls, params) = {}
  BY <1>1, OutcomeEnds DEF ToolCalls
<1> HIDE DEF calls
<1>3. PICK i \in DOMAIN calls : ToolName(calls[i]) = tool
  BY <1>2
<1>4. HasResponse(calls[i])
  BY <1>2, <1>3 DEF Unanswered
<1> QED
  BY <1>3, <1>4

LlmJudgeEarned ==
    Judged("llm_judge") /\ answer.passed = "absent" /\ answer.score.kind = "number"
      /\ metric.params.pass_threshold \in 1 .. 100 =>
         (result.status = "PASSED" <=> answer.score.percent >= metric.params.pass_threshold)

LEMMA LlmJudgeIsEarned == VerdictInv => LlmJudgeEarned
<1> DEFINE values == resolved.values
           params == metric.params
           threshold == params.pass_threshold
           percent == answer.score.percent
<1> SUFFICES ASSUME VerdictInv, Judged("llm_judge"), answer.passed = "absent",
                    answer.score.kind = "number", threshold \in 1 .. 100
             PROVE  result.status = "PASSED" <=> percent >= threshold
  BY DEF LlmJudgeEarned
<1>1. Verdict
  BY DEF VerdictInv, Judged
<1>2. EvaluatorRun(metric, values, answer) = LlmJudge(values, params, answer)
  BY DEF Judged, EvaluatorRun
<1>3. /\ result.status = LlmJudge(values, params, answer).end
      /\ LlmJudge(values, params, answer).end \in {"PASSED", "FAILED"}
  BY <1>1, <1>2 DEF Verdict, Upserted
<1>4. Asked(metric, values)
  BY <1>3, OutcomeEnds DEF LlmJudge, Asked, Judged
<1>5. answer \in Answers
  BY <1>1, <1>4 DEF Verdict, AnswersTo
<1>6. answer.kind = "verdict"
  <2>1. CASE answer.kind = "prose"
    <3>1. LlmJudge(values, params, answer).end = "ERROR"
      BY <1>4, <2>1 DEF LlmJudge, Asked, Unparseable, Outcome
    <3> QED
      BY <1>3, <3>1
  <2>2. CASE answer.kind \notin {"prose", "verdict"}
    BY <1>3, <1>4, <2>2, OutcomeEnds DEF LlmJudge, Asked
  <2> QED
    BY <2>1, <2>2
<1>7. percent \in Int
  BY <1>5, <1>6, AnswersAssumption
<1>8. LlmJudge(values, params, answer).end = IF JudgePassed(answer, threshold) THEN "PASSED" ELSE "FAILED"
  BY <1>4, <1>6 DEF LlmJudge, Asked, JudgeVerdict, Outcome
<1>9. JudgePassed(answer, threshold) <=> JudgeScore(answer.score) >= threshold
  BY DEF JudgePassed
<1>10. JudgeScore(answer.score) >= threshold <=> percent >= threshold
  BY <1>7 DEF JudgeScore
<1> QED
  BY <1>3, <1>8, <1>9, <1>10

(* A verdict is earned: a required field is in the file and not empty,     *)
(* spans exist exactly when the whole file has them, an expected tool was  *)
(* called and gave a response, and a threshold decides by the score that   *)
(* the judge gave.                                                         *)
THEOREM VerdictsAreEarnedHolds == Spec => []VerdictsAreEarned
<1>1. VerdictInv => VerdictsAreEarned
  BY RequiredFieldsAreEarned, SpanExistsIsEarned, ToolCallsAreEarned, LlmJudgeIsEarned
     DEF VerdictsAreEarned, RequiredFieldsEarned, SpanExistsEarned, ToolCallsEarned, LlmJudgeEarned
<1> QED
  BY <1>1, VerdictInit, VerdictNext, PTL DEF Spec
=============================================================================
