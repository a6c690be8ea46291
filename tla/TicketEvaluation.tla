--------------------------- MODULE TicketEvaluation ---------------------------
(***************************************************************************)
(* The attempts of one ticket, from the payload file to what is recorded.  *)
(* Every attempt reads the file anew, shows the check what its mapping     *)
(* names, asks a provider if the check is a judge, and records a result,   *)
(* schedules a retry, or fails to do either.  Who claims the ticket, and   *)
(* when, is the subject of TicketLifecycle.                                *)
(***************************************************************************)
EXTENDS CheckOutcomes

CONSTANTS
    Metrics,      \* metric snapshots a ticket may carry
    Files,        \* what an attempt may find in the payload file
    Gone,         \* a file that is missing, unreadable or no JSON object
    Answers,      \* what may come of asking a provider
    MaxAttempts,
    StorableInside(_)   \* StorableValue, of what a value is made of

ASSUME EvaluationAssumption == MaxAttempts \in Nat \ {0} /\ Gone \notin Files

(* What metric_validation lets into a snapshot, and parse_path makes of a  *)
(* path: the prefix of a selector sets it apart from every section.        *)
ASSUME MetricsAssumption ==
    \A m \in Metrics :
        /\ m.evaluator \in Evaluators /\ m.params.sound \in BOOLEAN
        /\ \A key \in DOMAIN m.mapping :
              LET path == m.mapping[key].path IN
              /\ path \in Seq(Range(path)) \ {<< >>}
              /\ \A i \in DOMAIN path :
                    path[i].kind = "select" => /\ path[i].text \notin ReservedSections
                                               /\ path[i].by \in SpanIdentityKeys

(* Spans are a sequence, and an instant is a number. *)
ASSUME FilesAssumption ==
    \A f \in Files :
        LET raw == RawSpans(f) IN
        /\ raw \in Seq(Range(raw))
        /\ \A i \in DOMAIN raw :
              LET start == Get(raw[i], "started_at")
              IN start.kind = "time" => start.at \in Int

ASSUME AnswersAssumption ==
    \A a \in Answers :
        /\ a.kind \in {"unconfigured", "http", "unreachable", "malformed", "prose", "verdict"}
        /\ a.kind = "verdict" /\ a.score.kind = "number" => a.score.percent \in Int

VARIABLES
    metric,     \* the ticket's snapshot
    status,     \* the ticket's status
    attempt,    \* attempt_count
    step,       \* "idle", "claimed", "resolved" or "lost": where its thread is
    payload,    \* the file the attempt read, restricted to the metric's spans
    file,       \* that file, whole
    resolved,   \* what the mapping gave: values and missing keys
    answer,     \* what came of asking the provider
    delay,      \* how long the ticket waits for its next attempt
    result      \* the result row

vars == <<metric, status, attempt, step, payload, file, resolved, answer, delay, result>>

None == [kind |-> "none"]

Unresolved == [values |-> << >>, missing |-> {}]

(* An upsert leaves nothing of an earlier row. *)
Upserted(outcome, score) == [status |-> outcome, score |-> score]

NoResult == Upserted("none", 0)

Init ==
    /\ metric \in Metrics
    /\ status = "READY" /\ attempt = 0 /\ step = "idle"
    /\ payload = None /\ file = None /\ resolved = Unresolved /\ answer = None
    /\ delay = 0
    /\ result = NoResult

Claim ==
    /\ status \in {"READY", "RETRY"}
    /\ status' = "RUNNING" /\ step' = "claimed"
    /\ attempt' = attempt + 1
    /\ payload' = None /\ file' = None /\ resolved' = Unresolved /\ answer' = None
    /\ delay' = 0
    /\ UNCHANGED <<metric, result>>

-----------------------------------------------------------------------------
(* What ends an attempt *)

Settle(target, wait, row) ==
    status' = target /\ step' = "idle" /\ delay' = wait /\ result' = row

(* The exception leaves execute_ticket: the ticket stays RUNNING until its *)
(* lease expires.                                                          *)
Escape == step' = "lost" /\ UNCHANGED <<status, delay, result>>

StorableValue(value) ==
    CASE value.kind = "number" -> value.finite
      [] value.kind = "list"   -> \A i \in DOMAIN value.items : StorableInside(value.items[i])
      [] value.kind = "object" -> \A f \in DOMAIN value.fields : StorableInside(value.fields[f])
      [] OTHER                 -> TRUE

(* The snapshot of the resolution goes into the result and the ticket. *)
Storable(snapshot) == \A key \in DOMAIN snapshot.values : StorableValue(snapshot.values[key])

(* _handle_failure.  A retry stores no snapshot; every other end does, and *)
(* when that is refused nothing is left that would handle the failure.     *)
HandleFailure(error, snapshot) ==
    LET class == ClassifyError(error)
        row == Upserted(IF class = "missing_context" THEN "FAILED" ELSE "ERROR", 0)
    IN IF class = "transient" /\ attempt < MaxAttempts
         THEN Settle("RETRY", BackoffForAttempt(attempt), result)
       ELSE IF Storable(snapshot) THEN Settle("FAILED", 0, row)
       ELSE Escape

(* Faulty: nobody handles what the database refuses. *)
PersistOrEscape(target, wait, row, snapshot, storable) ==
    IF storable /\ Storable(snapshot) THEN Settle(target, wait, row) ELSE Escape

(* _persist, whose statements the database may refuse. *)
Persist(target, wait, row, snapshot, storable) ==
    IF storable /\ Storable(snapshot)
      THEN Settle(target, wait, row)
      ELSE HandleFailure(Error("DataError"), snapshot)

-----------------------------------------------------------------------------
(* execute_ticket *)

(* load_source_payload reads the file as it is now, and does not validate  *)
(* it again.                                                               *)
PayloadSource == Files \cup {Gone}

Load ==
    /\ step = "claimed"
    /\ file' \in PayloadSource
    /\ IF file' = Gone
         THEN /\ HandleFailure(Error("SourcePayloadMissingError"), Unresolved)
              /\ UNCHANGED <<payload, resolved>>
         ELSE /\ payload' = ScopePayload(file', MetricSpanNames(metric))
              /\ resolved' = ResolveInputMapping(payload', metric.mapping)
              /\ step' = "resolved"
              /\ UNCHANGED <<status, delay, result>>
    /\ UNCHANGED <<metric, attempt, answer>>

(* applies_when.required_spans *)
Applies ==
    LET spans == ExtractSpans(payload) IN
    \A name \in metric.span_names :
        \E i \in DOMAIN spans : SpanHasIdentity(spans[i], name, SpanIdentityKeys)

NotApplicableRow == Upserted("NOT_APPLICABLE", 0)

SettleNotApplicable ==
    /\ step = "resolved"
    /\ ~Applies
    /\ Persist("NOT_APPLICABLE", 0, NotApplicableRow, resolved, TRUE)
    /\ UNCHANGED <<metric, attempt, payload, file, resolved, answer>>

MissContext ==
    /\ step = "resolved"
    /\ Applies
    /\ resolved.missing # {}
    /\ IF metric.on_missing_context = "not_applicable"
         THEN Persist("NOT_APPLICABLE", 0, NotApplicableRow, resolved, TRUE)
         ELSE HandleFailure(Error("MissingContextError"), resolved)
    /\ UNCHANGED <<metric, attempt, payload, file, resolved, answer>>

(* An ERROR is persisted as a retry, which writes the snapshot and no      *)
(* result, while attempts are left.                                        *)
Record(output) ==
    LET row == Upserted(output.end, output.score) IN
    CASE output.end = "raised" -> HandleFailure(output.raised, resolved)
      [] output.end = "ERROR" ->
           IF attempt < MaxAttempts
             THEN Persist("RETRY", BackoffForAttempt(attempt), result, resolved, TRUE)
             ELSE Persist("FAILED", 0, row, resolved, output.storable)
      [] OTHER -> Persist("DONE", 0, row, resolved, output.storable)

(* A judge that gets as far as its provider asks it. *)
Asks == metric.evaluator = "llm_judge" /\ DOMAIN resolved.values # {} /\ metric.params.sound

Evaluate ==
    /\ step = "resolved"
    /\ Applies
    /\ resolved.missing = {}
    /\ answer' \in IF Asks THEN Answers ELSE {None}
    /\ Record(EvaluatorRun(metric, resolved.values, answer'))
    /\ UNCHANGED <<metric, attempt, payload, file, resolved>>

(* The lease of a ticket whose thread is gone expires, and the sweep takes *)
(* it: no result, and no waiting.                                          *)
Recover ==
    /\ step = "lost"
    /\ Settle(IF attempt < MaxAttempts THEN "RETRY" ELSE "FAILED", 0, result)
    /\ UNCHANGED <<metric, attempt, payload, file, resolved, answer>>

Next == Claim \/ Load \/ SettleNotApplicable \/ MissContext \/ Evaluate \/ Recover

Spec == Init /\ [][Next]_vars

(***************************************************************************)
(* Properties                                                              *)
(***************************************************************************)

(* The token by which a path selects a span, None where it selects none or *)
(* selects it by position.                                                 *)
SelectedBy(path) ==
    LET token == IF Head(path).text = "spans" /\ Len(path) > 1 THEN path[2] ELSE Head(path)
    IN IF token.kind \in {"key", "select"} /\ token.text \notin ReservedSections
         THEN token ELSE None

Holders(spans, token) ==
    LET with(name, by) == {i \in DOMAIN spans : Get(spans[i], by) = Text(name)}
    IN IF token.kind = "select" THEN with(token.name, token.by)
       ELSE IF with(token.text, "name") # {} THEN with(token.text, "name")
       ELSE with(token.text, "span_id")

(* What a ticket is shown of a payload makes no difference to a key that   *)
(* selects a span by an identity, and such a key has a value only when     *)
(* exactly one span of the whole file is meant: a value is never taken     *)
(* from one of several runs of an agent.                                   *)
NamedKeysMeanTheFile ==
    step = "resolved" =>
        \A key \in DOMAIN metric.mapping :
            LET path == metric.mapping[key].path
                whole == ResolvePath(file, path)
            IN SelectedBy(path) # None =>
                 /\ ResolvePath(payload, path) = whole
                 /\ whole.code = "none" =>
                      Cardinality(Holders(RawSpans(file), SelectedBy(path))) = 1

(* A retry is granted only where another attempt may end differently: a    *)
(* provider was asked, or the database refused what there was to record.   *)
(* What the file, the metric or a deterministic evaluator decides is final.*)
(* The first retry waits for the first configured delay, and those beyond  *)
(* the end of the list for its last.                                       *)
RetriesAreJustified ==
    status = "RETRY" =>
        /\ attempt < MaxAttempts
        /\ answer # None \/ ~Storable(resolved)
        /\ Storable(resolved) /\ attempt = 1 => delay = Backoff[1]
        /\ Storable(resolved) /\ attempt >= Len(Backoff) => delay = Backoff[Len(Backoff)]

Judged(evaluator) == status = "DONE" /\ metric.evaluator = evaluator

Passed(evaluator) == Judged(evaluator) /\ result.status = "PASSED"

(* What a verdict says is so, all the way from the file or the answer it   *)
(* is about.  A required field is in the file and not empty; spans exist   *)
(* exactly when they are in the whole file; an expected tool was called    *)
(* and gave a response; and a judge that leaves the decision to a          *)
(* threshold between 0 and 1 is taken by its word, however far its score   *)
(* is outside of that scale.                                               *)
VerdictsAreEarned ==
    /\ Passed("required_fields") /\ metric.params.fields = {} /\ ~metric.params.allow_empty =>
         \A key \in DOMAIN metric.mapping :
            LET spec == metric.mapping[key]
                found == ResolvePath(file, spec.path)
            IN spec.required /\ spec.default = NoDefault /\ SelectedBy(spec.path) # None =>
                 found.code = "none" /\ ~IsEmpty(found.value)
    /\ Judged("span_exists") /\ metric.mapping["spans"].path = <<Key("spans")>>
         /\ metric.mapping["spans"].default = NoDefault =>
         LET spans == RawSpans(file) IN
         result.status = "PASSED" <=>
            \A name \in metric.params.required_spans :
                \E i \in DOMAIN spans : SpanHasIdentity(spans[i], name, SpanIdentityKeys)
    /\ Passed("tool_calls") /\ metric.params.require_response =>
         \A tool \in metric.params.expected :
            LET calls == Calls(resolved.values["tool_calls"]) IN
            \E i \in DOMAIN calls :
                /\ ToolName(calls[i]) = tool
                /\ \E key \in ResponseKeys : ~IsEmpty(Get(calls[i], key))
    /\ Judged("llm_judge") /\ answer.passed = "absent" /\ answer.score.kind = "number"
         /\ metric.params.pass_threshold \in 1 .. 100 =>
            (result.status = "PASSED" <=> answer.score.percent >= metric.params.pass_threshold)

(* As long as its runners live, a ticket ends with a result that says what *)
(* happened, whatever the judge, the provider or the file was like.  The   *)
(* exception: values the database cannot store, such as NaN, which make    *)
(* the record of the failure fail like that of the verdict.                *)
EndsWithResult ==
    status \in {"DONE", "FAILED", "NOT_APPLICABLE"} /\ result = NoResult => ~Storable(resolved)
=============================================================================
