----------------------------- MODULE CheckOutcomes -----------------------------
(***************************************************************************)
(* What the evaluators make of the values a mapping gave them, how an      *)
(* exception is classified, and how long a retry waits.                    *)
(*                                                                         *)
(* An evaluation is a record: how it ended ("PASSED", "FAILED", "ERROR" or *)
(* "raised"), its score in percent, the exception of one that raised, and  *)
(* whether its evidence is storable: a jsonb column refuses NaN, the       *)
(* infinities and NUL characters, all of which json.dumps lets through.    *)
(***************************************************************************)
EXTENDS ContextPaths

CONSTANTS Backoff   \* RUNNER_RETRY_BACKOFF_SECONDS, a non-empty sequence

ASSUME BackoffAssumption == Backoff \in Seq(Nat) \ {<< >>}

Error(type) == [type |-> type, status |-> 0]
HttpError(status) == [type |-> "HTTPStatusError", status |-> status]

Percent(n, total) == (100 * n) \div total

Outcome(passed, score) ==
    [end |-> IF passed THEN "PASSED" ELSE "FAILED", score |-> score, raised |-> Error("none"),
     storable |-> TRUE]

Raised(error) == [Outcome(FALSE, 0) EXCEPT !.end = "raised", !.raised = error]

-----------------------------------------------------------------------------
(* required_fields *)

IsEmpty(value) ==
    \/ value.kind = "null"
    \/ value.kind = "string" /\ value.text = ""
    \/ value.kind = "list" /\ value.items = << >>
    \/ value.kind = "object" /\ DOMAIN value.fields = {}

(* One step of the walk into a value. *)
DigInto(found, token) ==
    IF found.code # "none" THEN found
    ELSE IF found.value.kind = "object" /\ token.text \in DOMAIN found.value.fields
      THEN Given(found.value.fields[token.text])
    ELSE IF found.value.kind = "list" /\ token.kind = "index" /\ token.at < Len(found.value.items)
      THEN Given(found.value.items[token.at + 1])
    ELSE Lost("MISSING_PATH")

Dig(value, path) ==
    LET found[n \in 0 .. Len(path)] ==
          IF n = 0 THEN Given(value) ELSE DigInto(found[n - 1], path[n])
    IN found[Len(path)]

(* A field is the key of a mapped value and a path inside it. *)
FieldPresent(values, allowEmpty, field) ==
    /\ field.key \in DOMAIN values
    /\ LET found == Dig(values[field.key], field.sub)
       IN found.code = "none" /\ (allowEmpty \/ ~IsEmpty(found.value))

(* Without params.fields the keys that were resolved are the fields. *)
CheckedFields(values, params) ==
    IF params.fields # {} THEN params.fields
    ELSE {[key |-> key, sub |-> << >>] : key \in DOMAIN values}

RequiredFields(values, params) ==
    LET fields == CheckedFields(values, params)
        present == {field \in fields : FieldPresent(values, params.allow_empty, field)}
    IN IF ~params.sound THEN Raised(Error("TypeError")) ELSE
       Outcome(present = fields,
               IF fields = {} THEN 0 ELSE Percent(Cardinality(present), Cardinality(fields)))

-----------------------------------------------------------------------------
(* tool_calls *)

NameKeys == <<"name", "tool", "tool_name", "function", "function_name">>
ResponseKeys == {"response", "result", "output", "tool_response", "return_value"}

NamedText(value) ==
    IF value.kind = "string" THEN value.text
    ELSE IF Get(value, "name").kind = "string" THEN Get(value, "name").text
    ELSE ""

(* The first key that holds a name, or an object with one; "" for none. *)
ToolName(call) ==
    LET text(key) == NamedText(Get(call, key))
        named == {i \in DOMAIN NameKeys : text(NameKeys[i]) # ""}
    IN IF named = {} THEN ""
       ELSE text(NameKeys[CHOOSE i \in named : \A j \in named : i <= j])

(* Faulty: an empty answer is an answer. *)
HasResponseKey(call) == call.kind = "object" /\ DOMAIN call.fields \cap ResponseKeys # {}

HasResponse(call) == \E key \in ResponseKeys : ~IsEmpty(Get(call, key))

Objects(items) == Kept(items, {i \in DOMAIN items : items[i].kind = "object"})

Calls(raw) ==
    CASE raw.kind = "object" -> <<raw>>
      [] raw.kind = "list"   -> Objects(raw.items)
      [] OTHER               -> << >>

MinCalls(params) ==
    IF params.min_calls # -1 THEN params.min_calls
    ELSE IF params.expected = {} THEN 1 ELSE 0

(* Calls of other tools than the expected ones need no response. *)
Unanswered(calls, params) ==
    {i \in DOMAIN calls :
        /\ params.require_response
        /\ params.expected # {} => ToolName(calls[i]) \in params.expected
        /\ ~HasResponse(calls[i])}

ToolCalls(values, params) ==
    LET raw == values["tool_calls"]
        calls == Calls(raw)
        observed == {ToolName(calls[i]) : i \in DOMAIN calls} \ {""}
        missing == params.expected \ observed
        satisfied == /\ Len(calls) >= MinCalls(params)
                     /\ missing = {}
                     /\ params.forbidden \cap observed = {}
                     /\ Unanswered(calls, params) = {}
        expected == Cardinality(params.expected)
    IN IF ~params.sound THEN Raised(Error("ValueError"))
       ELSE IF "tool_calls" \notin DOMAIN values THEN Raised(Error("InvalidEvaluatorConfigError"))
       ELSE IF raw.kind \notin {"null", "object", "list"} THEN Outcome(FALSE, 0)
       ELSE Outcome(satisfied,
                    IF satisfied THEN 100
                    ELSE IF expected = 0 THEN 0
                    ELSE Percent(expected - Cardinality(missing), expected))

-----------------------------------------------------------------------------
(* span_exists *)

(* An object is taken for spans by their agents: every field of it that is *)
(* an object is one, even where the object is a span itself.               *)
CoerceSpans(value) ==
    LET agents == SetToSeq({f \in DOMAIN value.fields : value.fields[f].kind = "object"})
        of(agent) == LET fields == value.fields[agent].fields IN
                     IF "agent_id" \in DOMAIN fields THEN fields
                     ELSE [f \in DOMAIN fields \cup {"agent_id"} |->
                              IF f = "agent_id" THEN Text(agent) ELSE fields[f]]
    IN IF value.kind = "list" THEN Objects(value.items)
       ELSE [i \in DOMAIN agents |-> Object(of(agents[i]))]

SpanExists(values, params) ==
    LET spans == CoerceSpans(values["spans"])
        found == {name \in params.required_spans :
                    \E i \in DOMAIN spans : SpanHasIdentity(spans[i], name, SpanIdentityKeys)}
    IN IF params.required_spans = {} \/ "spans" \notin DOMAIN values
         THEN Raised(Error("InvalidEvaluatorConfigError"))
       ELSE IF values["spans"].kind \notin {"list", "object"}
         THEN Raised(Error("InvalidEvaluatorConfigError"))
       ELSE Outcome(found = params.required_spans,
                    Percent(Cardinality(found), Cardinality(params.required_spans)))

-----------------------------------------------------------------------------
(* llm_judge *)

(* What came of asking: "unconfigured", an HTTP status, "unreachable", a   *)
(* "malformed" body, text without a JSON object ("prose") or a verdict.    *)
RetriedStatus == {408, 409, 425, 429, 500, 502, 503, 504}

AskingRaises(answer) ==
    CASE answer.kind = "unconfigured" -> Error("RuntimeError")
      [] answer.kind = "unreachable"  -> Error("TransientEvaluationError")
      [] answer.kind = "malformed"    -> Error("KeyError")
      [] answer.kind = "http"         -> IF answer.status \in RetriedStatus
                                           THEN Error("TransientEvaluationError")
                                           ELSE HttpError(answer.status)

(* float(), cut to [0, 1].  The text "nan" is a float no comparison holds  *)
(* of, so that min(1.0, score) is 1.0.                                     *)
JudgeScore(score) ==
    IF score.kind = "nan" \/ score.percent > 100 THEN 100
    ELSE IF score.percent < 0 THEN 0
    ELSE score.percent

(* bool() of whatever passed holds, null and the text "false" included;    *)
(* the score decides only where the key is absent.                         *)
JudgePassed(verdict, threshold) ==
    IF verdict.passed # "absent" THEN verdict.passed = "truthy"
    ELSE verdict.score.kind # "unusable" /\ JudgeScore(verdict.score) >= threshold

JudgeVerdict(verdict, threshold) ==
    LET passed == JudgePassed(verdict, threshold)
    IN Outcome(passed, IF verdict.score.kind # "unusable" THEN JudgeScore(verdict.score)
                       ELSE IF passed THEN 100 ELSE 0)

Unparseable == [Outcome(FALSE, 0) EXCEPT !.end = "ERROR"]

(* The answer is stored with the evidence. *)
LlmJudge(values, params, answer) ==
    IF DOMAIN values = {} THEN Raised(Error("InvalidEvaluatorConfigError"))
    ELSE IF ~params.sound THEN Raised(Error("ValueError"))
    ELSE IF answer.kind \notin {"prose", "verdict"} THEN Raised(AskingRaises(answer))
    ELSE [(IF answer.kind = "prose" THEN Unparseable
                                    ELSE JudgeVerdict(answer, params.pass_threshold))
            EXCEPT !.storable = answer.storable]

Evaluators == {"required_fields", "span_exists", "tool_calls", "llm_judge"}

(* The evaluator a metric names, on the values its ticket resolved. *)
EvaluatorRun(metric, values, answer) ==
    CASE metric.evaluator = "required_fields" -> RequiredFields(values, metric.params)
      [] metric.evaluator = "span_exists"     -> SpanExists(values, metric.params)
      [] metric.evaluator = "tool_calls"      -> ToolCalls(values, metric.params)
      [] metric.evaluator = "llm_judge"       -> LlmJudge(values, metric.params, answer)

-----------------------------------------------------------------------------
(* Failures *)

PermanentHttpStatus == {400, 401, 403, 404, 405, 422}

(* Faulty: knows its own errors, and takes all others for a glitch. *)
ClassifyOwnErrors(error) ==
    CASE error.type = "MissingContextError" -> "missing_context"
      [] error.type \in {"SourcePayloadMissingError", "InvalidEvaluatorConfigError"} -> "permanent"
      [] OTHER -> "transient"

(* What is not known to be permanent is transient. *)
ClassifyError(error) ==
    CASE error.type = "MissingContextError" -> "missing_context"
      [] error.type = "HTTPStatusError" ->
           IF error.status \in PermanentHttpStatus THEN "permanent" ELSE "transient"
      [] error.type \in {"SourcePayloadMissingError", "InvalidEvaluatorConfigError",
                         "ValueError", "TypeError", "KeyError"} -> "permanent"
      [] OTHER -> "transient"

(* The delay after the attempt that just failed.  The jitter a positive    *)
(* one gets is left out.                                                   *)
BackoffForAttempt(attempt) ==
    Backoff[IF attempt > Len(Backoff) THEN Len(Backoff) ELSE attempt]
=============================================================================
