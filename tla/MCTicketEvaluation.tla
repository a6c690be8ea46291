-------------------------- MODULE MCTicketEvaluation --------------------------
(***************************************************************************)
(* Small payload files, metrics and judge answers for TicketEvaluation.    *)
(***************************************************************************)
EXTENDS TicketEvaluation

(* The recursion of the resolver and of storing, closed.  (The LETs keep   *)
(* TLC's coverage from unfolding it.)                                      *)
TraverseOn(value, tokens) == LET reached == Traverse(value, tokens) IN reached
StorableOn(value) == LET storable == StorableValue(value) IN storable

(* Files: up to two spans, which may share a name, start in either order   *)
(* and hold a text, nothing, a NaN or tool calls; one may be named like    *)
(* the other's id.                                                         *)

Call(tool, response) == Object([name |-> Text(tool), response |-> Text(response)])
NaN == [kind |-> "number", integral |-> FALSE, finite |-> FALSE]

Outputs == {Null, Text("x"), NaN, List(<<Call("t", "x")>>),
            List(<<Call("t", ""), Call("u", "x")>>)}

SpanNamed(id, name, start, output) ==
    Object([name |-> Text(name), span_id |-> Text(id), output |-> output,
            started_at |-> [kind |-> "time", at |-> start]])

File(spans) ==
    Object([correlation |-> Object([session_id |-> Text("x")]),
            trace_context |-> Object([trace |-> Object([spans |-> List(spans)])])])

SmallFiles ==
    {Object([correlation |-> Null]), File(<< >>)}
      \cup {File(<<SpanNamed("s1", name, 1, output)>>) : name \in {"a", "b"}, output \in Outputs}
      \cup {File(<<SpanNamed("s1", first, 1, output), SpanNamed("s2", second, start, other)>>) :
              first \in {"a", "b"}, second \in {"a", "b", "s1"}, start \in {0, 2},
              output \in Outputs, other \in Outputs}

(* Mappings. *)

Required(path) ==
    [path |-> path, required |-> TRUE, type |-> "", nullable |-> FALSE, default |-> NoDefault]
Optional(path) == [Required(path) EXCEPT !.required = FALSE]

OutputOf(token) == <<token, Key("output")>>
OfA == OutputOf(Key("a"))
BehindSpans(token) == <<Key("spans")>> \o OutputOf(token)

Specs ==
    {Required(path) : path \in
        {OfA, BehindSpans(Key("b")), OutputOf(Select("name", "b", "name:b")),
         OutputOf(Select("span_id", "s2", "span_id:s2")), OutputOf(Key("s1")),
         OutputOf(Ordinal(1, "order:1")), BehindSpans(Ordinal(1, "order:1")),
         BehindSpans(Star), BehindSpans(Index(1, "1")), <<Key("spans")>>,
         <<Key("correlation"), Key("session_id")>>,
         <<Key("payload"), Key("trace_context"), Key("trace"), Key("spans"), Key("output")>>}}
      \cup {Optional(OfA), [Required(OfA) EXCEPT !.type = "array"],
            [Required(OfA) EXCEPT !.nullable = TRUE], [Required(OfA) EXCEPT !.default = Text("x")]}

(* A second key restricts what the first one is shown. *)
Mappings(main) ==
    {[key \in {main} |-> spec] : spec \in Specs}
      \cup {[key \in {main, "extra"} |->
               IF key = main THEN spec ELSE Optional(BehindSpans(Key("b")))] : spec \in
              {Required(OfA), Required(BehindSpans(Index(0, "0"))), Required(OutputOf(Key("s2")))}}

(* Metrics. *)

NoParams == [sound |-> TRUE, required_spans |-> {}]

FieldParams(fields, allowEmpty) == [fields |-> fields, allow_empty |-> allowEmpty] @@ NoParams
ToolParams(expected, forbidden, response) ==
    [expected |-> expected, forbidden |-> forbidden, min_calls |-> -1,
     require_response |-> response] @@ NoParams
JudgeParams(threshold) == [pass_threshold |-> threshold] @@ NoParams

Fields ==
    {<<"required_fields", FieldParams(fields, empty)>> : empty \in BOOLEAN,
        fields \in {{}, {[key |-> "tool_calls", sub |-> <<Index(0, "0"), Key("name")>>]}}}

Tools ==
    {<<"tool_calls", ToolParams(expected, {"u"}, response)>> : response \in BOOLEAN,
        expected \in {{}, {"t"}}}
      \cup {<<"tool_calls", ToolParams({"t", "u"}, {}, TRUE)>>,
            <<"tool_calls", [ToolParams({"t"}, {}, TRUE) EXCEPT !.sound = FALSE]>>}

Judges ==
    {<<"llm_judge", JudgeParams(70)>>, <<"llm_judge", JudgeParams(7000)>>,
     <<"llm_judge", [JudgeParams(70) EXCEPT !.sound = FALSE]>>}

Existences ==
    {<<"span_exists", [NoParams EXCEPT !.required_spans = names]>> : names \in {{}, {"a", "s2"}}}

MetricsWith(main, checks) ==
    {[evaluator |-> check[1], params |-> check[2], mapping |-> mapping,
      span_names |-> asks[1], on_missing_context |-> asks[2]] :
        check \in checks, mapping \in Mappings(main),
        asks \in {<<{}, "fail">>, <<{}, "not_applicable">>, <<{"b"}, "fail">>}}

SmallMetrics ==
    MetricsWith("tool_calls", Fields \cup Tools \cup Judges) \cup MetricsWith("spans", Existences)

(* Answers. *)

Verdict(passed, score, storable) ==
    [kind |-> "verdict", passed |-> passed, score |-> score, storable |-> storable]
Percentage(n) == [kind |-> "number", percent |-> n]

SomeAnswers ==
    {[kind |-> "unconfigured"], [kind |-> "unreachable"], [kind |-> "malformed"]}
      \cup {[kind |-> "http", status |-> s] : s \in {401, 418, 429}}
      \cup {[kind |-> "prose", storable |-> storable] : storable \in BOOLEAN}
      \cup {Verdict("absent", Percentage(n), TRUE) : n \in {-5, 69, 70, 150}}
      \cup {Verdict("absent", [kind |-> "nan"], storable) : storable \in BOOLEAN}
      \cup {Verdict(passed, [kind |-> "unusable"], TRUE) : passed \in {"absent", "truthy", "falsy"}}
      \cup {Verdict("falsy", Percentage(150), TRUE)}

Delays == <<5, 30>>
=============================================================================
