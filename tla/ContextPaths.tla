----------------------------- MODULE ContextPaths -----------------------------
(***************************************************************************)
(* How a check's input_mapping becomes the values its evaluator sees.      *)
(*                                                                         *)
(* A document is a JSON value: a record whose kind says which.  A path is  *)
(* the sequence of its tokens, as parse_path cuts it: [i] and .i are the   *)
(* same token.  Every token has its text; what else it may mean is in its  *)
(* kind: "index" (digits), "star", "order" (order:n) and "select" (an      *)
(* identity prefix such as name: or span_id:).                             *)
(***************************************************************************)
EXTENDS Integers, FiniteSets, SequencesExt, Subsequences

(* How Traverse goes on below what it has reached: by itself.  Given as a  *)
(* constant, so that nothing here is recursive; an instance puts Traverse  *)
(* in its place.                                                           *)
CONSTANT TraverseBelow(_, _)

Null == [kind |-> "null"]
Text(s) == [kind |-> "string", text |-> s]
List(items) == [kind |-> "list", items |-> items]
Object(fields) == [kind |-> "object", fields |-> fields]

Key(s) == [kind |-> "key", text |-> s]
Index(i, s) == [kind |-> "index", text |-> s, at |-> i]
Star == [kind |-> "star", text |-> "*"]
Ordinal(n, s) == [kind |-> "order", text |-> s, at |-> n]
Select(by, name, s) == [kind |-> "select", text |-> s, by |-> by, name |-> name]

SpanIdentityKeys == {"name", "agent_id", "agent_type", "span_id"}

ReservedSections ==
    {"payload", "agent_registry", "payload_metadata", "correlation", "trace_context", "spans"}

(* dict.get *)
Get(object, key) ==
    IF object.kind = "object" /\ key \in DOMAIN object.fields THEN object.fields[key] ELSE Null

-----------------------------------------------------------------------------
(* Spans *)

RawSpans(payload) ==
    LET raw == Get(Get(Get(payload, "trace_context"), "trace"), "spans")
    IN IF raw.kind = "list" THEN raw.items ELSE << >>

(* started_at is an instant, or something that is not a timestamp. *)
StartsBefore(a, b) ==
    LET start(span) == Get(span, "started_at")
    IN start(a).kind = "time" /\ (start(b).kind = "time" => start(a).at < start(b).at)

ComesBefore(spans, i, j) ==
    \/ StartsBefore(spans[i], spans[j])
    \/ ~StartsBefore(spans[j], spans[i]) /\ i < j

(* How many spans come before the one at i. *)
Rank(spans, i) == Cardinality({j \in DOMAIN spans : ComesBefore(spans, j, i)})

OrderSpans(spans) ==
    [k \in DOMAIN spans |-> spans[CHOOSE i \in DOMAIN spans : Rank(spans, i) = k - 1]]

IsSpan(value) == value.kind = "object" /\ DOMAIN value.fields # {}

ExtractSpans(payload) ==
    LET raw == RawSpans(payload) IN
    OrderSpans(Kept(raw, {i \in DOMAIN raw : IsSpan(raw[i])}))

SpanHasIdentity(span, wanted, keys) ==
    wanted # "" /\ \E key \in keys : Get(span, key) = Text(wanted)

(* scope_payload_to_spans: the payload with only those spans that carry    *)
(* one of the wanted names as some identity; whole when none is wanted.    *)
ScopePayload(payload, wanted) ==
    LET context == Get(payload, "trace_context")
        trace == Get(context, "trace")
        raw == RawSpans(payload)
        named == {i \in DOMAIN raw :
                    \E name \in wanted : SpanHasIdentity(raw[i], name, SpanIdentityKeys)}
        kept == List(Kept(raw, named))
    IN IF wanted = {} \/ Get(trace, "spans").kind # "list" THEN payload
       ELSE Object([payload.fields EXCEPT !["trace_context"] =
              Object([context.fields EXCEPT !["trace"] =
                Object([trace.fields EXCEPT !["spans"] = kept])])])

Given(value) == [code |-> "none", value |-> value]
Lost(code) == [code |-> code, value |-> Null]

TheOnly(spans, matches) ==
    IF Cardinality(matches) > 1 THEN Lost("AMBIGUOUS_SPAN")
    ELSE IF matches = {} THEN Lost("MISSING_SPAN")
    ELSE Given(spans[CHOOSE i \in matches : TRUE])

(* find_span.  A bare token is a name, or a span_id when nothing has that  *)
(* name; several spans with that id count as none.                         *)
FindSpan(spans, token) ==
    LET carrying(name, by) == {i \in DOMAIN spans : SpanHasIdentity(spans[i], name, {by})}
        named == carrying(token.text, "name")
        identified == carrying(token.text, "span_id")
        either == IF named # {} THEN named
                  ELSE IF Cardinality(identified) = 1 THEN identified ELSE {}
    IN CASE token.kind = "select" -> TheOnly(spans, carrying(token.name, token.by))
         [] token.kind = "order" -> IF token.at \in DOMAIN spans
                                      THEN Given(spans[token.at]) ELSE Lost("MISSING_SPAN")
         [] OTHER -> TheOnly(spans, either)

-----------------------------------------------------------------------------
(* Paths *)

(* A wildcard drops the items that lack the rest of the path. *)
OverItems(list, rest) ==
    LET reached == [i \in DOMAIN list.items |-> TraverseBelow(list.items[i], rest)]
        given(r) == r.code = "none"
        mapped == SelectSeq(reached, given)
    IN IF rest = << >> THEN Given(list)
       ELSE IF mapped = << >> /\ list.items # << >> THEN Lost("MISSING_PATH")
       ELSE Given(List([i \in DOMAIN mapped |-> mapped[i].value]))

(* A key maps over the objects of a list; those that lack it give null. *)
KeyOfItems(list, key) ==
    LET isObject(item) == item.kind = "object"
        objects == SelectSeq(list.items, isObject)
    IN List([i \in DOMAIN objects |-> Get(objects[i], key)])

Traverse(value, tokens) ==
    IF tokens = << >> THEN Given(value)
    ELSE LET token == Head(tokens)
             rest == Tail(tokens)
         IN CASE token.kind = "star" ->
                   IF value.kind = "list" THEN OverItems(value, rest) ELSE Lost("INVALID_TYPE")
              [] value.kind = "list" /\ token.kind = "index" ->
                   IF token.at < Len(value.items)
                     THEN TraverseBelow(value.items[token.at + 1], rest) ELSE Lost("MISSING_PATH")
              [] value.kind = "list" /\ token.kind \notin {"index", "star"} ->
                   LET mapped == KeyOfItems(value, token.text) IN
                   IF mapped.items = << >> THEN Lost("MISSING_PATH") ELSE TraverseBelow(mapped, rest)
              [] value.kind = "object" /\ token.kind # "star" ->
                   IF token.text \in DOMAIN value.fields
                     THEN TraverseBelow(value.fields[token.text], rest) ELSE Lost("MISSING_PATH")
              [] OTHER -> Lost("MISSING_PATH")

InSpan(spans, token, rest) ==
    LET found == FindSpan(spans, token)
    IN IF found.code = "none" THEN Traverse(found.value, rest) ELSE found

ResolvePath(payload, path) ==
    LET head == Head(path)
        rest == Tail(path)
        spans == ExtractSpans(payload)
        section == Get(payload, head.text)
    IN CASE head.text = "payload" -> Traverse(payload, rest)
         [] head.text = "spans" ->
              IF rest = << >> \/ Head(rest).kind \in {"star", "index"}
                THEN Traverse(List(spans), rest)
                ELSE InSpan(spans, Head(rest), Tail(rest))
         [] head.text \in ReservedSections \ {"payload", "spans"} ->
              IF section = Null THEN Lost("MISSING_PATH") ELSE Traverse(section, rest)
         [] OTHER -> InSpan(spans, head, rest)

-----------------------------------------------------------------------------
(* Mappings: key |-> [path, required, type, nullable, default] *)

NoDefault == [kind |-> "none"]

CheckType(value, expected) ==
    CASE expected = "string"  -> value.kind = "string"
      [] expected = "number"  -> value.kind = "number"
      [] expected = "integer" -> value.kind = "number" /\ value.integral
      [] expected = "boolean" -> value.kind = "boolean"
      [] expected = "object"  -> value.kind = "object"
      [] expected = "array"   -> value.kind = "list"
      [] OTHER                -> TRUE

ResolveKey(payload, spec) ==
    LET r == ResolvePath(payload, spec.path)
    IN IF r.code = "none" /\ r.value = Null /\ ~spec.nullable THEN Lost("NULL_VALUE")
       ELSE IF r.code = "none" /\ ~CheckType(r.value, spec.type) THEN Lost("INVALID_TYPE")
       ELSE r

(* A default stands in for whatever goes wrong; without one a required key *)
(* is missing and an optional one is left out.                             *)
ResolveInputMapping(payload, mapping) ==
    LET got == [key \in DOMAIN mapping |-> ResolveKey(payload, mapping[key])]
        resolves(key) == got[key].code = "none"
        defaults(key) == mapping[key].default # NoDefault
        there == {key \in DOMAIN mapping : resolves(key) \/ defaults(key)}
    IN [values |-> [key \in there |-> IF resolves(key) THEN got[key].value
                                                       ELSE mapping[key].default],
        missing |-> {key \in DOMAIN mapping \ there : mapping[key].required}]

(* The name a path gives of the span it wants, or "" when it gives none.   *)
(* Behind "spans." an order is taken for a name.                           *)
SpanToken(path) ==
    LET head == Head(path)
        second == path[2]
        nameOf(token) == IF token.kind = "select" THEN token.name ELSE token.text
    IN IF head.kind = "select" THEN head.name
       ELSE IF head.text = "spans" /\ Len(path) > 1
         THEN IF second.kind \in {"star", "index"} THEN "" ELSE nameOf(second)
       ELSE IF head.kind = "order" \/ head.text \in ReservedSections THEN ""
       ELSE head.text

TokensOf(mapping) == {SpanToken(mapping[key].path) : key \in DOMAIN mapping} \ {""}

(* Faulty: only looks into the mapping when the metric names no span. *)
SpanNamesOrTokens(metric) ==
    IF metric.span_names # {} THEN metric.span_names \cup metric.params.required_spans
    ELSE TokensOf(metric.mapping) \cup metric.params.required_spans

(* The spans a metric's ticket may see: those it lists, those its mapping  *)
(* names, and those in its parameters.                                     *)
MetricSpanNames(metric) ==
    metric.span_names \cup TokensOf(metric.mapping) \cup metric.params.required_spans
=============================================================================
