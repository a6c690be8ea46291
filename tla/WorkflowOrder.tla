--------------------------- MODULE WorkflowOrder ---------------------------
(***************************************************************************)
(* The deterministic check on the order of spans                           *)
(* (evaluators/deterministic/workflow_order.py), and the restriction of a  *)
(* payload to the spans a metric names.  A span is a record of two of its  *)
(* identity fields: name, which is looked at first, and agent, which       *)
(* stands for the others and may be absent.                                *)
(***************************************************************************)
EXTENDS Subsequences, SequencesExt

CONSTANT NoName     \* an identity field that is absent or empty

Identities(span) == {span.name, span.agent} \ {NoName}

(* span_has_identity *)
HasIdentity(span, wanted) == wanted \in Identities(span)

InScope(span, wanted) == \E token \in wanted : HasIdentity(span, token)

(* scope_payload_to_spans: a metric that names no span sees all of them. *)
Scope(trace, wanted) ==
    IF wanted = {} THEN trace
                   ELSE Kept(trace, {i \in DOMAIN trace : InScope(trace[i], wanted)})

(* span_identities: the first identity of each span that has one. *)
FirstIdentity(span) == IF span.name # NoName THEN span.name ELSE span.agent

Actual(trace) ==
    Kept([i \in DOMAIN trace |-> FirstIdentity(trace[i])],
         {i \in DOMAIN trace : Identities(trace[i]) # {}})

IsPresent(trace, name) == \E i \in DOMAIN trace : HasIdentity(trace[i], name)

Present(trace, expected) ==
    Kept(expected, {i \in DOMAIN expected : IsPresent(trace, expected[i])})

(* Faulty: lets one span satisfy two expected names in a row. *)
CursorKept(actual, cursor, name) ==
    LET hits == {i \in cursor .. Len(actual) : actual[i] = name} IN
    IF hits = {} THEN Len(actual) + 2 ELSE Min(hits)

(* One round of the greedy loop: the position behind the next occurrence   *)
(* of the name, or beyond every position when there is none.               *)
Advance(actual, cursor, name) ==
    LET hits == {i \in cursor .. Len(actual) : actual[i] = name} IN
    IF hits = {} THEN Len(actual) + 2 ELSE Min(hits) + 1

InRelativeOrder(actual, comparable) ==
    LET cursor[k \in 0 .. Len(comparable)] ==
          IF k = 0 THEN 1 ELSE Advance(actual, cursor[k - 1], comparable[k])
    IN cursor[Len(comparable)] <= Len(actual) + 1

(* Spans behind the expected ones are not looked at. *)
InStrictOrder(actual, comparable, missing) ==
    IsPrefix(comparable, actual) /\ ~missing

(* WorkflowOrderEvaluator.evaluate.  The score of a failed check is the    *)
(* share found of asked.                                                   *)
OrderOutcome(trace, check) ==
    LET actual == Actual(trace)
        present == Present(trace, check.expected)
        missing == Len(present) < Len(check.expected)
        comparable == IF check.ignoreMissing THEN present ELSE check.expected
        ordered == IF check.mode = "strict"
                     THEN InStrictOrder(actual, comparable, missing)
                     ELSE InRelativeOrder(actual, comparable)
        passed == ordered /\ (check.ignoreMissing \/ ~missing)
        asked == Len(check.expected)
    IN [passed |-> passed,
        found  |-> IF passed THEN asked ELSE Len(present),
        asked  |-> asked,
        why    |-> IF missing /\ ~check.ignoreMissing THEN "missing"
                   ELSE IF ordered THEN "satisfied" ELSE "order"]

(* Reference: an increasing assignment of positions to the expected names. *)
Embeds(expected, actual) ==
    \E place \in [DOMAIN expected -> DOMAIN actual] :
        /\ \A i \in DOMAIN expected : actual[place[i]] = expected[i]
        /\ \A i, j \in DOMAIN expected : i < j => place[i] < place[j]
=============================================================================
