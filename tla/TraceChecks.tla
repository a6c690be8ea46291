----------------------------- MODULE TraceChecks -----------------------------
(***************************************************************************)
(* A trace on its way through the program: the payload contract accepts or *)
(* refuses it, and the checks of an accepted one see its spans in the      *)
(* order they started, restricted to those the metric names.               *)
(***************************************************************************)
EXTENDS SpanTree, WorkflowOrder

CONSTANTS
    Name,       \* what spans are called
    Agent,      \* values of the other identity fields
    Scopes,     \* what metrics write into span_names
    MaxOrder    \* bound on the length of expected_order

ASSUME ChecksAssumption == NoName \notin Name \cup Agent /\ MaxOrder \in Nat

VARIABLES
    trace,      \* the spans in order of started_at, by their identities
    check,      \* the parameters of the evaluated check
    scope,      \* its span_names
    outcome     \* what the check came to

checkVars == <<trace, check, scope, outcome>>
vars == <<treeVars, checkVars>>

Orders == UNION {[1 .. n -> Name \cup Agent] : n \in 1 .. MaxOrder}

Checks == [expected : Orders, mode : {"strict", "subsequence"}, ignoreMissing : BOOLEAN]

NoOutcome(why) == [passed |-> FALSE, found |-> 0, asked |-> 0, why |-> why]

Init ==
    /\ TreeInit
    /\ trace = << >>
    /\ check = [expected |-> << >>, mode |-> "subsequence", ignoreMissing |-> FALSE]
    /\ scope = {}
    /\ outcome = NoOutcome("none")

Contract == TreeStep /\ UNCHANGED checkVars

(* The contract requires a name of every span and nothing of the other     *)
(* identities.  Every start order is possible, so any sequence of names is.*)
Identified == [name : Name, agent : Agent \cup {NoName}]

(* Faulty: a ticket sees the spans its metric names, and no others.        *)
NamedOnly(named, expected) == named

(* _metric_span_names: the names the metric lists, and those of its params.*)
Visible(named, expected) == named \cup ToSet(expected)

(* applies_when, which profile resolution writes: every named span is in   *)
(* the trace, else the ticket is NOT_APPLICABLE and nothing is evaluated.  *)
Applies(seenTrace, named) == \A name \in named : IsPresent(seenTrace, name)

TicketOutcome(seenTrace, named, params) ==
    IF Applies(seenTrace, named)
      THEN OrderOutcome(seenTrace, params)
      ELSE NoOutcome("not_applicable")

(* execute_ticket on a ticket of an accepted payload: scope the payload,   *)
(* resolve the mapping "spans": "spans", evaluate.                         *)
Evaluate ==
    /\ answer = "accepted"
    /\ outcome.why = "none"
    /\ trace' \in [DOMAIN spans -> Identified]
    /\ check' \in Checks
    /\ scope' \in Scopes
    /\ outcome' = LET visible == Visible(scope', check'.expected)
                  IN TicketOutcome(Scope(trace', visible), scope', check')
    /\ UNCHANGED treeVars

Next == Contract \/ Evaluate

Spec == Init /\ [][Next]_vars /\ WF_vars(Contract)

(***************************************************************************)
(* Properties                                                              *)
(***************************************************************************)

Explanation == {"missing", "order", "satisfied"}

(* Types; the contract answers exactly when its loops have ended. *)
TypeOK ==
    /\ stage \in {"register", "walk", "done"}
    /\ at \in 1 .. MaxSpans + 1 /\ current \in 1 .. MaxSpans + 1
    /\ seen \subseteq SpanId
    /\ answer \in Refusal \cup {"none", "accepted"}
    /\ stage = "done" <=> answer # "none"
    /\ outcome \in [passed : BOOLEAN, found : 0 .. MaxOrder, asked : 0 .. MaxOrder,
                    why : {"none", "not_applicable"} \cup Explanation]

Evaluated == outcome.why \in Explanation

Seen == Scope(trace, Visible(scope, check.expected))

Asked == IF check.ignoreMissing THEN Present(Seen, check.expected) ELSE check.expected

(* The greedy loop finds an order whenever there is one: a subsequence     *)
(* check passes exactly when the names it compares can be assigned to      *)
(* positions of the observed sequence in increasing order, repeated names  *)
(* to different ones.                                                      *)
PassesWhenEmbedded ==
    Evaluated /\ check.mode = "subsequence" =>
        (outcome.passed <=> Embeds(Asked, Actual(Seen)))

(* What a ticket is not shown makes no difference to a relative order: the *)
(* verdict on the spans the metric names is that on the whole trace.       *)
ScopeKeepsVerdict ==
    outcome.why # "none" /\ check.mode = "subsequence" =>
        outcome = TicketOutcome(trace, scope, check)
=============================================================================
