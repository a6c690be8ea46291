----------------------------- MODULE DatasetPlan -----------------------------
(***************************************************************************)
(* What create_job makes of a dataset folder: the payload files it reads,  *)
(* the metrics its config.json defines, and the tickets it plans, one per  *)
(* payload and enabled metric, or the status it refuses the request with.  *)
(*                                                                         *)
(* A folder is [place, files, config].  Its place is "folder", "missing"   *)
(* or "refused" (not the name of a folder under the root, not listable).   *)
(* Its files are in the order of their names, each [kind, valid, agent]:   *)
(* "ignored" (hidden, a directory, another suffix), "unreadable" (not a    *)
(* non-empty JSON object in UTF-8) or "payload".  A config of kind         *)
(* "object" also has [legacy, agent, metrics], and a metric is [form,      *)
(* enabled, wellFormed, id, type, plugin, weight, attempts, policy,        *)
(* version].  An optional value is a set of at most one.                   *)
(* Definitions commented "Faulty" serve as in TicketLifecycle.             *)
(***************************************************************************)
EXTENDS Naturals, Sequences, FiniteSets

CONSTANTS
    Uuid,               \* the agent ids that are UUIDs
    Huge,               \* an infinite weight: int() raises OverflowError
    RunnerMaxAttempts,  \* runner_max_attempts
    DefaultPolicy       \* default_on_missing_context

Deterministic == {"required_fields", "workflow_order", "span_exists", "tool_calls"}
Evaluators == Deterministic \cup {"llm_judge"}

(* resolve_evaluator_name, for names that are lower case already. *)
ResolveEvaluatorName(name) ==
    CASE name \in {"required_field", "required_output"} -> "required_fields"
      [] name = "workflow" -> "workflow_order"
      [] name \in {"agent_span_exists", "span_existence"} -> "span_exists"
      [] name \in {"tool_call", "tool_call_exists", "tool_response_exists"} -> "tool_calls"
      [] name \in {"llm", "judge"} -> "llm_judge"
      [] OTHER -> name

(* The least index that satisfies the set of indices bad, if there is one. *)
First(bad) == CHOOSE i \in bad : \A k \in bad : i <= k

-----------------------------------------------------------------------------
(* Metrics.  The outcome of a step is 0, or the status it is refused with: *)
(* 400, or 500 for an exception that no handler expects.                   *)

(* _metric_definition: the evaluator that metricType and the plugin name. *)
EvaluatorOf(m) ==
    IF m.type \in {"llm_judge", "llm"} THEN "llm_judge"
    ELSE IF m.type = "deterministic" THEN ResolveEvaluatorName(m.plugin)
    ELSE ResolveEvaluatorName(m.type)

DefinitionOutcome(m) ==
    IF ~m.wellFormed \/ EvaluatorOf(m) \notin Evaluators THEN 400
    ELSE IF m.weight = Huge THEN 500
    ELSE 0

NotApplicableNames == {"not_applicable", "na", "skip"}
FailNames == {"fail", "failed", "error"}

(* _normalize_policy. *)
NormalizePolicy(given) ==
    IF given = {} THEN DefaultPolicy
    ELSE IF given \subseteq NotApplicableNames THEN "not_applicable"
    ELSE "fail"

(* normalize_metric_definition, by way of freeze_metric.  A number of      *)
(* attempts is always filled in.                                           *)
NormalizeOutcome(m) ==
    IF \/ \E n \in m.attempts : n < 1
       \/ ~(m.policy \subseteq NotApplicableNames \cup FailNames)
      THEN 400 ELSE 0

Normalized(m) ==
    [metric    |-> m.id,
     evaluator |-> EvaluatorOf(m),
     weight    |-> m.weight,
     attempts  |-> IF m.attempts = {} THEN RunnerMaxAttempts
                                      ELSE CHOOSE n \in m.attempts : TRUE,
     policy    |-> NormalizePolicy(m.policy)]

(* Entries that are switched off are passed over unseen. *)
SwitchedOff(m) == m.form = "object" /\ m.enabled = "false"

(* What happens to the i-th entry of the metrics list. *)
EntryOutcome(metrics, i) ==
    LET m == metrics[i]
        taken == {k \in 1 .. i - 1 : ~SwitchedOff(metrics[k])} IN
    IF m.form # "object" THEN 400
    ELSE IF SwitchedOff(m) THEN 0
    ELSE IF m.enabled # "true" THEN 400
    ELSE IF DefinitionOutcome(m) # 0 THEN DefinitionOutcome(m)
    ELSE IF NormalizeOutcome(m) # 0 THEN NormalizeOutcome(m)
    ELSE IF \E k \in taken : metrics[k].id = m.id THEN 400
    ELSE IF ~m.version THEN 400
    ELSE 0

(* _metrics_from_config stops at the first entry that it refuses. *)
MetricsOutcome(metrics) ==
    LET bad == {i \in DOMAIN metrics : EntryOutcome(metrics, i) # 0} IN
    IF bad # {} THEN EntryOutcome(metrics, First(bad))
    ELSE IF \A i \in DOMAIN metrics : SwitchedOff(metrics[i]) THEN 400
    ELSE 0

(* metrics_for_agent, for the agent a payload names. *)
AgentOutcome(config, agent) ==
    IF config.legacy \/ config.agent \notin Uuid \/ agent \notin Uuid THEN 400
    ELSE IF config.agent # agent THEN 404
    ELSE MetricsOutcome(config.metrics)

(* Faulty: the first entry that is switched off ends the list. *)
EnabledUpToOff(config) ==
    {k \in DOMAIN config.metrics : \A l \in 1 .. k : ~SwitchedOff(config.metrics[l])}

Enabled(config) == {k \in DOMAIN config.metrics : ~SwitchedOff(config.metrics[k])}

Metrics(config) == {Normalized(config.metrics[k]) : k \in Enabled(config)}

-----------------------------------------------------------------------------
(* The folder.                                                             *)

IsList(list) == Len(list) \in Nat /\ DOMAIN list = 1 .. Len(list)

IsFolder(folder) ==
    /\ IsList(folder.files)
    /\ \A i \in DOMAIN folder.files : \A a, b \in folder.files[i].agent : a = b
    /\ folder.config.kind = "object" => IsList(folder.config.metrics)

(* resolve_dataset_dir and read_dataset_folder. *)
ReadOutcome(folder) ==
    IF folder.place = "missing" THEN 404
    ELSE IF \/ folder.place = "refused"
            \/ \E i \in DOMAIN folder.files : folder.files[i].kind = "unreadable"
            \/ \A i \in DOMAIN folder.files : folder.files[i].kind # "payload"
            \/ folder.config.kind # "object"
      THEN 400 ELSE 0

PayloadFiles(folder) == {i \in DOMAIN folder.files : folder.files[i].kind = "payload"}

(* validate_payload, extract_agent_id, metrics_for_agent. *)
PayloadOutcome(folder, i) ==
    IF ~folder.files[i].valid \/ folder.files[i].agent = {} THEN 400
    ELSE AgentOutcome(folder.config, CHOOSE a \in folder.files[i].agent : TRUE)

(* The status a request is refused with, by the first payload that cannot  *)
(* be planned, or 0.                                                       *)
Outcome(folder) ==
    IF ReadOutcome(folder) # 0 THEN ReadOutcome(folder)
    ELSE LET bad == {i \in PayloadFiles(folder) : PayloadOutcome(folder, i) # 0} IN
         IF bad # {} THEN PayloadOutcome(folder, First(bad)) ELSE 0

(* A ticket.  The max_attempts of the request would apply to a definition  *)
(* without a number of attempts; there is none.                            *)
TicketOf(i, m, body) ==
    [file |-> i, metric |-> m.metric, evaluator |-> m.evaluator,
     priority |-> IF body.priority = {} THEN m.weight
                                        ELSE CHOOSE p \in body.priority : TRUE,
     attempts |-> m.attempts, policy |-> m.policy]

(* The tickets of a folder that is not refused. *)
Tickets(folder, body) ==
    {TicketOf(i, m, body) : i \in PayloadFiles(folder), m \in Metrics(folder.config)}
=============================================================================
