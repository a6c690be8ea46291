---------------------------- MODULE MCJobCreation ----------------------------
(* Small instances of JobCreation for TLC. *)
EXTENDS JobCreation, TLC

CONSTANTS r1, r2, r3, r4, r5, k, agent, other

(* Three requests of one key, one of them with another body; one without a *)
(* key, of a priority that no column takes; and one with a refused key.    *)
Keys == (r1 :> k) @@ (r2 :> k) @@ (r3 :> k) @@ (r4 :> NoKey) @@ (r5 :> BadKey)
Body0 == [name |-> "a", priority |-> {}, attempts |-> {}]
Body1 == [name |-> "a", priority |-> {1}, attempts |-> {2}]
Body2 == [name |-> "a", priority |-> {MaxInteger + 1}, attempts |-> {}]
Bodies == (r1 :> Body0) @@ (r2 :> Body0) @@ (r3 :> Body1) @@ (r4 :> Body2) @@ (r5 :> Body0)

(* A folder that gives a job of four tickets. *)
Payload(a) == [kind |-> "payload", valid |-> TRUE, agent |-> a]
OtherFile(kind) == [kind |-> kind, valid |-> FALSE, agent |-> {}]
Metric == [form |-> "object", enabled |-> "true", wellFormed |-> TRUE, id |-> "m1",
           type |-> "deterministic", plugin |-> "tool_call", weight |-> 0,
           attempts |-> {}, policy |-> {}, version |-> TRUE]
Second == [Metric EXCEPT !.id = "m2", !.type = "llm", !.attempts = {2}, !.policy = {"skip"}]
Off == [Metric EXCEPT !.enabled = "false", !.wellFormed = FALSE]

One == <<Payload({agent})>>
Two == <<OtherFile("ignored"), Payload({agent}), Payload({agent})>>
Config(a, metrics) == [kind |-> "object", legacy |-> FALSE, agent |-> a, metrics |-> metrics]
Dataset(files, config) == [place |-> "folder", files |-> files, config |-> config]

Good == Dataset(Two, Config(agent, <<Metric, Off, Second>>))

(* Everything that may be wrong with the files, the config or one metric.  *)
BadFiles == {<<>>, <<OtherFile("ignored")>>, <<Payload({agent}), OtherFile("unreadable")>>,
             <<Payload({agent}), [Payload({agent}) EXCEPT !.valid = FALSE]>>,
             <<Payload({agent}), Payload({})>>, <<Payload({agent}), Payload({other})>>,
             <<Payload({other}), Payload({})>>, <<Payload({agent}), Payload({"name"})>>}
BadConfigs == {[kind |-> "missing"], [kind |-> "unreadable"],
               [Config(agent, <<Metric>>) EXCEPT !.legacy = TRUE],
               Config("name", <<Metric>>), Config(other, <<Metric>>)}
BadLists == {<<>>, <<Off>>, <<Metric, Second, Metric>>, <<Off, Metric, [Second EXCEPT !.id = "m1"]>>}
            \cup {<<Second, m>> :
                    m \in {[Metric EXCEPT !.form = "list"], [Metric EXCEPT !.enabled = "missing"],
                           [Metric EXCEPT !.wellFormed = FALSE], [Metric EXCEPT !.type = "unknown"],
                           [Metric EXCEPT !.plugin = "unknown"], [Metric EXCEPT !.weight = Huge],
                           [Metric EXCEPT !.attempts = {0}], [Metric EXCEPT !.policy = {"never"}],
                           [Metric EXCEPT !.version = FALSE]}}

Folders == {Good}
    \cup {Dataset(f, Config(agent, <<Metric>>)) : f \in BadFiles}
    \cup {Dataset(One, c) : c \in BadConfigs \cup {Config(agent, l) : l \in BadLists}}
    \cup {[Good EXCEPT !.place = "missing"], [Good EXCEPT !.place = "refused"]}
=============================================================================
