------------------------------ MODULE SpanTree ------------------------------
(***************************************************************************)
(* The check a payload's spans pass before a job is created for it         *)
(* (_validate_span_tree): a first loop registers every span by its id, a   *)
(* second one walks from every span up to a root.  Of a span only the id,  *)
(* the parent and whether its other fields are as required is kept.        *)
(***************************************************************************)
EXTENDS Naturals, Sequences, FiniteSetsExt

CONSTANTS
    SpanId,     \* well-formed span ids
    NoParent,   \* parent_span_id: null
    MaxSpans    \* bound on the length of a trace

ASSUME TreeAssumption == NoParent \notin SpanId /\ MaxSpans \in Nat

VARIABLES
    spans,      \* trace_context.trace.spans
    stage,      \* "register", "walk" or "done"
    at,         \* the index of the span either loop is at
    current,    \* the index of the span the walk has climbed to
    seen,       \* the parent ids the walk has met
    answer      \* "none", "accepted" or what the payload is refused for

treeVars == <<spans, stage, at, current, seen, answer>>

Span == [id : SpanId, parent : SpanId \cup {NoParent}, sound : BOOLEAN]

Refusal == {"malformed", "duplicate", "rootless", "cycle", "orphan"}

TreeInit ==
    /\ spans \in UNION {[1 .. n -> Span] : n \in 0 .. MaxSpans}
    /\ stage = "register"
    /\ at = 1
    /\ current = 1
    /\ seen = {}
    /\ answer = "none"

(* Faulty: the loop ends and the error is swallowed. *)
FinishSilently(verdict) == stage' = "done" /\ UNCHANGED <<answer, at, current, seen>>

Finish(verdict) ==
    /\ stage' = "done"
    /\ answer' = verdict
    /\ UNCHANGED <<at, current, seen>>

Registered(i) == \E j \in 1 .. i - 1 : spans[j].id = spans[i].id

HasRoot == \E i \in DOMAIN spans : spans[i].parent = NoParent

(* The first loop, one span at a time, and the root check after it. *)
Register ==
    /\ stage = "register"
    /\ at <= Len(spans)
    /\ IF Registered(at) THEN Finish("duplicate")
       ELSE IF ~spans[at].sound THEN Finish("malformed")
       ELSE at' = at + 1 /\ UNCHANGED <<stage, current, seen, answer>>
    /\ UNCHANGED spans

StartWalks ==
    /\ stage = "register"
    /\ at > Len(spans)
    /\ IF spans # << >> /\ ~HasRoot
         THEN Finish("rootless")
         ELSE /\ stage' = "walk"
              /\ at' = 1
              /\ current' = 1
              /\ UNCHANGED <<seen, answer>>
    /\ UNCHANGED spans

(* Faulty: knows a span that is its own parent, and no longer cycle. *)
ClimbedToItself(parent) == parent = spans[current].id

Climbed(parent) == parent \in seen \/ parent = spans[current].id

(* by_id: the first loop let no id pass twice. *)
Holders(id) == {i \in DOMAIN spans : spans[i].id = id}

Orphan(parent) == Holders(parent) = {}

Walking == stage = "walk" /\ at <= Len(spans)

(* Faulty: climbs as long as the parent is in the trace. *)
AtEdge == Holders(spans[current].parent) = {}

AtRoot == spans[current].parent = NoParent

Climb ==
    /\ Walking /\ ~AtRoot
    /\ LET parent == spans[current].parent IN
       IF Climbed(parent) THEN Finish("cycle")
       ELSE IF Orphan(parent) THEN Finish("orphan")
       ELSE /\ seen' = seen \cup {parent}
            /\ current' = Min(Holders(parent))
            /\ UNCHANGED <<stage, at, answer>>
    /\ UNCHANGED spans

NextWalk ==
    /\ Walking /\ AtRoot
    /\ at' = at + 1
    /\ current' = at + 1
    /\ seen' = {}
    /\ UNCHANGED <<spans, stage, answer>>

Accept ==
    /\ stage = "walk"
    /\ at > Len(spans)
    /\ Finish("accepted")
    /\ UNCHANGED spans

TreeStep == Register \/ StartWalks \/ Climb \/ NextWalk \/ Accept

(***************************************************************************)
(* Properties                                                              *)
(***************************************************************************)

(* Ids are unique and every chain of parents ends at a root: each span has *)
(* a depth one greater than that of its parent, which is in the trace.     *)
Forest ==
    /\ \A i, j \in DOMAIN spans : spans[i].id = spans[j].id => i = j
    /\ \E depth \in [DOMAIN spans -> 0 .. Len(spans)] :
         \A i \in DOMAIN spans :
            \/ spans[i].parent = NoParent /\ depth[i] = 0
            \/ \E j \in DOMAIN spans :
                  spans[j].id = spans[i].parent /\ depth[i] = depth[j] + 1

(* The contract accepts exactly the traces whose spans are well-formed and *)
(* make a forest: any number of roots, siblings and levels, no span that   *)
(* is its own ancestor, none whose parent is not part of the trace.        *)
AcceptsForests ==
    stage = "done" =>
        (answer = "accepted" <=> Forest /\ \A i \in DOMAIN spans : spans[i].sound)

(* The walk ends whatever the parents are, cycles a span merely leads into *)
(* included: creating a job never hangs on its payload.                    *)
WalkEnds == <>(stage = "done")
=============================================================================
