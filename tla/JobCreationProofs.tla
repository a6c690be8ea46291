-------------------------- MODULE JobCreationProofs --------------------------
(***************************************************************************)
(* The safety invariants of JobCreation hold for any requests, keys,       *)
(* bodies and readings of the datasets.  IInv is inductive: per request it *)
(* says what its row looks like at each point of its handler (Local) and   *)
(* why a second attempt finds the job that refused the first (Refused);    *)
(* across requests, that no two rows carry the same key, committed or not. *)
(* First comes what DatasetPlan plans for every folder: one that is not    *)
(* refused gives exactly one ticket for every payload and enabled metric.  *)
(***************************************************************************)
EXTENDS JobCreation, SubsequenceProofs, FiniteSetTheorems

(* The first of the entries that are refused exists. *)
LEMMA FirstExists ==
    ASSUME NEW bad, bad \subseteq Nat, bad # {}
    PROVE  First(bad) \in bad
BY LeastElement DEF First

(* Whatever a folder holds, it is planned or refused with one of three     *)
(* statuses.                                                               *)
LEMMA OutcomeRange ==
    ASSUME NEW folder
    PROVE  Outcome(folder) \in {0, 400, 404, 500}
<1>1. \A metrics, i : EntryOutcome(metrics, i) \in {0, 400, 500}
  BY DEF EntryOutcome, DefinitionOutcome, NormalizeOutcome
<1>2. \A metrics : MetricsOutcome(metrics) \in {0, 400, 500}
  BY <1>1 DEF MetricsOutcome
<1>3. \A i : PayloadOutcome(folder, i) \in {0, 400, 404, 500}
  BY <1>2 DEF PayloadOutcome, AgentOutcome
<1>4. ReadOutcome(folder) \in {0, 400, 404}
  BY DEF ReadOutcome
<1> QED
  BY <1>3, <1>4 DEF Outcome

(* A list of metrics is accepted only if each of its entries is.           *)
LEMMA AcceptedMetrics ==
    ASSUME NEW metrics, IsList(metrics), MetricsOutcome(metrics) = 0
    PROVE  /\ \A k \in DOMAIN metrics : EntryOutcome(metrics, k) = 0
           /\ \E k \in DOMAIN metrics : ~SwitchedOff(metrics[k])
<1> DEFINE bad == {k \in DOMAIN metrics : EntryOutcome(metrics, k) # 0}
<1>1. bad \subseteq Nat
  BY DEF IsList
<1>2. bad = {}
  BY <1>1, FirstExists DEF MetricsOutcome
<1> QED
  BY <1>2 DEF MetricsOutcome

(* In an accepted list, the entries that are enabled are those whose flag  *)
(* is not false.                                                           *)
LEMMA EnabledEntries ==
    ASSUME NEW config, IsList(config.metrics), MetricsOutcome(config.metrics) = 0
    PROVE  Enabled(config) = {k \in DOMAIN config.metrics : config.metrics[k].enabled # "false"}
<1>1. \A k \in DOMAIN config.metrics : config.metrics[k].form = "object"
  BY AcceptedMetrics DEF EntryOutcome
<1> QED
  BY <1>1 DEF Enabled, SwitchedOff

(* The entries that are not switched off have different ids.               *)
LEMMA MetricIdsDiffer ==
    ASSUME NEW config, IsList(config.metrics), MetricsOutcome(config.metrics) = 0,
           NEW k \in Enabled(config), NEW l \in Enabled(config),
           config.metrics[k].id = config.metrics[l].id
    PROVE  k = l
<1>1. /\ k \in DOMAIN config.metrics /\ l \in DOMAIN config.metrics
      /\ ~SwitchedOff(config.metrics[k]) /\ ~SwitchedOff(config.metrics[l])
      /\ k \in Nat \ {0} /\ l \in Nat \ {0}
  BY DEF Enabled, IsList
<1>2. /\ EntryOutcome(config.metrics, k) = 0
      /\ EntryOutcome(config.metrics, l) = 0
  BY <1>1, AcceptedMetrics
<1>3. ~(l \in 1 .. k - 1)
  BY <1>1, <1>2 DEF EntryOutcome
<1>4. ~(k \in 1 .. l - 1)
  BY <1>1, <1>2 DEF EntryOutcome
<1> QED
  BY <1>1, <1>3, <1>4

(* A folder is accepted only if each of its payloads is.                   *)
LEMMA AcceptedFolder ==
    ASSUME NEW folder, IsFolder(folder), Outcome(folder) = 0
    PROVE  /\ PayloadFiles(folder) # {}
           /\ IsList(folder.config.metrics)
           /\ MetricsOutcome(folder.config.metrics) = 0
           /\ \A i \in PayloadFiles(folder) : folder.files[i].agent = {folder.config.agent}
<1> DEFINE bad == {i \in PayloadFiles(folder) : PayloadOutcome(folder, i) # 0}
<1>1. ReadOutcome(folder) = 0
  BY DEF Outcome
<1>2. PayloadFiles(folder) # {} /\ IsList(folder.config.metrics)
  BY <1>1 DEF ReadOutcome, PayloadFiles, IsFolder
<1>3. bad \subseteq Nat
  BY DEF PayloadFiles, IsFolder, IsList
<1>4. \A i \in PayloadFiles(folder) : PayloadOutcome(folder, i) = 0
  BY <1>1, <1>3, FirstExists DEF Outcome
<1>5. \A i \in PayloadFiles(folder) :
         /\ folder.files[i].agent # {}
         /\ AgentOutcome(folder.config, CHOOSE a \in folder.files[i].agent : TRUE) = 0
  BY <1>4 DEF PayloadOutcome
<1>6. ASSUME NEW i \in PayloadFiles(folder)
      PROVE  /\ MetricsOutcome(folder.config.metrics) = 0
             /\ folder.files[i].agent = {folder.config.agent}
  <2>1. PICK a : a = CHOOSE b \in folder.files[i].agent : TRUE
    OBVIOUS
  <2>2. a \in folder.files[i].agent
    BY <1>5, <2>1
  <2>3. AgentOutcome(folder.config, a) = 0
    BY <1>5, <2>1
  <2>4. folder.config.agent = a /\ MetricsOutcome(folder.config.metrics) = 0
    BY <2>3 DEF AgentOutcome
  <2>5. \A b \in folder.files[i].agent : b = a
    BY <2>2 DEF IsFolder, PayloadFiles
  <2> QED
    BY <2>2, <2>4, <2>5
<1> QED
  BY <1>2, <1>6

(* Payloads and enabled metrics are paired with the tickets one to one.    *)
LEMMA TicketBijection ==
    ASSUME NEW folder, NEW body, IsFolder(folder), Outcome(folder) = 0
    PROVE  ExistsBijection(PayloadFiles(folder) \X Enabled(folder.config), Tickets(folder, body))
<1> DEFINE S == PayloadFiles(folder) \X Enabled(folder.config)
           T == Tickets(folder, body)
           m(k) == Normalized(folder.config.metrics[k])
           f == [p \in S |-> TicketOf(p[1], m(p[2]), body)]
<1>1. \A k : m(k).metric = folder.config.metrics[k].id
  BY DEF Normalized
<1>2. \A i, k : /\ TicketOf(i, m(k), body).file = i
                /\ TicketOf(i, m(k), body).metric = folder.config.metrics[k].id
  BY <1>1 DEF TicketOf
<1>3. f \in [S -> T]
  BY DEF Tickets, Metrics
<1>4. \A t \in T : \E p \in S : f[p] = t
  <2>1. SUFFICES ASSUME NEW t \in T PROVE \E p \in S : f[p] = t
    OBVIOUS
  <2>2. PICK i \in PayloadFiles(folder), k \in Enabled(folder.config) :
           t = TicketOf(i, m(k), body)
    BY DEF Tickets, Metrics
  <2>3. <<i, k>> \in S /\ f[<<i, k>>] = t
    BY <2>2
  <2> QED
    BY <2>3
<1>5. \A p, q \in S : f[p] = f[q] => p = q
  <2>1. SUFFICES ASSUME NEW p \in S, NEW q \in S, f[p] = f[q] PROVE p = q
    OBVIOUS
  <2>2. p[1] = q[1] /\ folder.config.metrics[p[2]].id = folder.config.metrics[q[2]].id
    <3>1. f[p] = TicketOf(p[1], m(p[2]), body) /\ f[q] = TicketOf(q[1], m(q[2]), body)
      OBVIOUS
    <3>2. f[p].file = p[1] /\ f[p].metric = folder.config.metrics[p[2]].id
      BY <1>2, <3>1
    <3>3. f[q].file = q[1] /\ f[q].metric = folder.config.metrics[q[2]].id
      BY <1>2, <3>1
    <3> HIDE DEF f
    <3> QED
      BY <2>1, <3>2, <3>3
  <2>3. p[2] = q[2]
    BY <2>2, AcceptedFolder, MetricIdsDiffer
  <2> QED
    BY <2>2, <2>3
<1>6. f \in Bijection(S, T)
  <2> HIDE DEF f, S, T
  <2> QED
    BY <1>3, <1>4, <1>5 DEF Bijection, Injection, Surjection, IsInjective
<1> QED
  BY <1>6 DEF ExistsBijection

LEMMA FiniteFolder ==
    ASSUME NEW folder, IsFolder(folder), IsList(folder.config.metrics)
    PROVE  IsFiniteSet(PayloadFiles(folder)) /\ IsFiniteSet(Enabled(folder.config))
<1>1. /\ IsFiniteSet(1 .. Len(folder.files))
      /\ IsFiniteSet(1 .. Len(folder.config.metrics))
  BY FS_Interval DEF IsFolder, IsList
<1> QED
  BY <1>1, FS_Subset DEF IsFolder, IsList, PayloadFiles, Enabled

(* What a job of an accepted folder has: a ticket for each payload and     *)
(* enabled metric, exactly one, and no others.                             *)
THEOREM PlanCoversFolder ==
    ASSUME NEW folder, NEW body, IsFolder(folder), Outcome(folder) = 0
    PROVE  /\ IsFiniteSet(Tickets(folder, body)) /\ Tickets(folder, body) # {}
           /\ Cardinality(Tickets(folder, body)) =
                 Cardinality(PayloadFiles(folder)) * Cardinality(Enabled(folder.config))
           /\ \A i \in PayloadFiles(folder), k \in Enabled(folder.config) :
                 Cardinality({t \in Tickets(folder, body) :
                                /\ t.file = i
                                /\ t.metric = folder.config.metrics[k].id}) = 1
           /\ \A t \in Tickets(folder, body) : folder.files[t.file].agent = {folder.config.agent}
<1> DEFINE S == PayloadFiles(folder)
           E == Enabled(folder.config)
           T == Tickets(folder, body)
           m(k) == Normalized(folder.config.metrics[k])
<1>1. /\ S # {} /\ IsList(folder.config.metrics)
      /\ MetricsOutcome(folder.config.metrics) = 0
      /\ \A i \in S : folder.files[i].agent = {folder.config.agent}
  BY AcceptedFolder
<1>2. E # {}
  BY <1>1, AcceptedMetrics DEF Enabled
<1>3. \A i, k : /\ TicketOf(i, m(k), body).file = i
                /\ TicketOf(i, m(k), body).metric = folder.config.metrics[k].id
  BY DEF Normalized, TicketOf
<1>4. T # {} /\ \A i \in S, k \in E : TicketOf(i, m(k), body) \in T
  <2>1. \A i \in S, k \in E : TicketOf(i, m(k), body) \in T
    BY DEF Tickets, Metrics
  <2> HIDE DEF S, E, T
  <2> QED
    BY <1>1, <1>2, <2>1
<1>5. \A t \in T : \E i \in S, k \in E : t = TicketOf(i, m(k), body)
  BY DEF Tickets, Metrics
<1>6. IsFiniteSet(T) /\ Cardinality(T) = Cardinality(S) * Cardinality(E)
  <2>1. /\ IsFiniteSet(S \X E)
        /\ Cardinality(S \X E) = Cardinality(S) * Cardinality(E)
    BY <1>1, FiniteFolder, FS_Product
  <2>2. ExistsBijection(S \X E, T)
    BY TicketBijection
  <2> HIDE DEF S, E, T
  <2> QED
    BY <2>1, <2>2, FS_Bijection
<1>7. ASSUME NEW i \in S, NEW k \in E
      PROVE  Cardinality({t \in T : t.file = i /\ t.metric = folder.config.metrics[k].id}) = 1
  <2> DEFINE U == {t \in T : t.file = i /\ t.metric = folder.config.metrics[k].id}
  <2>1. ASSUME NEW t \in U PROVE t = TicketOf(i, m(k), body)
    <3>1. PICK j \in S, l \in E : t = TicketOf(j, m(l), body)
      BY <1>5
    <3>2. j = i /\ folder.config.metrics[l].id = folder.config.metrics[k].id
      BY <1>3, <3>1
    <3>3. l = k
      BY <1>1, <3>2, MetricIdsDiffer
    <3> QED
      BY <3>1, <3>2, <3>3
  <2>2. TicketOf(i, m(k), body) \in U
    BY <1>3, <1>4
  <2>3. U = {TicketOf(i, m(k), body)}
    BY <2>1, <2>2
  <2> QED
    BY <2>3, FS_Singleton
<1>8. \A t \in T : folder.files[t.file].agent = {folder.config.agent}
  BY <1>1, <1>3, <1>5
<1> QED
  BY <1>4, <1>6, <1>7, <1>8

-----------------------------------------------------------------------------
Whole(r) ==
    /\ row[r].state = "committed"
    /\ row[r].status = "READY"
    /\ reading[r] \in Accepted
    /\ row[r].tickets = Planned(r)
    /\ row[r].total = Cardinality(Planned(r))

Local(r) ==
    /\ pc[r] \in {"idle", "lookup", "read", "insert"} => row[r] = NoRow
    /\ pc[r] \in {"tickets", "total", "commit"} => row[r].state = "inserted"
    /\ pc[r] \in {"insert", "tickets", "total", "commit"} => reading[r] \in Accepted
    /\ pc[r] \in {"total", "commit"} => row[r].tickets = Planned(r)
    /\ pc[r] = "commit" => row[r].total = Cardinality(Planned(r)) /\ row[r].status = "READY"
    /\ pc[r] = "answered" => row[r] = NoRow \/ Whole(r)
    /\ row[r] # NoRow => row[r].key = KeyOf[r]
    /\ KeyOf[r] = BadKey => pc[r] \in {"idle", "answered"}
    /\ pc[r] # "answered" => answer[r] = NoAnswer
    /\ attempt[r] = 2 => pc[r] \in {"lookup", "answered"}
    /\ answer[r].status \in {200, 400, 404, 409} => row[r] = NoRow
    /\ answer[r].status = 500 => broken[r]

Refused(r) ==
    attempt[r] = 2 /\ pc[r] = "lookup" => SameKey(r) \cap Committed # {}

AnswerIsTrue(r) ==
    /\ answer[r].status = 201 => answer[r].job = {r} /\ r \in Committed
    /\ answer[r].status = 200 =>
         \E q \in Committed : /\ answer[r].job = {q}
                              /\ row[q].key = KeyOf[r]
                              /\ BodyOf[q] = BodyOf[r]
    /\ answer[r].status = 409 =>
         \E q \in Committed : row[q].key = KeyOf[r] /\ BodyOf[q] # BodyOf[r]

KeysDiffer ==
    \A q, r \in Request : row[q].key = row[r].key /\ row[q].key # NoKey => q = r

IInv ==
    /\ TypeOK
    /\ KeysDiffer
    /\ \A r \in Request : Local(r) /\ Refused(r) /\ AnswerIsTrue(r)

Step(r) == Send(r) \/ Handler(r) \/ ConnectionBreaks(r)

(* The rows of the model are rows. *)
LEMMA NoRowType == NoRow \in JobRow /\ NoRow.state = "absent" /\ NoRow.key = NoKey
BY DEF NoRow, JobRow

(* A step of one request leaves the others alone. *)
LEMMA OthersUnchanged ==
    ASSUME TypeOK, NEW r \in Request, Step(r), NEW q \in Request \ {r}
    PROVE  /\ pc'[q] = pc[q] /\ attempt'[q] = attempt[q] /\ reading'[q] = reading[q]
           /\ row'[q] = row[q] /\ answer'[q] = answer[q] /\ broken'[q] = broken[q]
<1>1. CASE Send(r)
  BY <1>1 DEF TypeOK, Send, Goto, Answer
<1>2. CASE LookUp(r)
  BY <1>2 DEF TypeOK, LookUp, Goto, Answer, Replay
<1>3. CASE ReadDataset(r)
  BY <1>3 DEF TypeOK, ReadDataset, Goto, Answer
<1>4. CASE InsertJob(r)
  BY <1>4 DEF TypeOK, InsertJob, Conflict, Goto, Answer
<1>5. CASE InsertTickets(r)
  BY <1>5 DEF TypeOK, InsertTickets, RolledBack, Goto, Answer
<1>6. CASE SetTotalTickets(r)
  BY <1>6 DEF TypeOK, SetTotalTickets, Goto
<1>7. CASE Commit(r)
  BY <1>7 DEF TypeOK, Commit, Goto, Answer
<1>8. CASE ConnectionBreaks(r)
  BY <1>8 DEF TypeOK, ConnectionBreaks, RolledBack, Goto, Answer
<1> QED
  BY <1>1, <1>2, <1>3, <1>4, <1>5, <1>6, <1>7, <1>8 DEF Step, Handler

(* What a step may do with the row of its request. *)
RowStep(r) ==
    \/ row' = row
    \/ row' = [row EXCEPT ![r] = NoRow] /\ pc[r] # "answered"
    \/ /\ row' = [row EXCEPT ![r] = InsertedRow(r)]
       /\ pc[r] = "insert" /\ SameKey(r) = {} /\ pc'[r] = "tickets"
    \/ row' = [row EXCEPT ![r].tickets = Planned(r)] /\ pc[r] = "tickets"
    \/ /\ row' = [row EXCEPT ![r] = TotalledRow(@, Cardinality(row[r].tickets))]
       /\ pc[r] = "total"
    \/ row' = [row EXCEPT ![r].state = "committed"] /\ pc[r] = "commit"

LEMMA StepRows ==
    ASSUME TypeOK, NEW r \in Request, Step(r)
    PROVE  RowStep(r)
<1>1. CASE Send(r)
  BY <1>1 DEF Send, RowStep
<1>2. CASE LookUp(r)
  BY <1>2 DEF LookUp, RowStep
<1>3. CASE ReadDataset(r)
  BY <1>3 DEF ReadDataset, RowStep
<1>4. CASE InsertJob(r)
  BY <1>4 DEF TypeOK, InsertJob, Goto, RowStep
<1>5. CASE InsertTickets(r)
  BY <1>5 DEF InsertTickets, RolledBack, RowStep
<1>6. CASE SetTotalTickets(r)
  BY <1>6 DEF SetTotalTickets, RowStep
<1>7. CASE Commit(r)
  BY <1>7 DEF Commit, RowStep
<1>8. CASE ConnectionBreaks(r)
  BY <1>8 DEF ConnectionBreaks, RolledBack, RowStep
<1> QED
  BY <1>1, <1>2, <1>3, <1>4, <1>5, <1>6, <1>7, <1>8 DEF Step, Handler

AnswerSet == [status : {0, 200, 201, 400, 404, 409, 500}, job : SUBSET Request]

LEMMA RefusalStatuses == Refusal \subseteq {400, 404, 500}
BY OutcomeRange DEF Refusal

LEMMA GotoTypes ==
    ASSUME TypeOK, NEW r \in Request
    PROVE  /\ \A to \in HandlerState : Goto(r, to) => pc' \in [Request -> HandlerState]
           /\ \A status \in {200, 201, 400, 404, 409, 500}, job \in SUBSET Request :
                 Answer(r, status, job) =>
                    pc' \in [Request -> HandlerState] /\ answer' \in [Request -> AnswerSet]
<1>1. \A to \in HandlerState : Goto(r, to) => pc' \in [Request -> HandlerState]
  BY DEF TypeOK, Goto
<1>2. ASSUME NEW status \in {200, 201, 400, 404, 409, 500}, NEW job \in SUBSET Request,
             Answer(r, status, job)
      PROVE  pc' \in [Request -> HandlerState] /\ answer' \in [Request -> AnswerSet]
  <2>1. pc' \in [Request -> HandlerState]
    BY <1>1, <1>2 DEF Answer, HandlerState
  <2>2. [status |-> status, job |-> job] \in AnswerSet
    BY DEF AnswerSet
  <2>3. answer' = [answer EXCEPT ![r] = [status |-> status, job |-> job]]
    BY <1>2 DEF Answer
  <2>4. answer \in [Request -> AnswerSet]
    BY DEF TypeOK, AnswerSet
  <2> QED
    BY <2>1, <2>2, <2>3, <2>4
<1> QED
  BY <1>1, <1>2

(* The plan of an accepted reading is a finite, non-empty set of tickets.  *)
LEMMA PlannedTickets ==
    ASSUME NEW r \in Request, reading[r] \in Accepted
    PROVE  /\ Planned(r) \in SUBSET AnyTicket /\ Planned(r) # {}
           /\ Cardinality(Planned(r)) \in Nat
<1>1. IsFolder(reading[r]) /\ Outcome(reading[r]) = 0
  BY CreationAssumption DEF Accepted
<1>2. Planned(r) \in SUBSET AnyTicket
  BY DEF Planned, AnyTicket
<1>3. IsFiniteSet(Planned(r)) /\ Planned(r) # {}
  BY <1>1, PlanCoversFolder DEF Planned
<1> QED
  BY <1>2, <1>3, FS_CardinalityType

LEMMA RowTyped ==
    ASSUME IInv, NEW r \in Request, Step(r)
    PROVE  row' \in [Request -> JobRow]
<1>1. row \in [Request -> JobRow] /\ Local(r)
  BY DEF IInv, TypeOK
<1>2. ASSUME pc[r] = "insert" PROVE InsertedRow(r) \in JobRow
  <2>1. KeyOf[r] \in Key \cup {NoKey}
    BY <1>2, CreationAssumption DEF IInv, Local
  <2>2. Cardinality(Planned(r)) \in Nat
    BY <1>1, <1>2, PlannedTickets DEF Local
  <2> QED
    BY <1>1, <2>1, <2>2 DEF InsertedRow, JobRow
<1>3. /\ pc[r] = "tickets" => [row[r] EXCEPT !.tickets = Planned(r)] \in JobRow
      /\ [row[r] EXCEPT !.state = "committed"] \in JobRow
      /\ pc[r] = "total" => TotalledRow(row[r], Cardinality(row[r].tickets)) \in JobRow
  <2>1. pc[r] \in {"tickets", "total"} =>
           Planned(r) \in SUBSET AnyTicket /\ Cardinality(Planned(r)) \in Nat
    BY <1>1, PlannedTickets DEF Local
  <2>2. row[r] \in JobRow /\ (pc[r] = "total" => row[r].tickets = Planned(r))
    BY <1>1 DEF Local
  <2> QED
    BY <2>1, <2>2 DEF JobRow, TotalledRow
<1>4. RowStep(r)
  BY StepRows DEF IInv
<1> QED
  BY <1>1, <1>2, <1>3, <1>4, NoRowType DEF RowStep

LEMMA StepType ==
    ASSUME IInv, NEW r \in Request, Step(r)
    PROVE  TypeOK'
<1>1. TypeOK /\ row' \in [Request -> JobRow]
  BY RowTyped DEF IInv
<1>2. /\ {"idle", "lookup", "read", "insert", "tickets", "total", "commit", "answered"}
           = HandlerState
      /\ answer \in [Request -> AnswerSet]
      /\ {} \in SUBSET Request /\ {r} \in SUBSET Request
      /\ \A q \in SameKey(r) : {q} \in SUBSET Request
  BY <1>1 DEF HandlerState, AnswerSet, TypeOK, SameKey
<1>3. SUFFICES /\ pc' \in [Request -> HandlerState]
               /\ answer' \in [Request -> AnswerSet]
               /\ attempt' \in [Request -> 1 .. 2]
               /\ reading' \in [Request -> Accepted \cup {NoFolder}]
               /\ broken' \in [Request -> BOOLEAN]
  BY <1>1 DEF TypeOK, AnswerSet
<1>4. /\ attempt \in [Request -> 1 .. 2] /\ broken \in [Request -> BOOLEAN]
      /\ reading \in [Request -> Accepted \cup {NoFolder}]
      /\ pc \in [Request -> HandlerState]
  BY <1>1 DEF TypeOK
<1>5. CASE Send(r)
  BY <1>1, <1>2, <1>4, <1>5, GotoTypes DEF Send
<1>6. CASE LookUp(r)
  <2>1. CASE Goto(r, "read") /\ UNCHANGED answer
    BY <1>1, <1>2, <1>4, <1>6, <2>1, GotoTypes DEF LookUp
  <2>2. ASSUME NEW q \in SameKey(r), Replay(r, q)
        PROVE  pc' \in [Request -> HandlerState] /\ answer' \in [Request -> AnswerSet]
    BY <1>1, <1>2, <2>2, GotoTypes DEF Replay
  <2> QED
    BY <1>1, <1>2, <1>4, <1>6, <2>1, <2>2 DEF LookUp
<1>7. CASE ReadDataset(r)
  <2>1. ASSUME NEW status \in Refusal, Answer(r, status, {}),
               broken' = [broken EXCEPT ![r] = status = 500], UNCHANGED reading
        PROVE  /\ pc' \in [Request -> HandlerState] /\ answer' \in [Request -> AnswerSet]
               /\ reading' \in [Request -> Accepted \cup {NoFolder}]
               /\ broken' \in [Request -> BOOLEAN]
    <3>1. status \in {200, 201, 400, 404, 409, 500}
      BY RefusalStatuses
    <3>2. broken' \in [Request -> BOOLEAN]
      BY <1>4, <2>1, Zenon
    <3> QED
      BY <1>1, <1>2, <1>4, <2>1, <3>1, <3>2, GotoTypes
  <2>2. CASE \E d \in Accepted : /\ Goto(r, "insert")
                                 /\ reading' = [reading EXCEPT ![r] = d]
                                 /\ UNCHANGED <<answer, broken>>
    BY <1>1, <1>2, <1>4, <1>7, <2>2, GotoTypes DEF ReadDataset
  <2> QED
    BY <1>4, <1>7, <2>1, <2>2 DEF ReadDataset
<1>8. CASE InsertJob(r)
  BY <1>1, <1>2, <1>4, <1>8, GotoTypes DEF InsertJob, Conflict
<1>9. CASE InsertTickets(r)
  <2>1. CASE Goto(r, "total") /\ UNCHANGED <<answer, broken>>
    BY <1>1, <1>2, <1>4, <1>9, <2>1, GotoTypes DEF InsertTickets
  <2>2. CASE Answer(r, 500, {}) /\ broken' = [broken EXCEPT ![r] = TRUE]
    BY <1>1, <1>2, <1>4, <1>9, <2>2, GotoTypes DEF InsertTickets
  <2> QED
    BY <1>9, <2>1, <2>2 DEF InsertTickets
<1>10. CASE SetTotalTickets(r)
  BY <1>1, <1>2, <1>4, <1>10, GotoTypes DEF SetTotalTickets
<1>11. CASE Commit(r)
  BY <1>1, <1>2, <1>4, <1>11, GotoTypes DEF Commit
<1>12. CASE ConnectionBreaks(r)
  BY <1>1, <1>2, <1>4, <1>12, GotoTypes DEF ConnectionBreaks
<1> QED
  BY <1>5, <1>6, <1>7, <1>8, <1>9, <1>10, <1>11, <1>12 DEF Step, Handler

(* A committed row stays as it is. *)
LEMMA CommittedStays ==
    ASSUME IInv, NEW r \in Request, Step(r), NEW q \in Committed
    PROVE  q \in Committed' /\ row'[q] = row[q]
<1>1. q \in Request /\ row[q].state = "committed"
  BY DEF Committed
<1>2. CASE q # r
  BY <1>1, <1>2, OthersUnchanged DEF IInv, Committed
<1>3. CASE q = r
  <2>1. pc[r] \in HandlerState /\ row[r] \in JobRow
    BY DEF IInv, TypeOK
  <2>2. pc[r] = "answered"
    BY <1>1, <1>3, <2>1, NoRowType DEF IInv, Local, HandlerState
  <2>3. row' = row
    BY <2>2, StepRows DEF IInv, RowStep
  <2> QED
    BY <1>1, <2>3 DEF Committed
<1> QED
  BY <1>2, <1>3

LEMMA StepKeysDiffer ==
    ASSUME IInv, NEW r \in Request, Step(r)
    PROVE  KeysDiffer'
<1> USE DEF IInv, TypeOK
<1>1. row \in [Request -> JobRow] /\ NoRow.key = NoKey
  BY NoRowType
<1>2. RowStep(r)
  BY StepRows
<1>3. CASE row' = row
  BY <1>3 DEF KeysDiffer
<1>4. CASE row' = [row EXCEPT ![r] = NoRow]
  BY <1>1, <1>4 DEF KeysDiffer
<1>5. CASE row' = [row EXCEPT ![r] = InsertedRow(r)] /\ SameKey(r) = {}
  <2>1. InsertedRow(r).key = KeyOf[r]
    BY DEF InsertedRow
  <2>2. \A q \in Request \ {r} : KeyOf[r] # NoKey => row[q].key # KeyOf[r]
    BY <1>5 DEF SameKey
  <2> QED
    BY <1>1, <1>5, <2>1, <2>2 DEF KeysDiffer
<1>6. ASSUME row'[r].key = row[r].key, \A q \in Request \ {r} : row'[q] = row[q]
      PROVE  KeysDiffer'
  BY <1>6 DEF KeysDiffer
<1>7. \A q \in Request \ {r} : row'[q] = row[q]
  BY OthersUnchanged
<1>8. /\ [row[r] EXCEPT !.tickets = Planned(r)].key = row[r].key
      /\ TotalledRow(row[r], Cardinality(row[r].tickets)).key = row[r].key
      /\ [row[r] EXCEPT !.state = "committed"].key = row[r].key
  BY <1>1 DEF JobRow, TotalledRow
<1>9. CASE row' = [row EXCEPT ![r].tickets = Planned(r)]
  BY <1>1, <1>6, <1>7, <1>8, <1>9
<1>10. CASE row' = [row EXCEPT ![r] = TotalledRow(@, Cardinality(row[r].tickets))]
  BY <1>1, <1>6, <1>7, <1>8, <1>10
<1>11. CASE row' = [row EXCEPT ![r].state = "committed"]
  BY <1>1, <1>6, <1>7, <1>8, <1>11
<1> QED
  BY <1>2, <1>3, <1>4, <1>5, <1>9, <1>10, <1>11 DEF RowStep

(* What holds of a request survives the steps of the others. *)
LEMMA OthersKept ==
    ASSUME IInv, NEW r \in Request, Step(r), NEW q \in Request \ {r}
    PROVE  Local(q)' /\ Refused(q)' /\ AnswerIsTrue(q)'
<1>1. /\ pc'[q] = pc[q] /\ attempt'[q] = attempt[q] /\ reading'[q] = reading[q]
      /\ row'[q] = row[q] /\ answer'[q] = answer[q] /\ broken'[q] = broken[q]
  BY OthersUnchanged DEF IInv
<1>2. Local(q) /\ Refused(q) /\ AnswerIsTrue(q)
  BY DEF IInv
<1>3. \A p \in Committed : p \in Committed' /\ row'[p] = row[p]
  BY CommittedStays
<1>4. Local(q)'
  BY <1>1, <1>2 DEF Local, Whole, Planned
<1>5. Refused(q)'
  BY <1>1, <1>2, <1>3 DEF Refused, SameKey
<1>6. AnswerIsTrue(q)'
  BY <1>1, <1>2, <1>3 DEF AnswerIsTrue
<1> QED
  BY <1>4, <1>5, <1>6

(***************************************************************************)
(* The request that takes the step, one action after the other.            *)
(***************************************************************************)
LEMMA SendKept ==
    ASSUME IInv, NEW r \in Request, Send(r)
    PROVE  Local(r)' /\ Refused(r)' /\ AnswerIsTrue(r)'
<1>1. /\ pc \in [Request -> HandlerState]
      /\ answer \in [Request -> AnswerSet]
      /\ Local(r) /\ attempt[r] # 2 /\ row[r] = NoRow
  BY DEF IInv, TypeOK, Local, Send, AnswerSet
<1>2. CASE KeyOf[r] = BadKey
  BY <1>1, <1>2 DEF Send, Goto, Answer, Local, Refused, AnswerIsTrue
<1>3. CASE KeyOf[r] # BadKey
  BY <1>1, <1>3 DEF Send, Goto, Local, Refused, AnswerIsTrue, NoAnswer
<1> QED
  BY <1>2, <1>3

LEMMA LookUpKept ==
    ASSUME IInv, NEW r \in Request, LookUp(r)
    PROVE  Local(r)' /\ Refused(r)' /\ AnswerIsTrue(r)'
<1>1. /\ pc \in [Request -> HandlerState]
      /\ answer \in [Request -> AnswerSet]
      /\ Local(r) /\ Refused(r) /\ row[r] = NoRow /\ answer[r] = NoAnswer
      /\ pc[r] = "lookup" /\ KeyOf[r] # BadKey
      /\ row' = row /\ attempt' = attempt /\ reading' = reading /\ broken' = broken
  BY DEF IInv, TypeOK, Local, LookUp, AnswerSet
<1>2. Committed' = Committed
  BY <1>1 DEF Committed
<1>3. CASE SameKey(r) \cap Committed = {}
  BY <1>1, <1>3 DEF LookUp, Goto, Local, Refused, AnswerIsTrue, NoAnswer
<1>4. ASSUME NEW q \in SameKey(r) \cap Committed, Replay(r, q)
      PROVE  Local(r)' /\ Refused(r)' /\ AnswerIsTrue(r)'
  <2>1. row[q].key = KeyOf[r] /\ row[q].key = KeyOf[q] /\ q \in Committed
    BY <1>4, NoRowType DEF SameKey, IInv, Local, Committed
  <2>2. CASE BodyOf[q] = BodyOf[r]
    BY <1>1, <1>2, <1>4, <2>1, <2>2 DEF Replay, Answer, Goto, Local, Refused, AnswerIsTrue
  <2>3. CASE BodyOf[q] # BodyOf[r]
    BY <1>1, <1>2, <1>4, <2>1, <2>3 DEF Replay, Answer, Goto, Local, Refused, AnswerIsTrue
  <2> QED
    BY <2>2, <2>3
<1> QED
  BY <1>3, <1>4 DEF LookUp

LEMMA ReadDatasetKept ==
    ASSUME IInv, NEW r \in Request, ReadDataset(r)
    PROVE  Local(r)' /\ Refused(r)' /\ AnswerIsTrue(r)'
<1>1. /\ pc \in [Request -> HandlerState]
      /\ answer \in [Request -> AnswerSet]
      /\ reading \in [Request -> Accepted \cup {NoFolder}]
      /\ broken \in [Request -> BOOLEAN]
      /\ Local(r) /\ row[r] = NoRow /\ answer[r] = NoAnswer
      /\ pc[r] = "read" /\ KeyOf[r] # BadKey /\ attempt[r] # 2
      /\ row' = row /\ attempt' = attempt
  BY DEF IInv, TypeOK, Local, ReadDataset, AnswerSet
<1>2. ASSUME NEW status \in Refusal, Answer(r, status, {}),
             broken' = [broken EXCEPT ![r] = status = 500]
      PROVE  Local(r)' /\ Refused(r)' /\ AnswerIsTrue(r)'
  <2>1. status \in {400, 404, 500}
    BY RefusalStatuses
  <2>2. /\ pc'[r] = "answered" /\ answer'[r].status = status
    BY <1>1, <1>2 DEF Answer, Goto
  <2>3. ASSUME status = 500 PROVE broken'[r]
    <3>1. r \in DOMAIN broken
      BY <1>1
    <3>2. [broken EXCEPT ![r] = status = 500][r] = (status = 500)
      BY <3>1, Zenon
    <3> QED
      BY <1>2, <2>3, <3>2, Zenon
  <2> QED
    BY <1>1, <2>1, <2>2, <2>3 DEF Local, Refused, AnswerIsTrue
<1>3. ASSUME NEW d \in Accepted, Goto(r, "insert"),
             reading' = [reading EXCEPT ![r] = d], UNCHANGED <<answer, broken>>
      PROVE  Local(r)' /\ Refused(r)' /\ AnswerIsTrue(r)'
  BY <1>1, <1>3 DEF Goto, Local, Refused, AnswerIsTrue, NoAnswer
<1> QED
  BY <1>2, <1>3 DEF ReadDataset

LEMMA InsertJobKept ==
    ASSUME IInv, NEW r \in Request, InsertJob(r)
    PROVE  Local(r)' /\ Refused(r)' /\ AnswerIsTrue(r)'
<1>1. /\ pc \in [Request -> HandlerState]
      /\ row \in [Request -> JobRow]
      /\ attempt \in [Request -> 1 .. 2]
      /\ Local(r) /\ row[r] = NoRow /\ answer[r] = NoAnswer
      /\ pc[r] = "insert" /\ KeyOf[r] # BadKey /\ attempt[r] = 1
      /\ reading[r] \in Accepted
      /\ reading' = reading /\ broken' = broken
  BY DEF IInv, TypeOK, Local, InsertJob
<1>2. CASE SameKey(r) = {}
  <2>1. /\ row' = [row EXCEPT ![r] = InsertedRow(r)] /\ Goto(r, "tickets")
        /\ attempt' = attempt /\ answer' = answer
    BY <1>2 DEF InsertJob
  <2>2. InsertedRow(r).state = "inserted" /\ InsertedRow(r).key = KeyOf[r]
    BY DEF InsertedRow
  <2> QED
    BY <1>1, <2>1, <2>2 DEF Goto, Local, Refused, AnswerIsTrue, NoAnswer
<1>3. CASE SameKey(r) # {}
  <2>1. /\ row' = row /\ Goto(r, "lookup") /\ answer' = answer
        /\ attempt' = [attempt EXCEPT ![r] = 2]
        /\ SameKey(r) \cap Committed # {}
    BY <1>1, <1>3 DEF InsertJob, Conflict
  <2>2. SameKey(r)' = SameKey(r) /\ Committed' = Committed
    BY <2>1 DEF SameKey, Committed
  <2> QED
    BY <1>1, <2>1, <2>2 DEF Goto, Local, Refused, AnswerIsTrue, NoAnswer
<1> QED
  BY <1>2, <1>3

LEMMA InsertTicketsKept ==
    ASSUME IInv, NEW r \in Request, InsertTickets(r)
    PROVE  Local(r)' /\ Refused(r)' /\ AnswerIsTrue(r)'
<1>1. /\ pc \in [Request -> HandlerState]
      /\ row \in [Request -> JobRow]
      /\ answer \in [Request -> AnswerSet]
      /\ broken \in [Request -> BOOLEAN]
      /\ Local(r) /\ row[r].state = "inserted" /\ answer[r] = NoAnswer
      /\ reading[r] \in Accepted
      /\ pc[r] = "tickets" /\ KeyOf[r] # BadKey /\ attempt[r] # 2
      /\ attempt' = attempt /\ reading' = reading
  BY DEF IInv, TypeOK, Local, InsertTickets, AnswerSet
<1>2. row[r] # NoRow
  BY <1>1, NoRowType
<1>3. CASE RolledBack(r) /\ Answer(r, 500, {}) /\ broken' = [broken EXCEPT ![r] = TRUE]
  <2>1. /\ row'[r] = NoRow /\ pc'[r] = "answered" /\ broken'[r]
        /\ answer'[r].status = 500
    BY <1>1, <1>3 DEF RolledBack, Answer, Goto
  <2> QED
    BY <1>1, <2>1 DEF Local, Refused, AnswerIsTrue
<1>4. CASE /\ row' = [row EXCEPT ![r].tickets = Planned(r)]
           /\ Goto(r, "total") /\ UNCHANGED <<answer, broken>>
  <2>1. /\ row'[r].key = row[r].key /\ row'[r].state = row[r].state
        /\ row'[r].tickets = Planned(r) /\ Planned(r)' = Planned(r)
    BY <1>1, <1>4 DEF JobRow, Planned
  <2>2. pc'[r] = "total" /\ answer'[r] = answer[r] /\ broken'[r] = broken[r]
    BY <1>1, <1>4 DEF Goto
  <2> QED
    BY <1>1, <1>2, <2>1, <2>2 DEF Local, Refused, AnswerIsTrue, NoAnswer
<1> QED
  BY <1>3, <1>4 DEF InsertTickets

LEMMA SetTotalTicketsKept ==
    ASSUME IInv, NEW r \in Request, SetTotalTickets(r)
    PROVE  Local(r)' /\ Refused(r)' /\ AnswerIsTrue(r)'
<1>1. /\ pc \in [Request -> HandlerState]
      /\ row \in [Request -> JobRow]
      /\ Local(r) /\ row[r].state = "inserted" /\ answer[r] = NoAnswer
      /\ pc[r] = "total" /\ KeyOf[r] # BadKey /\ attempt[r] # 2
      /\ attempt' = attempt /\ reading' = reading /\ answer' = answer /\ broken' = broken
  BY DEF IInv, TypeOK, Local, SetTotalTickets
<1>2. row[r] # NoRow
  BY <1>1, NoRowType
<1>3. /\ row'[r] = TotalledRow(row[r], Cardinality(row[r].tickets))
      /\ pc' = [pc EXCEPT ![r] = "commit"]
  BY <1>1 DEF SetTotalTickets, Goto
<1>4. /\ row'[r].key = row[r].key /\ row'[r].state = row[r].state
      /\ row'[r].tickets = row[r].tickets
      /\ row'[r].total = Cardinality(row[r].tickets) /\ row'[r].status = "READY"
  BY <1>1, <1>3 DEF JobRow, TotalledRow
<1>5. /\ row[r].tickets = Planned(r) /\ Planned(r)' = Planned(r)
      /\ reading[r] \in Accepted
  BY <1>1 DEF Local, Planned
<1> QED
  BY <1>1, <1>2, <1>3, <1>4, <1>5 DEF Local, Refused, AnswerIsTrue, NoAnswer

LEMMA CommittedRow ==
    ASSUME IInv, NEW r \in Request, pc[r] = "commit",
           row' = [row EXCEPT ![r].state = "committed"], reading' = reading
    PROVE  Whole(r)' /\ row'[r].key = KeyOf[r] /\ r \in Committed'
<1>1. /\ row[r] \in JobRow /\ row \in [Request -> JobRow]
      /\ row[r].state = "inserted" /\ row[r].status = "READY"
      /\ row[r].tickets = Planned(r) /\ row[r].total = Cardinality(Planned(r))
      /\ reading[r] \in Accepted
      /\ row[r] # NoRow => row[r].key = KeyOf[r]
  BY DEF IInv, TypeOK, Local
<1>2. row[r].key = KeyOf[r]
  BY <1>1, NoRowType
<1>3. /\ row'[r].state = "committed" /\ row'[r].key = row[r].key
      /\ row'[r].tickets = row[r].tickets /\ row'[r].total = row[r].total
      /\ row'[r].status = row[r].status
  BY <1>1 DEF JobRow
<1> QED
  BY <1>1, <1>2, <1>3 DEF Whole, Committed, Planned

LEMMA CommitKept ==
    ASSUME IInv, NEW r \in Request, Commit(r)
    PROVE  Local(r)' /\ Refused(r)' /\ AnswerIsTrue(r)'
<1>1. /\ pc' = [pc EXCEPT ![r] = "answered"]
      /\ answer' = [answer EXCEPT ![r] = [status |-> 201, job |-> {r}]]
      /\ pc \in [Request -> HandlerState] /\ answer \in [Request -> AnswerSet]
  BY DEF Commit, Answer, Goto, IInv, TypeOK, AnswerSet
<1>2. Whole(r)' /\ row'[r].key = KeyOf[r] /\ r \in Committed'
  BY CommittedRow DEF Commit
<1>3. pc'[r] = "answered" /\ answer'[r].status = 201 /\ answer'[r].job = {r}
  BY <1>1
<1> QED
  BY <1>2, <1>3 DEF Local, Refused, AnswerIsTrue

LEMMA ConnectionBreaksKept ==
    ASSUME IInv, NEW r \in Request, ConnectionBreaks(r)
    PROVE  Local(r)' /\ Refused(r)' /\ AnswerIsTrue(r)'
<1>1. /\ pc'[r] = "answered" /\ answer'[r].status = 500 /\ broken'[r]
  BY DEF ConnectionBreaks, Answer, Goto, IInv, TypeOK
<1>2. row'[r] = NoRow \/ (Whole(r)' /\ row'[r].key = KeyOf[r])
  <2>1. CASE RolledBack(r)
    BY <2>1 DEF RolledBack, IInv, TypeOK
  <2>2. CASE pc[r] = "commit" /\ row' = [row EXCEPT ![r].state = "committed"]
    BY <2>2, CommittedRow DEF ConnectionBreaks
  <2> QED
    BY <2>1, <2>2 DEF ConnectionBreaks
<1> QED
  BY <1>1, <1>2 DEF Local, Refused, AnswerIsTrue

-----------------------------------------------------------------------------
LEMMA InitIInv == Init => IInv
<1> SUFFICES ASSUME Init PROVE IInv
  OBVIOUS
<1>1. TypeOK
  <2>1. NoAnswer \in AnswerSet
    BY DEF NoAnswer, AnswerSet
  <2>2. answer \in [Request -> AnswerSet] /\ row \in [Request -> JobRow]
    BY <2>1, NoRowType DEF Init
  <2>3. /\ pc \in [Request -> HandlerState] /\ attempt \in [Request -> 1 .. 2]
        /\ broken \in [Request -> BOOLEAN] /\ reading \in [Request -> Accepted \cup {NoFolder}]
    BY DEF Init, HandlerState
  <2> QED
    BY <2>2, <2>3 DEF TypeOK, AnswerSet
<1>2. KeysDiffer
  BY NoRowType DEF Init, KeysDiffer
<1>3. ASSUME NEW r \in Request PROVE Local(r) /\ Refused(r) /\ AnswerIsTrue(r)
  BY DEF Init, Local, Refused, AnswerIsTrue, NoAnswer
<1> QED
  BY <1>1, <1>2, <1>3 DEF IInv

LEMMA NextIInv == IInv /\ [Next]_vars => IInv'
<1> SUFFICES ASSUME IInv, [Next]_vars PROVE IInv'
  OBVIOUS
<1>1. CASE UNCHANGED vars
  BY <1>1 DEF vars, IInv, TypeOK, KeysDiffer, Local, Whole, Refused, SameKey,
              Committed, AnswerIsTrue, Planned
<1>2. ASSUME NEW r \in Request, Step(r) PROVE IInv'
  <2>1. TypeOK' /\ KeysDiffer'
    BY <1>2, StepType, StepKeysDiffer
  <2>2. Local(r)' /\ Refused(r)' /\ AnswerIsTrue(r)'
    BY <1>2, SendKept, LookUpKept, ReadDatasetKept, InsertJobKept, InsertTicketsKept,
       SetTotalTicketsKept, CommitKept, ConnectionBreaksKept DEF Step, Handler
  <2>3. \A q \in Request \ {r} : Local(q)' /\ Refused(q)' /\ AnswerIsTrue(q)'
    BY <1>2, OthersKept
  <2> QED
    BY <2>1, <2>2, <2>3 DEF IInv
<1> QED
  BY <1>1, <1>2 DEF Next, Step

LEMMA Invariance == Spec => []IInv
BY InitIInv, NextIInv, PTL DEF Spec

(* Every reachable state has the types of TypeOK. *)
THEOREM TypeCorrect == Spec => []TypeOK
<1>1. IInv => TypeOK
  BY DEF IInv
<1> QED
  BY <1>1, Invariance, PTL

(* The unique index and the order of create_job keep a key to one job,     *)
(* whatever races for it.                                                  *)
THEOREM KeyNamesOneJobHolds == Spec => []KeyNamesOneJob
<1>1. IInv => KeyNamesOneJob
  BY DEF IInv, KeysDiffer, KeyNamesOneJob, Committed
<1> QED
  BY <1>1, Invariance, PTL

LEMMA CommittedIsWhole ==
    ASSUME IInv, NEW r \in Committed
    PROVE  r \in Request /\ Whole(r)
BY NoRowType DEF IInv, TypeOK, Local, Committed, HandlerState

(* Rows become visible by a commit only, and only whole.                   *)
THEOREM JobsAreWholeHolds == Spec => []JobsAreWhole
<1>1. ASSUME IInv, NEW r \in Committed
      PROVE  /\ row[r].status = "READY"
             /\ Cardinality(row[r].tickets) = row[r].total
             /\ row[r].tickets # {}
  BY <1>1, CommittedIsWhole, PlannedTickets DEF Whole
<1>2. IInv => JobsAreWhole
  BY <1>1 DEF IInv, Local, JobsAreWhole
<1> QED
  BY <1>2, Invariance, PTL

(* A job has one ticket for every payload and enabled metric of the folder *)
(* that was read for it, and nothing else.                                 *)
THEOREM TicketsCoverDatasetHolds == Spec => []TicketsCoverDataset
<1>1. IInv => TicketsCoverDataset
  <2>1. SUFFICES ASSUME IInv, NEW r \in Committed
        PROVE  LET d == reading[r]
                   files == {i \in DOMAIN d.files : d.files[i].kind = "payload"}
                   entries == {i \in DOMAIN d.config.metrics :
                                 d.config.metrics[i].enabled # "false"} IN
               /\ \A i \in files, k \in entries :
                     Cardinality({t \in row[r].tickets :
                                    /\ t.file = i
                                    /\ t.metric = d.config.metrics[k].id}) = 1
               /\ row[r].total = Cardinality(files) * Cardinality(entries)
               /\ \A t \in row[r].tickets : d.files[t.file].agent = {d.config.agent}
    BY DEF TicketsCoverDataset
  <2>2. /\ IsFolder(reading[r]) /\ Outcome(reading[r]) = 0
        /\ row[r].tickets = Tickets(reading[r], BodyOf[r])
        /\ row[r].total = Cardinality(Tickets(reading[r], BodyOf[r]))
    BY <2>1, CommittedIsWhole, CreationAssumption DEF Whole, Accepted, Planned
  <2>3. /\ PayloadFiles(reading[r]) =
              {i \in DOMAIN reading[r].files : reading[r].files[i].kind = "payload"}
        /\ Enabled(reading[r].config) =
              {i \in DOMAIN reading[r].config.metrics :
                 reading[r].config.metrics[i].enabled # "false"}
    BY <2>2, AcceptedFolder, EnabledEntries DEF PayloadFiles
  <2>4. /\ \A i \in PayloadFiles(reading[r]), k \in Enabled(reading[r].config) :
              Cardinality({t \in row[r].tickets :
                             /\ t.file = i
                             /\ t.metric = reading[r].config.metrics[k].id}) = 1
        /\ row[r].total =
              Cardinality(PayloadFiles(reading[r])) * Cardinality(Enabled(reading[r].config))
        /\ \A t \in row[r].tickets : reading[r].files[t.file].agent = {reading[r].config.agent}
    <3> HIDE DEF IInv
    <3> QED
      BY <2>2, PlanCoversFolder
  <2> QED
    BY <2>3, <2>4
<1> QED
  BY <1>1, Invariance, PTL

(* No answer names a job that is not there, or was made of another body.   *)
THEOREM AnswersAreTrueHolds == Spec => []AnswersAreTrue
<1>1. IInv => AnswersAreTrue
  BY DEF IInv, AnswerIsTrue, AnswersAreTrue
<1> QED
  BY <1>1, Invariance, PTL

(* The second attempt of create_evaluation_job is always a replay or a     *)
(* conflict of bodies, never an error of its own.                          *)
THEOREM RacesAreResolvedHolds == Spec => []RacesAreResolved
<1>1. IInv => RacesAreResolved
  BY DEF IInv, Local, RacesAreResolved
<1> QED
  BY <1>1, Invariance, PTL
=============================================================================
