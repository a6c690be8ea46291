----------------------------- MODULE JobCreation -----------------------------
(***************************************************************************)
(* Requests that create evaluation jobs, several at a time, some of them   *)
(* under the same Idempotency-Key: lookup of the key, reading the dataset  *)
(* folder, the inserts of one transaction, its commit or rollback, and the *)
(* second attempt after a violated unique index.                           *)
(*                                                                         *)
(* The folder may change between two readings; DatasetPlan says what a     *)
(* reading is refused with, or which tickets it is to have.                *)
(* Definitions commented "Faulty" serve as in TicketLifecycle.             *)
(***************************************************************************)
EXTENDS DatasetPlan

CONSTANTS
    Request,
    Key, NoKey,
    BadKey,        \* a key that is blank or too long
    KeyOf,         \* the Idempotency-Key of each request
    BodyOf,        \* its body: name, and optional priority and max_attempts
    Folder,        \* what a reading of the dataset folder may find
    NoFolder,      \* nothing has been read
    MaxInteger     \* the greatest number a ticket column takes

ASSUME CreationAssumption ==
    /\ NoKey \notin Key /\ BadKey \notin Key /\ NoKey # BadKey
    /\ KeyOf \in [Request -> Key \cup {NoKey, BadKey}]
    /\ NoFolder \notin Folder
    /\ \A d \in Folder : IsFolder(d)

VARIABLES
    pc,       \* where the handler of each request is
    attempt,  \* its call of _create, the first or the second
    reading,  \* what it found in the dataset folder
    row,      \* the evaluation_jobs row it inserts, with its tickets
    answer,   \* the HTTP status, and the request that created the job it names
    broken    \* an error other than a conflict ended it

vars == <<pc, attempt, reading, row, answer, broken>>

Body == {BodyOf[r] : r \in Request}

(* What a reading leads to: a plan, or a refusal. *)
Accepted == {d \in Folder : Outcome(d) = 0}
Refusal == {Outcome(d) : d \in Folder} \ {0}

AnyTicket == UNION {Tickets(d, BodyOf[r]) : d \in Accepted, r \in Request}

HandlerState == {"idle", "lookup", "read", "insert", "tickets", "total", "commit", "answered"}

NoRow == [state |-> "absent", key |-> NoKey, status |-> "CREATED", total |-> 0, tickets |-> {}]

JobRow == [state : {"absent", "inserted", "committed"}, key : Key \cup {NoKey},
           status : {"CREATED", "READY"}, total : Nat, tickets : SUBSET AnyTicket]

NoAnswer == [status |-> 0, job |-> {}]

(* Every variable holds values of its type. *)
TypeOK ==
    /\ pc \in [Request -> HandlerState]
    /\ attempt \in [Request -> 1 .. 2]
    /\ reading \in [Request -> Accepted \cup {NoFolder}]
    /\ row \in [Request -> JobRow]
    /\ answer \in [Request -> [status : {0, 200, 201, 400, 404, 409, 500}, job : SUBSET Request]]
    /\ broken \in [Request -> BOOLEAN]

Committed == {r \in Request : row[r].state = "committed"}

(* The rows of other requests that carry the key of r. *)
SameKey(r) == {q \in Request \ {r} : KeyOf[r] # NoKey /\ row[q].key = KeyOf[r]}

Goto(r, to) == pc' = [pc EXCEPT ![r] = to]

Answer(r, status, job) ==
    /\ Goto(r, "answered")
    /\ answer' = [answer EXCEPT ![r] = [status |-> status, job |-> job]]

(* Faulty: what was inserted before the error is committed. *)
KeepRows(r) == row' = [row EXCEPT ![r].state = IF @ = "inserted" THEN "committed" ELSE @]

(* Faulty: the transaction stays open when its handler ends. *)
LeftOpen(r) == UNCHANGED row

(* The transaction rolls back: none of its rows remain. *)
RolledBack(r) == row' = [row EXCEPT ![r] = NoRow]

-----------------------------------------------------------------------------
Send(r) ==
    /\ pc[r] = "idle"
    /\ IF KeyOf[r] = BadKey
         THEN Answer(r, 400, {})
         ELSE Goto(r, "lookup") /\ UNCHANGED answer
    /\ UNCHANGED <<attempt, reading, row, broken>>

(* Faulty: replays whatever job has the key. *)
ReplayUnchecked(r, q) == Answer(r, 200, {q})

(* _result_for_existing_job compares the hashes of the bodies. *)
Replay(r, q) ==
    IF BodyOf[q] = BodyOf[r] THEN Answer(r, 200, {q}) ELSE Answer(r, 409, {})

LookUp(r) ==
    /\ pc[r] = "lookup"
    /\ IF SameKey(r) \cap Committed = {}
         THEN Goto(r, "read") /\ UNCHANGED answer
         ELSE \E q \in SameKey(r) \cap Committed : Replay(r, q)
    /\ UNCHANGED <<attempt, reading, row, broken>>

(* Folder, payloads and metrics are read and validated; no row exists yet. *)
ReadDataset(r) ==
    /\ pc[r] = "read"
    /\ \/ \E d \in Accepted : /\ Goto(r, "insert")
                              /\ reading' = [reading EXCEPT ![r] = d]
                              /\ UNCHANGED <<answer, broken>>
       \/ \E status \in Refusal : /\ Answer(r, status, {})
                                  /\ broken' = [broken EXCEPT ![r] = status = 500]
                                  /\ UNCHANGED reading
    /\ UNCHANGED <<attempt, row>>

(* The tickets it prepared from what it read. *)
Planned(r) == Tickets(reading[r], BodyOf[r])

(* Faulty: an IntegrityError is not tried again. *)
ConflictAnswered(r) == Answer(r, 500, {}) /\ UNCHANGED attempt

(* IntegrityError: _create once more, in a transaction of its own. *)
Conflict(r) ==
    IF attempt[r] = 1
      THEN Goto(r, "lookup") /\ attempt' = [attempt EXCEPT ![r] = 2] /\ UNCHANGED answer
      ELSE Answer(r, 500, {}) /\ UNCHANGED attempt

InsertedRow(r) ==
    [state |-> "inserted", key |-> KeyOf[r], status |-> "CREATED",
     total |-> Cardinality(Planned(r)), tickets |-> {}]

(* Faulty: the table has no unique index. *)
InsertJobAnyway(r) ==
    /\ pc[r] = "insert"
    /\ Goto(r, "tickets")
    /\ row' = [row EXCEPT ![r] = InsertedRow(r)]
    /\ UNCHANGED <<attempt, answer, reading, broken>>

(* The insert waits for another one of the same key to commit or roll back. *)
InsertJob(r) ==
    /\ pc[r] = "insert"
    /\ SameKey(r) \subseteq Committed
    /\ IF SameKey(r) = {}
         THEN /\ Goto(r, "tickets")
              /\ row' = [row EXCEPT ![r] = InsertedRow(r)]
              /\ UNCHANGED <<attempt, answer>>
         ELSE Conflict(r) /\ UNCHANGED row
    /\ UNCHANGED <<reading, broken>>

(* Neither the request nor the config bounds these numbers; the columns do. *)
Storable(t) == t.priority <= MaxInteger /\ t.attempts <= MaxInteger

(* bulk_insert; a number that is out of range is no conflict. *)
InsertTickets(r) ==
    /\ pc[r] = "tickets"
    /\ IF \A t \in Planned(r) : Storable(t)
         THEN /\ row' = [row EXCEPT ![r].tickets = Planned(r)]
              /\ Goto(r, "total")
              /\ UNCHANGED <<answer, broken>>
         ELSE /\ RolledBack(r)
              /\ Answer(r, 500, {})
              /\ broken' = [broken EXCEPT ![r] = TRUE]
    /\ UNCHANGED <<attempt, reading>>

(* Faulty: opens the job as a claim would. *)
TotalledRowRunning(old, n) == [old EXCEPT !.total = n, !.status = "RUNNING"]

TotalledRow(old, n) == [old EXCEPT !.total = n, !.status = "READY"]

SetTotalTickets(r) ==
    /\ pc[r] = "total"
    /\ row' = [row EXCEPT ![r] = TotalledRow(@, Cardinality(row[r].tickets))]
    /\ Goto(r, "commit")
    /\ UNCHANGED <<attempt, reading, answer, broken>>

Commit(r) ==
    /\ pc[r] = "commit"
    /\ row' = [row EXCEPT ![r].state = "committed"]
    /\ Answer(r, 201, {r})
    /\ UNCHANGED <<attempt, reading, broken>>

(* The connection breaks: the transaction is rolled back, or committed     *)
(* without the handler learning of it.                                     *)
ConnectionBreaks(r) ==
    /\ pc[r] \in {"lookup", "read", "insert", "tickets", "total", "commit"}
    /\ \/ RolledBack(r)
       \/ pc[r] = "commit" /\ row' = [row EXCEPT ![r].state = "committed"]
    /\ broken' = [broken EXCEPT ![r] = TRUE]
    /\ Answer(r, 500, {})
    /\ UNCHANGED <<attempt, reading>>

Init ==
    /\ pc = [r \in Request |-> "idle"]
    /\ attempt = [r \in Request |-> 1]
    /\ reading = [r \in Request |-> NoFolder]
    /\ row = [r \in Request |-> NoRow]
    /\ answer = [r \in Request |-> NoAnswer]
    /\ broken = [r \in Request |-> FALSE]

Handler(r) ==
    \/ LookUp(r) \/ ReadDataset(r) \/ InsertJob(r) \/ InsertTickets(r)
    \/ SetTotalTickets(r) \/ Commit(r)

Next == \E r \in Request : Send(r) \/ Handler(r) \/ ConnectionBreaks(r)

(* A handler runs to its end; whether a request is sent is up to its client. *)
Spec == Init /\ [][Next]_vars /\ \A r \in Request : WF_vars(Handler(r))

-----------------------------------------------------------------------------
(* An idempotency key never belongs to two jobs, however many requests     *)
(* were past the lookup before the first of them committed.                *)
KeyNamesOneJob ==
    \A q, r \in Committed : row[q].key = row[r].key /\ row[q].key # NoKey => q = r

(* A job that anybody can see is READY and has all the tickets it says; an *)
(* answer that names no job, other than for a broken connection, left none *)
(* behind ("a failure before COMMIT leaves no job or ticket rows").        *)
JobsAreWhole ==
    /\ \A r \in Committed : /\ row[r].status = "READY"
                            /\ Cardinality(row[r].tickets) = row[r].total
                            /\ row[r].tickets # {}
    /\ \A r \in Request : answer[r].status \in {200, 400, 404, 409} => row[r] = NoRow

(* The tickets of a job are one for every payload file of the folder, as   *)
(* one reading found it, and every metric its config does not switch off:  *)
(* no payload and no metric is left out or taken twice, and only payloads  *)
(* of the agent the config is about are evaluated.                         *)
TicketsCoverDataset ==
    \A r \in Committed :
        LET d == reading[r]
            files == {i \in DOMAIN d.files : d.files[i].kind = "payload"}
            entries == {i \in DOMAIN d.config.metrics : d.config.metrics[i].enabled # "false"} IN
        /\ \A i \in files, k \in entries :
              Cardinality({t \in row[r].tickets :
                             /\ t.file = i
                             /\ t.metric = d.config.metrics[k].id}) = 1
        /\ row[r].total = Cardinality(files) * Cardinality(entries)
        /\ \A t \in row[r].tickets : d.files[t.file].agent = {d.config.agent}

(* What an answer says is so: 201 and 200 name a committed job of the same *)
(* key that was created from the same body, and 409 is given only when the *)
(* key belongs to a job of another body.                                   *)
AnswersAreTrue ==
    \A r \in Request :
        /\ answer[r].status = 201 => answer[r].job = {r} /\ r \in Committed
        /\ answer[r].status = 200 =>
             \E q \in Committed : /\ answer[r].job = {q}
                                  /\ row[q].key = KeyOf[r]
                                  /\ BodyOf[q] = BodyOf[r]
        /\ answer[r].status = 409 =>
             \E q \in Committed : row[q].key = KeyOf[r] /\ BodyOf[q] # BodyOf[r]

(* A race for a key is never a server error: the second attempt finds the  *)
(* job whose index entry refused the first.                                *)
RacesAreResolved ==
    \A r \in Request : answer[r].status = 500 => broken[r]

(* Every request that was sent is answered, none waits for an insert that  *)
(* never ends.                                                             *)
EveryRequestAnswered ==
    \A r \in Request : pc[r] = "lookup" ~> pc[r] = "answered"
=============================================================================
