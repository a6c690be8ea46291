# TLA+ models of evalorch

evalorch runs evaluations of agent executions. An API creates *jobs*; a job has
one *ticket* per check and payload file; PostgreSQL holds both and is the queue;
runner processes claim tickets, evaluate them and write one *result* per ticket.
This directory specifies that machinery in TLA+, model-checks it with TLC on
small instances and proves its central invariants with TLAPS for all instances.

All paths below are relative to the root of the repository (`src/evalorch/...`
is the package, `runner/...` the runner process).

## 1. Inventory

| Component | Source | State | Operations | Modelled in |
| --- | --- | --- | --- | --- |
| Ticket lifecycle | `repositories/ticket_repository.py`, `job_repository.py`, `result_repository.py`, `services/ticket_service.py`, `models/enums.py`, `db/models.py` | rows of `evaluation_jobs`, `evaluation_tickets`, `evaluation_results` | claim, settle, extend lease, sweep, cancel unclaimed, reset failed, recompute progress | `TicketLifecycle`, `JobTransactions`, in the abstract `TicketVerdicts` |
| Ticket execution | `services/evaluation_service.py` | the progress of a thread through `execute_ticket` | load, scope, resolve, evaluate, persist, handle a failure | `TicketLifecycle` (against the queue), `TicketEvaluation` (against the data) |
| Recovery | `services/recovery_service.py` | none of its own | lease sweep, start-up reconciliation | `TicketLifecycle`, `JobTransactions` |
| Job control | `services/job_service.py`, `api/jobs.py` | job row with idempotency key and request hash | create, cancel, retry-failed | `JobCreation`, `TicketLifecycle`, `JobTransactions` |
| Runner process | `runner/runner.py`, `runner/main.py` | futures in flight, stop flag, counters | poll, claim, dispatch, heartbeat, drain, shut down | `RunnerLoop`, `TicketLifecycle` |
| Payload contract | `services/payload_validation.py` | none | accept or refuse a trace | `SpanTree` (the tree; the field checks are one Boolean) |
| Ticket plan of a job | `services/dataset_folder.py`, `profile_resolution.py`, `metric_validation.py` | none (files) | read folder, resolve metrics, decide the tickets | `DatasetPlan`, used by `JobCreation` |
| Context resolver | `services/context_resolver.py` | none | order spans, restrict a payload to named spans, resolve mapping paths | `ContextPaths`; the restriction also in `WorkflowOrder`, `TraceChecks` |
| Order and existence evaluators | `evaluators/deterministic/workflow_order.py` | none | match required agents against spans | `WorkflowOrder`, `TraceChecks`, `CheckOutcomes` |
| Other evaluators | `evaluators/deterministic/required_fields.py`, `tool_calls.py`, `evaluators/llm/*`, `base.py`, `registry.py` | none | functions of the mapped values, one HTTP call | `CheckOutcomes`, `TicketEvaluation` |
| Error classes, backoff | `services/errors.py`, `core/config.py` | none | classify an exception, choose a delay | `CheckOutcomes`, `TicketEvaluation` |
| API shell, database plumbing, logging | `main.py`, `api/errors.py`, `core/*`, `schemas`, `db/migrate.py` | connection pool | I/O | not modelled |

How they interact: there are no messages and no callbacks between processes.
Everything is shared state in PostgreSQL, reached through transactions at READ
COMMITTED with row locks. Inside a runner, the main thread and the pool's
threads share the set of futures, under a lock.

What is hard here, and which property looks at it (each is stated and commented in its module; section 3 lists the runs):

- runners, sweeps and operators interleave at every transaction boundary, and
  an answer may come long after its lease was lost (`VerdictsAreFinal`,
  `OnlyOwnerRecords`, `ResultMatchesTicket`);
- a commit may succeed and its answer be lost, so that a thread settles twice;
- counters and job status are derived data, recomputed by every writer
  (`ProgressExact`, and under real locks `CommittedProgressExact`);
- cancellation races with claims, settlements, retries and sweeps
  (`NoVerdictAfterCancel`, `CancelStopsWork`, `CancelLeavesNonePending`);
- ownership is by runner, not by claim (`AttemptsBounded`, `LatestClaimRecords`);
- transactions lock two kinds of rows in two orders (`NoWaitCycle`);
- one idempotency key may be used by several requests at once (`KeyNamesOneJob`);
- the folder a job is planned from is edited by people while it is read
  (`TicketsCoverDataset`, `JobsAreWhole`);
- every attempt reads the payload file anew, shows its check a restricted view of it
  and addresses spans by names that need not be unique (`NamedKeysMeanTheFile`,
  `VerdictsAreEarned`);
- an exception of any evaluator, provider or database driver is either final or worth
  another attempt, and the record of a failure can fail itself (`RetriesAreJustified`,
  `EndsWithResult`);
- futures finish while the main thread is still registering them
  (`WorkIsTaken`), and drain mode tells "busy" from "empty" (`DrainProcessesAll`);
- the contract walks along parent links a client wrote (`AcceptsForests`,
  `WalkEnds`), and a check is evaluated on a restricted view of the trace
  (`ScopeKeepsVerdict`).

## 2. Modules

- `QueueStatuses`: the statuses, the transition table of `models/enums.py` and
  the job status that `recompute_progress` computes. Used by the next two.
- `TicketLifecycle`: the queue with its runners and operators; one action is one
  transaction, or one step of a thread between two of them.
- `TicketVerdicts`: the abstract queue, what whoever created a job is promised.
  `TicketLifecycle` instantiates it as `Promise`, with the state a client can see.
- `TicketLifecycleProofs`: the theorems about the two: for any runners, for runners of
  one thread, and that `TicketLifecycle` implements `TicketVerdicts`.
- `JobTransactions`: the same transactions, statement by statement, with row
  locks, snapshots and rollbacks. `JobTransactionsProofs`: what row locks alone give.
  `JobLockProofs`, on top of it: what the lock on the job row gives.
- `RunnerLoop`: one runner process from the inside. `RunnerLoopProofs`: the theorems about it.
- `DatasetPlan`: the tickets a dataset folder is to give, or its first refusal.
- `JobCreation`: requests that create jobs under idempotency keys, from such a folder.
- `JobCreationProofs`: the theorems about the plan and about the requests.
- `SpanTree`: the payload contract's check of the span tree. `WorkflowOrder`:
  operators for the order and existence evaluators. `TraceChecks` composes the
  two: a trace is accepted, then checked. `TraceChecksProofs`: the theorems about them.
- `ContextPaths`: the context resolver. `CheckOutcomes`: the evaluators, error classes
  and backoff, as operators on resolved values. `TicketEvaluation` composes the two: the
  attempts of one ticket from the payload file to the result row.
  `TicketEvaluationProofs`: the theorems about it.
- `Subsequences`: what a filter keeps of a sequence, as used by the last two groups.
  `SubsequenceProofs`: the lemmas about it, and those about recursion up to a bound.
- `MC...`: instances for TLC. `RunnerLoop` needs none.

Definitions commented "Faulty" are what a plausible bug would make of the
definition next to them. No action uses them; substituting one makes the property
it belongs to fail, which is how each property is known to be able to fail.

### TicketLifecycle

`job`, `ticket` and `result` are the rows, reduced to the columns that decide
something. `lease` is `none`, `live` or `expired`: time only ever turns a live
lease into an expired one, at any moment, so no property depends on durations.
`available_at` is left out: a pending ticket may be claimed at any moment.
`exec[t][n]` is the thread that got the n-th claim of ticket t: where it stands in
`execute_ticket` and the worker and attempt number it was given. The claim number
does not exist in the code; the model has it to tell threads apart, and the code's
decisions use `worker` and `attempt` only. An evaluation is a choice between the
outcomes that lead to different settlements: a verdict, not applicable, an ERROR
output, a retryable exception, a permanent one.

`Settle` has the three outcomes of `TicketRepository.transition`: committed,
`StaleWorkerError`, illegal transition. A committed settlement may still look like a
failure to its thread (`AfterError`), which stands for a lost connection between
commit and answer; `ClaimTickets` has the same alternative, leaving tickets
RUNNING that no thread works on. `TransactionFails` is the rolled-back case.
`Recover` does both batches of the sweep and the recomputation after them.

Bounds: `MaxClaims` (claims of one ticket in a behaviour) and `MaxResets` (accepted
retry-failed calls). Everything else is finite by itself.

### TicketVerdicts

A ticket is open or settled with a verdict, and shows the result of that verdict; a job
is listed as open or under what its tickets came to. Three actions: some open tickets
are settled (as CANCELLED if and only if their job's cancellation was requested), a job
that is not through is cancelled, the failed tickets of a job are opened again. There
are no runners, claims, leases or attempts. The refinement mapping hides exactly
those: a ticket's verdict is its status once that is terminal, and what it shows is
the status of the result row its `result_id` points to. `PromiseKept` says that claims,
retries, heartbeats, crashes and sweeps are stutters or settlements of this queue.

### JobTransactions

A transaction is a record that moves through statements: wait for the job row, scan,
lock and update rows, count, write, commit. `job`/`ticket` are the committed rows;
`newJob`/`newTicket` are what the holder of the lock made of them. An UPDATE finds
its rows in the committed state, waits for each that is locked and re-checks its
condition on the newest version, as READ COMMITTED does; `SKIP LOCKED` statements
take what is free. Left out: attempt numbers (the sweep chooses between RETRY and
FAILED freely), result rows, and the KEY SHARE locks of foreign keys (taken by
inserts into `evaluation_results` only, after the job was locked by the same
transaction).

This module is why `TicketLifecycle` may treat transactions as atomic. It also
shows the one place where that is not so: `recover_expired_leases` reads
`cancellation_requested_at` through an unlocked join, in the snapshot of its
statement (section 6, item 3). `TicketLifecycle` leaves that race out; what it says of
cancelled jobs (`NoVerdictAfterCancel`) holds outside of it.

### RunnerLoop

The main thread is a program counter through `run_forever`, `run_once`, `_submit` and
`_await_inflight`; a pool thread is `queued`, `running`, `resolved` (its future has a
result, callbacks pending), `done`. `inflight` and `watched` are `_inflight` and the
futures with a registered callback. Which transaction happens to the rows does not
matter here: a claim takes as many runnable tickets as its limit allows, or fails,
committed or not. `max_iterations` is left out: neither `main` passes it.

### JobCreation

One handler per request: lookup of the key, the reading of the dataset, the insert
of the job, the inserts of its tickets, the total, the commit. A row is `absent`,
`inserted` (seen by its own transaction and by the unique index) or `committed`.
`InsertJob` waits while an uncommitted row of the same key exists, as the index
does, and then inserts or gets the `IntegrityError`, upon which `_create` runs once
more. Connections may break at any point; a break at the commit may leave the job
committed. Tickets whose priority or number of attempts no integer column takes make
the insert fail, and the transaction with it. (Numbers of the metric that are infinite
or NaN are refused in the same transaction, by the jsonb column of the snapshot.)

The folder a request reads may be another at each reading. `DatasetPlan` follows it
from the names of its files to the tickets: `ReadOutcome` is `read_dataset_folder`,
`AgentOutcome`, `MetricsOutcome` and `EntryOutcome` are the checks of
`profile_resolution.py` in their order, `Normalized` is what a ticket carries of a metric.
Texts, identifiers and the other fields of a metric are abstracted to whether they are
well-formed. An outcome is the HTTP status of the refusal, 0 for none, 500 where an
exception passes all handlers (an infinite weight: `int` raises `OverflowError`).

### ContextPaths, CheckOutcomes, TicketEvaluation

A payload file is a JSON document, a record whose `kind` says which value it is, and a
path is the sequence of tokens `parse_path` cuts it into. `ScopePayload`, `ResolvePath`
and `ResolveInputMapping` are the resolver; `CheckOutcomes` has each evaluator as an
operator from resolved values, parameters and, for the judge, what came of asking the
provider, to how the evaluation ended: a verdict, an ERROR output or an exception with
its type. `ClassifyError` and `BackoffForAttempt` decide what follows.

`TicketEvaluation` is `execute_ticket` for one ticket: `Load` reads the file, which may
be another one at every attempt or gone, restricts it to the spans the metric names and
resolves the mapping; `SettleNotApplicable`, `MissContext` and `Evaluate` are its three
endings, each through `Persist` or `HandleFailure`. The database refuses values that jsonb
cannot hold (NaN, the infinities, NUL characters, all of which the JSON functions of
Python let through); when it refuses the record of a failure too, the exception leaves
the thread, and `Recover` is the sweep that finds the ticket later. Who claims the ticket,
and crashes and cancellation, are left to `TicketLifecycle`.

Two operators of the code call themselves on the parts of a document: `_traverse` on what
a path has reached, and the check whether a value can be stored. Their recursive calls go
through the constants `TraverseBelow` and `StorableInside`, for which the instance of the
run gives `Traverse` and `StorableValue` themselves (by the names `TraverseOn` and
`StorableOn` of the MC module). So TLC runs the code's recursion,
and the theorems hold whatever is below: none of them depends on how deep a value is.

`SelectedBy` and `Holders`, which the properties use, read a path and a file
independently of the resolver's operators.

### SpanTree, WorkflowOrder, TraceChecks

`SpanTree` executes the two loops of `_validate_span_tree` step by step, so that
their termination can be stated. The order evaluator is written as operators:
`Advance` is one round of its greedy loop. In `TraceChecks` an accepted trace gets
names (the contract demands one per span) and other identities, in any order of
start, and any check is evaluated on it the way `execute_ticket` does: restrict the
payload (`_metric_span_names`, `scope_payload_to_spans`), test `applies_when`,
evaluate. `agent` stands for `agent_id`, `agent_type` and `span_id`, which the code
treats alike after the name.

Two things the model shows and the documentation of the evaluator does not say:
strict mode compares a prefix of the spans the ticket is shown, and those are only
the spans the metric names anywhere, so that "exact positional match" holds of a
restricted trace; and `ignore_missing` has no effect in strict mode.

## 3. Runs

| Run | Question | Instance |
| --- | --- | --- |
| `lifecycle_threads` | Do rows, results and counters agree under every interleaving, and are verdicts final? Does the queue implement `TicketVerdicts`? | two runners of two threads, two tickets of one job with two and one attempts, two claims each, one reset, both runners mortal |
| `lifecycle_single_thread` | Do tickets end, do cancelled jobs stop, is `max_attempts` a bound? | two runners of one thread, one immortal, three claims |
| `transactions` | Do the transactions keep these promises statement by statement under READ COMMITTED, without deadlock? | three concurrent transactions of all eight kinds, two tickets of one job or of two, from any resting state |
| `runner_loop` | Does the polling loop lose a slot, overbook one, or leave drain mode early? | three tickets, two of them arriving later, two threads, both modes, one failing claim, a stop at any moment |
| `creation_race` | Do racing requests with one key make one job, and does it have exactly the tickets of its folder? | five requests: three with one key and two bodies, one with a priority out of range, one with a bad key; a good folder of two payloads and two enabled metrics, and one folder for each thing that can be wrong with files, config or a metric |
| `ticket_evaluation` | Are values, verdicts, retries and records right for what the file and the provider gave? | four attempts, two delays; 312 files of up to two spans, 19 mappings and 855 metrics of four evaluators, 18 answers of a provider |
| `trace_checks` | Does the contract accept exactly the forests, and does the order check decide what it promises on what it is shown? | all traces of up to three spans, two names, one further identity, orders of up to two names |
| `lifecycle_cancel_retry`, `lifecycle_attempts`, `transactions_cancel_sweep`, `runner_drain_failed_claim`, `runner_grace` | Counterexamples to what the documentation says, see section 6 | the smallest instance each |

Why these bounds are enough to be of use. Everything that can go wrong with a
ticket in `TicketLifecycle` needs two claims of it: a late thread of the first
against the second. A third claim matters for attempts only, and
`lifecycle_single_thread` has it. Counters need two tickets in one job, since a
count that ignores the other ticket is right with one. Two runners with two threads
each cover both kinds of superseded thread: that of another runner, and that of the
same. Three concurrent transactions allow every cycle of waits over two tickets and
their jobs and every race of two transactions observed by a third. `RunnerLoop`
needs more tickets than threads, so that the pool is full while work waits. With
three requests of one key one can be inside its transaction while the second waits
and the third looks up. Three spans are enough for a cycle that a third span leads
into, siblings and chains, and an order of two names for a repeated one. Two spans
make a name ambiguous, put a name against an id, and give a selector something to hide;
four attempts with two delays go beyond the end of the list. Two payloads and two
metrics tell a plan by payload from one by metric.

Symmetry is used only in runs without liveness properties: over runners in
`lifecycle_threads`, over sessions, tickets and jobs in `transactions`. Deadlock is
checked where the system never stops (the lifecycle runs: a sweep or a poll is
always possible). It is not checked where it may stop: all `MaxBegun` transactions
are over, the process has exited, every request is answered, the check is evaluated,
the ticket is settled.
A deadlock among transactions would be a cycle of waits, which `NoWaitCycle` is about.

## 4. Fairness

- `TicketLifecycle`, `FairSpec`: a thread that is alive goes on; a lease that no
  thread extends expires; the sweep comes by again and again and takes every expired
  ticket; runners outside `Mortal` keep polling, and a ticket that stays claimable
  is claimed. These are `run_forever`, which polls until it is stopped, the batch
  orders of claim and sweep, which let no ticket starve, and evaluators that end:
  deterministic ones compute, the judge's HTTP client has a timeout. Crashes,
  cancellations and operator calls have no fairness. `TicketsEnd` therefore needs one runner
  that does not crash, and a bounded number of crashes and resets, which `MaxClaims`
  and `MaxResets` give.
- `RunnerLoop`: weak fairness of the main thread and of each pool thread. Nothing is
  assumed of the stop signal, of other runners or of later tickets.
- `JobCreation`: a handler that can go on does; whether requests are sent and
  connections break is left open.
- `TraceChecks`: the contract's loops go on.
- `TicketEvaluation` has safety properties only; that its steps go on is `TicketsEnd`.

## 5. Proofs

`TicketLifecycleProofs` proves for every set of jobs, tickets and runners, every
capacity, batch size and bound: type correctness, `RowShape`, `ResultMatchesTicket`,
`ProgressExact`, and the action properties `VerdictsAreFinal`, `NoVerdictAfterCancel`
and `OnlyOwnerRecords`. The only assumption is `LifecycleAssumption`, on the types of
the constants. The argument:

1. `TypeOK` is inductive.
2. `RowsSound` relates a ticket row to its result row: an owner and a lease exactly
   while RUNNING, a result shown only by a ticket settled with the verdict of that
   result, and always by one that is DONE or NOT_APPLICABLE. It strengthens `RowShape` and `ResultMatchesTicket`, which are
   not inductive alone: that the row is RUNNING at a settlement is what makes the
   result match afterwards. `NextRowStep` reduces every action to what it may do to
   one row, `SoundOperations` shows that each of these keeps a sound row sound.
3. `ProgressExact` holds because every transaction that touches a status recomputes
   the jobs of the tickets it touched, in the same step.
4. The action properties follow from `RowsSound` and the case split of `Next`.

The same module proves `PromiseHolds`: `Spec` implements `Promise!Spec`, for the same
constants. The additional invariant is that a ticket is CANCELLED, and a thread about to
settle one so, only after the job's cancellation was requested, and that a job is listed
under what its tickets came to (`ReportFollows`). The second follows from `ProgressExact`
by `ListedStatus`, which compares `recompute_progress` with the abstract `Listed`. Every
action then maps to a settlement, a cancellation, a reopening, or a stutter.

It also proves `AttemptsBounded` and `LatestClaimRecords` under `Capacity = 1`. The run `lifecycle_attempts` shows that `AttemptsBounded` fails without
that assumption. The invariant adds to `TypeOK` and `RowsSound`: a runner has at most one thread
(`OneThread`); a thread whose runner owns its ticket is that of the latest claim and
counts attempts as the row does (`Current`); a pending ticket has an attempt left
(`AttemptLeft`). `Current` is what `worker_id` alone does not give: with one thread a
runner claims only when it is idle, so a row that names it names that one thread. The
settlement as RETRY is then decided by the row's own number of attempts.

`RunnerLoopProofs` proves `TypeOK`, `EveryClaimHasAThread` and `DrainProcessesAll` of
`RunnerLoop` for any pool, batch size and set of tickets. The main thread reads its
capacity before it claims, and pool threads finish in between: the inductive invariant
`IInv` says that the idle threads it counted are still there at the claim (`Slots`),
because only the main thread submits. Its other parts keep the books: each ticket counted
as processed once (`Counted`), where tickets are at each point of the loop (`Places`), the
futures that are tracked (`Tracked`), and that an empty claim was an empty queue
(`Emptied`).

`JobTransactionsProofs` proves `TypeOK`, `LeasesFollowRows` and
`CommittedTransitionsLegal` of `JobTransactions`, for any number of sessions, jobs and
tickets, any of the eight kinds of transaction, from `TransactionsAssumption` (the set of
tickets is finite, since they are counted). The inductive invariant `LInv` says of every
locked ticket that what its holder made of it follows from the committed row by a legal
transition, and of a free one that both are the same (`RowsFollow`); and what a begun
transaction has asked for and found (`Begun`). A row is locked at its newest version and
its condition is checked on that version, and the committed row cannot change under a lock,
so what was read before the lock, in an older snapshot, does not matter.

`JobLockProofs` proves `CommittedProgressExact`, which needs more: a count is a
read of rows that others are changing. The invariant `PInv` adds, for each session, which
locks it holds at each statement (`Places`), that it settles or reopens a ticket only while
it holds the row of its job (`Guarded`), and that each job row it holds agrees with the
tickets *as it sees them*, but for the jobs it still owes a count (`Fresh`). Sessions that
hold other jobs can commit only rows that count alike in this view; those that claim or
heartbeat without the job lock leave a ticket unsettled. At the commit the view
becomes the committed state. The lock of `get_for_update` before the count is what gives
`Guarded`; without it (`BeginSettlementUnlocked`) the property fails.

On top of `PInv` the same module proves `NoWaitCycle` and `CancelLeavesNonePending`, with
the invariant `WInv`. For the first it says in which order a transaction locks: whoever
waits for a job holds nothing, and tickets are waited for under the lock of their job or,
by a heartbeat, while holding nothing. A wait then leads to a session that runs in at
most three more (`Waits`, `RowHoldersRun`): from a job to the holder of that job, from
there to the holder of one of its tickets, which waits for nobody. A set of sessions that
waits in itself, of any size, would contain one that does not wait. For the
second it says of a cancellation that the pending tickets of its job are those its
update has still to visit, since nobody else makes a ticket of the job pending
without its lock.

`JobCreationProofs` proves `PlanCoversFolder` of any folder that is not refused: one ticket
for each payload and enabled metric, exactly one, at least one altogether, and only
payloads of the configured agent. The argument is a bijection between the pairs of files and metrics
and the tickets, which needs that metric identifiers differ (`MetricIdsDiffer`).

It proves `TicketsCoverDataset` from that, and `TypeOK`, `KeyNamesOneJob`, `JobsAreWhole`,
`AnswersAreTrue` and `RacesAreResolved` of `JobCreation`, for any requests, keys,
bodies and folders, from `CreationAssumption`. The inductive invariant `IInv` adds
what is true of uncommitted rows: no two rows carry one key, committed or not, and
`Local` says what the row looks like at every point of its handler. That a second
attempt cannot be refused again is `Refused`: the job that refused the first one is
committed, committed rows stay (`CommittedStays`), so the lookup finds it.

`TraceChecksProofs` proves of `TraceChecks`, for traces of any length up to `MaxSpans` and
any names, identities and orders:

1. `AcceptsForests`: the contract accepts exactly the traces in which every span is sound
   and the parent links reach a root from everywhere. The invariant (`TreeInv`) says that the spans the
   walks went through so far are grounded, that is, have depths that fall along the parent links
   (`Grounded`), and that the current walk has met only spans that would be if the one it is at
   is (`WouldGround`), each deeper than it in any forest (`MetIsDeeper`). A walk that ends
   at a root or a known span therefore extends what is grounded, and one that
   meets a span twice would be deeper than itself.
2. `PassesWhenEmbedded`: the greedy loop of the order check is exact. If the required names
   can be placed in increasing positions at all, the loop's cursor never is behind the placement
   (`LoopFindsAnOrder`), and what the loop passes is such a placement (`LoopGivesAnOrder`).
3. `ScopeKeepsVerdict`: with order but without strict mode, the restriction to
   named spans changes no outcome. It keeps exactly the spans a required name
   can be placed on (`PlacedInScope`), and embedding survives a filter that keeps those.

`TicketEvaluationProofs` proves of `TicketEvaluation`, for all files, metrics, answers and delays
that fit its assumptions (a path is a non-empty sequence, selectors are those
`split_span_selector` knows, instants and scores are numbers, `parse_path` and
`metric_validation.py` give no others):

1. `RetriesAreJustified` and `EndsWithResult`, from `AttemptInv`: a thread is lost only
   to values that cannot be stored. Every path to the end of an attempt is reduced to
   three ways it may leave the ticket (`AttemptEnds`), by `FailureEnds` and `PersistEnds`;
   `RunIsFinal` shows that no evaluator raises a transient error unless a provider was asked.
2. `NamedKeysMeanTheFile`, from `VerdictInv`: what is resolved comes from the file of this attempt.
   Sorting and filtering only move and drop spans (`Shows`, which composes), the sort drops none
   since ranks are distinct (`RankIsOnto`), and no filter drops a carrier of a name the
   metric knows (`ScopedShows`). As many spans carry the name in what is shown as in the file, and if it
   is one it is the same (`CarryingShown`), so `find_span` gives the same value or the same
   error code (`FindInScope`).
3. `VerdictsAreEarned`, from the same invariant, with one lemma for each evaluator. A verdict
   about spans uses the argument of item 2 for every required name.

`SubsequenceProofs` has what both rest on: what a filter keeps is the
increasing enumeration of the positions that pass (`KeptElements`). Induction over data is not
available to these provers as a rule, but over a bounded set of numbers the least element is
(`LeastElement`), which gives induction up to a bound (`UpTo`) and that a function defined
by recursion up to a bound exists (`RecursionUpTo`). The models define filters and loops this way
for that reason.

Only model-checked: liveness under fairness (`TicketsEnd`, `CancelStopsWork`, `WorkIsTaken`,
`StopIsHeeded`, `DrainEnds`, `EveryRequestAnswered`, `WalkEnds`), which is out of the prover's
reach. Every safety property of a passing run is stated by a theorem.

## 6. What disagrees with the documentation

1. `lifecycle_cancel_retry`: a transient failure after the cancellation leaves the
   ticket of a cancelled job in RETRY (`evaluation_service.py:602`), although
   `job_service.py:308` says the runner or the sweep settles it as CANCELLED. Nothing
   claims or sweeps it; a second cancel request does settle it.
2. `lifecycle_attempts`: with more than one thread per runner, a ticket can be granted
   more than `max_attempts` attempts, because settlements are accepted by runner
   (`ticket_repository.py:204`) and decided by the attempt number of the claim.
3. `transactions_cancel_sweep`: the lease sweep reads the cancellation from its
   statement's snapshot, before it waits for the job (`ticket_repository.py:367`).
4. `runner_drain_failed_claim`: `--drain` ends at the first failed claim while idle
   (`runner.py:200`).
5. `runner_grace`: after the shutdown grace nothing loses its lease, the process waits
   for its threads without limit (`runner.py:258`).

Observed while modelling, without a run of its own. The models do what the code does
in each of these; the properties are stated around them.

Paths and spans:

- `spans.order:1` names the span "order:1" for `_span_token_from_path`
  (`evaluation_service.py:94`), so the ticket is shown no span unless another key names one.
  `order:1` alone restricts nothing.
- Indexes, wildcards and `order:` count the spans a ticket is *shown*: another key of the
  same mapping changes what they select. `NamedKeysMeanTheFile` is therefore about names and ids.
- A wildcard drops the items that lack the rest of the path, although
  `context_resolver.py:22` promises a code instead of a silent wrong value.
- The default of a key stands in for an ambiguous span too. `nullable` does not help a
  null of a key with a type: that is INVALID_TYPE.
- A span whose name contains a dot cannot be addressed by name.

Evaluators:

- `required_fields` without `fields` checks the keys that were *resolved*: an optional
  key that is missing is not looked for, although its docstring says every mapped
  key is required (`required_fields.py:47`). With no keys at all it passes with score 0.
- `_coerce_spans` takes an object for a map from agents to spans; given one span, its
  fields that are objects count as spans.
- The judge: `passed` decides whenever it is present, by `bool`, so that "false" is true
  and null is false; a JSON verdict without `passed` and `score` is FAILED, not the error
  `judge.py:190` has for an unparseable one; the score "nan" becomes 1.0; scores are
  clamped to [0, 1] but thresholds are not.
- A missing API key is a `RuntimeError`, hence retried.

Recording:

- NaN, infinities and NUL characters in a mapped value make every attempt to record fail.
  The ticket of a deterministic check is retried through all its delays, then left RUNNING
  until its lease expires, and ends FAILED without a result.
- An attempt does not validate the file it reads again.

Creation:

- An infinite `weight` (JSON `Infinity`) or a priority beyond 32 bits is answered 500.
- The request's `max_attempts` has no effect, since `freeze_metric` always fills one in.
- A metric of type "deterministic" with the plugin `llm_judge` becomes an LLM judge.
- The unique constraint on job, payload and metric cannot be violated (`PlanCoversFolder`).

## 7. Not modelled, and plans

Not modelled, because there is no state or choice of the program in it: the API shell,
response models, connection pool, migrations, logging and metrics. Durations are
modelled as "at any moment". The wording of errors, evidence and prompts, the text
inside names, priorities as the order of claims, and the random jitter of a delay are
abstracted away, as is the HTTP client of the judge. `applies_when.equals` is not in
`TicketEvaluation`: the metrics `profile_resolution.py` freezes have `required_spans` only. The accuracy of the external
PostgreSQL behaviour the models rest on (row locks, READ COMMITTED re-checks, unique
indexes, what jsonb refuses) is assumed, not checked.

Next, in this order:

- that the retries and ends of `TicketEvaluation` are those `TicketLifecycle` chooses from, as a
  refinement of one ticket's thread;
- what `_traverse` gives below a wildcard, for documents of bounded depth;
- the equality of identifiers between the sections of a payload, in `SpanTree`.
