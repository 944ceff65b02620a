# Agent Shield in TLA+

Agent Shield puts a gate in front of the tool calls of an LLM agent. The SDK in
the agent's process signs a record of every call, chains it to the record
before, and asks the shield server for a verdict; the server keeps the chain,
runs the guardians, signs the verdict, and feeds a stream from which slower
guardians judge every record again. This directory holds TLA+ modules of those
parts and of the accounts, reads and evaluation harness around them, TLC
configurations that check them on small instances, and proofs that TLAPS checks
for all instances.

Paths below are relative to `packages/`: `server/` is
`shield-server/src/shield_server/`, `gov/` is
`shield-governance/src/shield_governance/`, `sdk/` is
`shield-sdk/src/shield_sdk/`, `eval/` is `shield-eval/src/shield_eval/`.

    tlc -workers 2 -config IngestChain.cfg MCIngestChain.tla
    tlapm IngestProofs.tla

`PROJECT.json` names every run with its module and properties, the source lines
each definition translates, for every property a mutation of the code that
breaks it, and the hazards with the properties that watch over them.

## The system

| Part | State | Operations | Modules |
| --- | --- | --- | --- |
| Agent registry (`server/agents.py`) | tables `agents`, `agent_keys` | register, freeze, unfreeze, revoke key, delete | `Registry` |
| Ingest (`server/ingest.py`, `server/governance.py`) | tables `operations`, `receipts`, `governance_verdicts`, `intervention_log`; nonce keys and chain hints of the cache; object store; streams `shield:actions`, `shield:verdicts` | `submit_operation`, `decide`, `record` | `Ingest`, `HashChain` |
| Replay window (`server/ingest.py`, `server/storage/cache.py`) | the nonce key and the clock | validate, `SET NX EX` | `ReplayWindow` |
| Verdict worker (`server/async_verdict_worker.py`, `gov/channel2.py`) | positions and acknowledgements of the readers, late verdicts | `run_once`, the handler, `publish_async_verdict` | `VerdictWorker` |
| Guardians (`gov/router_guardians.py`, `gov/evaluator.py`, `gov/evidence.py`, `gov/memory/`) | traces and evidence rows of a process, incident memory | evaluate, audit, recall, remember, reflect, hand off | `Guardians` |
| Supervisor (`gov/supervisor.py`) | none | `decide` on the signals of all guardians | `Supervisor` |
| SDK gate (`sdk/instrument/agentdojo/elements.py`) | the message, decisions per tool call, client chain head, thread pool | `ShieldGuard`, `ShieldedToolsExecutor`, `ShieldRecorder` | `ShieldGate` |
| Defender, HITL (`gov/defender/`, `gov/graph.py`, the resume route) | running totals, LangGraph threads, resolution of incidents | `decide`, `resume` | `Governance` |
| Epochs and reads (`server/epoch_scheduler.py`, `server/merkle.py`, `server/reads.py`, `server/audit.py`) | table `epochs`, artifacts | `run_epoch_once`, epochs on demand, exports, views, pages | `Merkle`, `Evidence` |
| Accounts (`server/auth/`) | users, memberships, sessions, tokens, invites, second factors, rate windows | sign in, reset, accept, recover, refresh, change, demote | `Accounts` |
| Model router, air-gap verifier (`gov/model_router.py`, `gov/air_gap_verify.py`) | none | resolve a role, attest | `ModelRouter`, `AirGap` |
| Evaluation harness (`eval/`) | case rows, tables of decisions, evidence seen | plan, run the grid, drain, assert | `EvalPlan`, `EvalGrid`, `EvalAsserts` |
| Console, scripts, containers, schemas | none that others write | pages, benchmarks | not modelled |

How they interact: the gate calls `decide` and `record` over HTTP from a pool of
threads. Each server request is an asyncio task whose storage calls are its only
await points, and nothing but the database orders two tasks: `operations` is
unique by `operation_id` and by `(agent_id, seq_no)` and refers to `agents`.
`decide` awaits the governance graph between reading the head of the chain and
writing. Committed records go to `shield:actions`; a worker task in the
application's lifespan, or worker processes with consumer groups of Redis, read
it, run the guardians over each record and publish a late verdict. A verdict of
ESCALATE leaves its LangGraph thread paused in the memory of the process until
an operator resumes it. Epoch schedulers and reading clients see the committed
tables while the ingest goes on. The harness runs the gate against an in-process
server and plays the worker itself, between two cells of its grid.

What is hard: everything a request read may be stale when it writes; a request
may end at any await (an exception, a client that has gone, the process dying),
leaving its earlier writes behind; objects and streams are outside the
transaction; the gate gives up on requests that go on; workers die between
judging and storing; a guardian that failed is asked again by a process that
remembers the first attempt; threads of LangGraph are shared by all records of a
run; two statements of one handler of the accounts have another request's
statements between them.

What makes each part correct:

* Ingest: the rows of an agent form one gapless, unforked, hash-linked chain;
  what is committed has its evidence, and verifies until a governance request of
  the same id puts its envelope in the place of the record; requests that come
  after a freeze or a revocation are stopped; streams carry what was committed.
* Replay window: a record passes once while it is valid.
* Verdict worker: nothing is acknowledged unjudged, nothing judged twice by one
  worker; a new worker that does not fail catches up with what earlier ones left;
  rows, objects and stream of the late verdicts agree.
* Guardians: a verdict leaves with the evidence of every guardian and none of an
  attempt that failed; nothing a model says overrules an audit that failed or a
  structuring trace; the memory agrees with what the verdict reports.
* Gate: no call of a fail-closed tool runs without a verdict on that call, a
  rollback undoes the effect of its call, and a silent server never stops the
  loop; the client's requests never fork the server's chain.
* Governance: what passes without a human stays within the cumulative cap, up to
  what negative amounts take off the running total; only escalations are
  overruled, only answered incidents are resolved.
* Epochs and reads: epochs have their artifacts and grow, committed operations get
  into them, answers put together from two reads agree, pages lose nothing.
* Accounts: lockout and count agree, a reset ends the sessions of before, a link
  or a code serves once, an address has one account.
* Harness: a report has a row for each cell, evidence is credited once, MEASURED
  means that the oracle was asked; an accepted plan fits its budget.

## Modules

**`HashChain`** is the abstract specification of the ingest: for each agent a log
that grows by one entry at a time, in which no operation id appears twice.

**`Registry`** has the two tables and the management handlers of
`server/agents.py`. A handler is `AdminCall`, the check it awaits
(`AdminCheck`, `AdminCheckKey`), and its write (`RegisterCommit`,
`SetStatusCommit`, `RevokeCommit`, `DeleteCommit`). It is a part of `Ingest`,
which extends it and supplies the foreign key that deletion meets.

**`Ingest`** has the three write routes. A request slot walks through the await
points of its route:

| `pc` | Action | Code |
| --- | --- | --- |
| `idle` | `Receive` | a record that passes `validate_record_fields` arrives |
| `nonce` | `CheckNonce` | `set_if_absent("nonce:...")` |
| `agent`, `key` | `CheckAgent`, `CheckKey` | status of the agent; status of the key and the signature |
| `prev` | `CheckPrev` | latest row, `prev_chain_hash`, next `seq_no` |
| `envelope` | `PutEnvelope` | `objects.put` |
| `receipt` / `gov` | `PutReceipt` / `Govern` | EAR of `submit_operation` / verdict of `decide` with its object |
| `commit` | `Commit` | the transaction, refused by `Conflict` or the foreign key |
| `fan`, `hint`, `fanVerdict` | `Fan`, `SetHint`, `FanVerdict` | XADD, chain hint, XADD |

`Abort` ends a request at any await with the writes made so far; `ExpireNonce`
is the cache's clock. SHA-256 is taken as injective, so a chain hash is the
sequence of entries it commits to; a signature is the key that made it. The
history variable `barred` holds the requests for which the agent or key has
been out of force ever since they arrived. `Verifies` is `verify_operation`
(`SignatureHolds`, `LinkHolds`, `ReceiptHolds`), which parses what lies under the
object key as an operation record; `Replaced` says that a governance record lies
there.

**`ReplayWindow`** is the arithmetic `Ingest` abstracts: milliseconds of the
record, whole seconds of the nonce key, and a handler that reads the clock
before its call reaches the cache.

**`VerdictWorker`** has the workers, both transports, and the publication of late
verdicts. `Publish` stands for the ingest, `Read` and `Take` are `run_once`,
`Check` to `Ack` the handler, with `GuardianFails` for the exception that leaves
`run_once` and ends `run_loop`. In the cache transport the position of the reader
is a field of the worker's transport: a caller may call the same worker again
(`CallAgain`, the drain of the harness) or make a new one over the same cache
(`Restart`), and when the process dies the stream, the rows and the objects go
with it (`ProcessDies`), as the application takes this transport with the
in-memory cache only. In Redis stream and position survive.

**`Supervisor`** is `decide` as a function of the guardians' signals: risk bands,
conflict and its arbitration, hard overrides. Scores, weights and thresholds are
whole percents, compared exactly.

**`Guardians`** opens up the `Judge` step of `VerdictWorker`: worker processes that
analyse a delivered record (`Deliver`, `Analyze`), ask the models of the Evaluator
(`Reason`, `Remember`, `CheckHallucination`), audit it (`Audit`) and decide
(`DecideAlone`, `DecideArbitrated`). Each model call is a step that may fail
(`ModelFails`, `PriceMissing`), each process may die between two and start again.
Traces and evidence rows live in the process, the incident memory in a Chroma
collection that outlives it or in a window that does not. It extends
`Supervisor`.

**`ShieldGate`** has one run of one agent: `Generate` is the model's message,
`GuardSend`, `GuardAnswer`, `GuardGiveUp` the guard, `Execute` the executor,
`RecordSend`, `RecordReturn` the recorder, `Dispatch` and `ThreadGivesUp` the
pool, `Accept` and `Refuse` the server, which is the atomic step that `Ingest`
details. A request the guard has given up stays queued or on the wire.

**`Governance`** has the decision graph and the resume route. `Assess` is the
Defender up to its first await (rules and running total, for amounts of either
sign), `Escalate` the rest of
the graph, `Commit` the verdict row; `ResumeCall`, `ResumeLoad`, `ResumeGraph`
and `ResumeUpdate` are the await points of a resume. LangGraph itself is
external: the module assumes what its opening comment says of it.

**`Merkle`** is the tree over the chain hashes of an epoch as recursive functions,
with a hash as the term it is computed from. **`Evidence`** extends it with what
reads the operations while they commit: two schedulers whose run is a step per
statement, the routes that compute an epoch when none is stored, exports, the
views that read two tables, and clients that page through audit log, timeline
and incidents. Operations are stamped when their request arrives, so stamps do not
commit in order. A verdict of ESCALATE is an incident whether the gate gave it or a
late judgement.

**`Accounts`** has the handlers of `server/auth/routes.py` with the tables they
share, a request as a process and each statement it awaits as a step. The ids of
rows are their places in the sequence that stands for a table; `Lapse` is any
deadline that passes and `NextWindow` the clock of the rate limit. `Abort` ends a
request after any of its statements (an exception, or the death of the server). Statements of
one transaction of `users.py` run on the connections the pool gives them.

**`ModelRouter`** says which models a profile gives the roles and where their
clients send calls; **`AirGap`** extends it with every check of the air-gap
verifier and the verdict over them.

**`EvalPlan`** is the budget arithmetic of a run (in micro-dollars). **`EvalGrid`**
extends it with `run_ab --full`: `Estimate`, `ResolveArm`, `StartServer`,
`StartCell`, `ToolCall`, `EndQuery`, `Raise`, the drain (`DrainOne`, `DrainEnd`)
and `EndCell`, or `MockGrid` when the rows come from a template. Over http the
pipelines of all shield arms share the table of decisions in `extra_args`; in a
real run the worker passes a copy on (`eval/run_ab.py:100`), so each pipeline has a
table of its own, which `EndQuery` taps and drops.
**`EvalAsserts`** is the assertion language of a small run.

**`IngestProofs`**, **`VerdictWorkerProofs`**, **`GovernanceProofs`**,
**`ShieldGateProofs`**, **`AccountsProofs`**, **`GuardiansProofs`** (with the theorem
about `AirGap`), **`EvidenceProofs`** (with the one about `Merkle`) and
**`EvalProofs`** (about `EvalPlan`, `EvalAsserts` and `EvalGrid`) hold theorems, the
ones about `ReplayWindow` being in `IngestProofs`; the **`MC...`** modules hold the
symmetry sets and the values of the runs. **`IngestHistory`** adds to `Ingest` a
history variable with the agents registered after the start,
`MCEvidence` divides the behaviours of `Evidence` among three parts.

## Runs

Runs that pass:

| Run | Instance | Question |
| --- | --- | --- |
| `IngestChain` | 2 requests of `decide`, 2 operation ids, 1 agent | `ChainIntact`, `EvidenceBacked`, `StreamsExact`, and that `Ingest` implements `HashChain`, while two requests race |
| `IngestAdmin` | 1 request at a time of `submit_operation` or `record`, 1 operation id, 2 management tasks with every call | `BarredStopped`: a freeze or revocation stops whatever arrives after it; `VerifiesUnlessReplaced`: evidence outlives revocation, deletion races and refused requests, up to a governance envelope of the same id |
| `ReplayWindow` | 2 deliveries, 12 instants, 5 TTLs, 3 passes | `NonceOutlivesRecord`, `PassesApart` |
| `Verdicts` | 1 worker over the in-process cache, 3 entries (one may be poison, one gated), batches of 2, 1 death of worker or process | `AckedIsJudged`, `JudgedOnce`, `LateVerdictBacked`, `NewWorkerCatchesUp` |
| `Guardians` | 2 processes, 3 records of a run (2 transfers, one of them an outcome), 1 death, the default policy | `EvidenceComplete`, `OverridesHold`, `StructuringCaught`, `MemoryAgrees`, `RecallsOthers` |
| `ShieldGate` | 2 tool calls in one or two messages, a pool of 1, two tools of which the runtime has one | `RollbackUndoes`, `ClosedToolsGated`, `ServerChainIsPrefix`, `LoopGoesOn` |
| `Governance` | 2 records of one run with amounts of either sign, 2 resumes at a time, 1 restart | `PassedWithinCap`, `OnlyEscalationsOverruled`, `ResolvedWasAnswered` |
| `Evidence` | 3 operations, 2 schedulers or 1 client, pages of 1 row, 2 clock ticks, 1 death | `EpochsBacked`, `EpochsNested`, `CatchUp`, `AnswersAgree`, `PagesExact` |
| `Accounts` | 2 requests at a time of 3 begun, 13 operations, 2 passwords, 2 addresses, 1 lapse | `LockoutMatchesCount`, `ResetEndsSessions`, `RedeemedOnce`, `OneAccountPerAddress`, `SecondFactorUsable`, `NeverCountsTwice` |
| `EvalGrid` | 3 arms (one unknown, one shielded), 2 user and 2 injection tasks, 1 call per query, all three backends, 3 budgets | `RowsComplete`, `EvidenceOnce`, `MeasuredBacked` |

Runs that find what a document says violated:

| Run | What it shows |
| --- | --- |
| `VerdictsRedelivery` | Redis reads ask for `>` only and nobody claims pending entries, so a record whose handler failed is not delivered again (`gov/channel2.py:137`; the docstring at 152 says it is). |
| `ResumeIncident` | A resume addresses the thread of the run, not its incident: after a second record of the run, the human decision goes to that one or nowhere, and the first incident is marked resolved (`server/governance.py:501`). |

`TypeOK` is checked in `IngestChain` and `Verdicts`, where a mutation of the code
breaks it and a theorem states it. `TypeOK` of `ReplayWindow`, `ShieldGate`,
`Governance`, `Accounts`, `Guardians` and `Evidence` says what their variables
hold; they are true of the instances above, and proved for all of them
(for `ReplayWindow` as a part of its invariant).

### Why the bounds are enough

* Request slots and management tasks of `Ingest` are used again without bound, so
  a run with two slots contains every sequence of requests of which at most two
  overlap. The races of the ingest are between two: both read the same head, one
  commits first. What grows is bounded by the ids: with two operation ids a chain
  has length two, which is what it takes to append to a chain that is not empty, to
  meet both unique keys, and to replay an id after its successor. The theorems
  remove these bounds for every invariant of the two runs and for the refinement.
* `IngestAdmin` has one request in flight, since what it is about lies between a
  request and the management calls, and two of these, for a deletion that meets a
  registration: an operation is committed and a governance request of its id comes
  after it, and any call falls between two statements of either. Two requests at a
  time, where one replaces the object the other has put and is about to commit, are
  in the theorems `VerifiesCorrect` and `BarredCorrect`, and so is a second
  organisation. An agent can be deleted between the key check of a request and its
  commit and registered again with other keys; the row then refers to an agent whose
  table has no key for it and does not verify. No document excludes it, so
  `VerifiesUnlessReplaced` excepts the signature of agents registered after the
  start.
* `ReplayWindow` takes instants on both sides of each rounding boundary: TTLs of
  999 to 2000 ms meet every residue that matters (0, 1, 999 modulo 1000). 999 is
  below `MIN_TTL_MS` and is there for the refusal.
* `Verdicts` needs three entries for a batch that is cut short with one
  entry behind the failure and one read later; one crash, or one failure, suffices
  for a re-read by a new worker, after which the state is that of a fresh worker
  with verdicts stored. Two groups
  on the stream of Redis are covered by the theorems. `JudgedOnce` is a property of
  one worker: two may both find no verdict and both store one, so with n workers a
  record has up to n rows (`JudgedPerWorker`).
* `Guardians` needs two transfers for a structuring trace (`Structuring` is 2, where
  the policy text counts 3), a record that is none, and two processes for a
  collection one writes and the other reads; after one death the second process has
  to judge a record the first had remembered.
* `ShieldGate` needs two calls for an answer that comes during another call, for
  ids that are used again and for a rollback with a call on each side; a pool of
  one fills with one abandoned request.
* `Governance` needs two records for a shared thread and for two requests of one
  run between rules and end; two resumes for a concurrent answer. Of its
  amounts, one is negative and two are over the cap: once the negative one is counted
  one of these passes and the other is escalated. The human's answer is `edit`, which
  no verdict of the graph equals, so a resume of a verdict that was no escalation
  shows. The theorems remove these bounds, for the cap over any number of records,
  amounts and restarts.
* `Evidence` has three operations so that an epoch can lie between two others and an
  odd level of the tree is padded; five chain hashes, of which three are stored, for
  `EpochsBacked` to compare an artifact with sets that were never stored; pages of
  one row for a cursor between any two; two clock readings for stamps that are equal
  and stamps that commit out of order. Two schedulers, a client that lists and opens
  the epochs of one, and a client that reads tables are checked one at a time: no
  client writes what a scheduler or another client reads.
* `Accounts` has three requests begun, of which two overlap: one request may be over
  before the two meet. `Threshold`, `Limit` and the number of recovery codes are 1,
  so that each is reached and passed with these. `MaxLapses` bounds deadlines and
  requests that end early together: one of either. The pool has as many connections as
  there are requests.
* `EvalGrid` needs two users and two injection tasks for a decision, or evidence, of
  an earlier cell to be found by a later one, and an arm on each path that writes
  rows. The three budgets are one that fits, one that is shrunk and one refused. The
  theorems remove these bounds, for lists that name no id twice.

Deadlock is not checked where a system of the run may really end: all passes,
calls or requests used up, nothing left on the stream, all records decided, the
report written. In `Accounts` requests may also wait for each other's connection
(see below).

### Fairness

`VerdictWorker` assumes weak fairness of each worker's steps: a worker that runs
goes on, as a task of the event loop that is ready does, and a call of a model that
does not fail returns (the clients of `gov/model_router.py` set no timeout of
their own). Nothing says that a model answers, that a failed worker is called
again, or that a new one is made: the task of `server/app.py:107` ends with the
exception and nobody starts another. `NewWorkerCatchesUp` has that in its premise, and
asks only what holds once a new worker has been made and does not fail;
`FailedIsDeliveredAgain` asks the docstring's promise of workers that fail no more.
`ShieldGate` assumes weak fairness of the elements of the pipeline only, not of
pool, wire or server: each wait of an element ends by its own timeout
(`future.result(timeout=...)`, the HTTP timeout of `submit`).
`Evidence` assumes weak fairness of the steps of each scheduler (`SchedulerStep`,
which includes the interval of its loop or the timer that starts `--once` runs), not
of clients and not of the ingest.

## Proofs

Proved for every value of the constants under the named `ASSUME`s of the modules
(sets are arbitrary, bounds are natural numbers, `Kinds` is a subset of the
three routes, TTLs and instants are natural numbers, workers, operations and chain
hashes are finitely many, ids of tool calls are not the numbers by which a missing id is replaced:
`elements.py:103`; the lists of arms and tasks of a grid are not empty and name no
id twice, as the keys of the suite and the default arms do not: `--arms A0,A0` is left out):

* `IngestProofs.TypeCorrect`: the type invariant of `Ingest` with its `Registry`.
* `ChainCorrect`: `ChainIntact`. By itself it is not inductive: a request between
  `CheckPrev` and `Commit` carries a `seq_no` and a hash read earlier, and if they
  were arbitrary its insert could break the chain. `ChainInv` adds
  `InFlightPlaced`: each such request has the `seq_no` after that of a row of its
  agent and a `prev` equal to that row's hash, or is to be the first of its chain. Rows are never removed, so it stays true while others
  commit; and the unique key `(agent_id, seq_no)` then lets only a request on top
  of the chain commit (`CommitChain`).
* `ChainRefinement`: `Ingest` implements `HashChain` with the log of an agent
  mapped to the chain hash of its latest row. `LogInv` adds to `ChainInv` that
  each agent with rows has a latest one. `CommitHead` says that a commit extends
  the head by one entry, `HeadEntries` that each entry of a head belongs to a row,
  from which, by `operation_id` being a key, no id is used twice.
* `BarredCorrect`: `BarredStopped`. `BarredMeaning` says what the history variable
  records, and a request in it can only stop at the check concerned.
* `BackedCorrect`, `StreamsCorrect`: `EvidenceBacked` and `StreamsExact`.
  `EvidenceInv` adds what a request has behind it at each await: before its
  transaction the objects it has put (`Stored`; an object is replaced only by one
  under the same key), after it its row and how far it has published it
  (`Published`). As operation ids are unique, no two requests are past the
  transaction with the same id (`OnePublisher`), so the id a request is about to
  publish is not on the stream yet.
* `VerifiesCorrect`: `VerifiesUnlessReplaced`, of `IngestHistory`: link and receipt of
  a committed operation hold in every state, and its signature unless the object was
  replaced or the agent registered anew. `KeysInv` says that
  for an agent that was there all the time every stored envelope, and every request
  past its key check, has its key row: a revocation changes its status only, and what goes away goes
  with its agent. And an agent with operations is there (`RowsHeld`), as a commit
  meets the foreign key and so does a deletion.
* `TtlRoundsUp`, `NonceCorrect`, `PassesCorrect`: the rounding of the TTL, and from
  it that a nonce key outlives its record and that two passes are apart. The
  invariant `WindowInv` adds that after a pass the key lives at least as long as
  the record (`KeyOutlasts`), and that no handler holds a time ahead of the clock
  (`ClockOrder`).
* `VerdictWorkerProofs.TypeCorrect`, `AckedCorrect`, `LateCorrect`: `TypeOK`,
  `AckedIsJudged` and `LateVerdictBacked`, for any number of workers and groups and
  either transport. `WorkerInv` adds what a worker knows at each await
  (`WorkersKnow`: between the object and the row the object is there, at the
  acknowledgement the record is judged), which stays true whatever other workers do
  because rows and objects are never removed. That the stream has no more entries
  of a record than there are rows is a count: each worker between its insert and its
  XADD stands for one row that is not on the stream yet, so `FanCounted` says that
  entries plus those workers are at most the rows, and a step that inserts or
  publishes moves one worker in or out of the set (`FS_AddElement`,
  `FS_RemoveElement`); a crash only takes workers out.
* `JudgedPerWorker`, `JudgedOnceAlone`: a record has at most as many late verdicts as
  there are workers, hence one worker judges once (`JudgedOnce`). `RowsCounted` counts the
  rows of a record and the workers between their look for a verdict and their
  insert: together they are at most the workers, for a worker is added to the
  second only when there is no row. TLC finds `JudgedOnce` violated with two workers.
* `GovernanceProofs.TypeCorrect`, `OverruledCorrect`, `ResolvedCorrect`: `TypeOK`,
  `OnlyEscalationsOverruled` and `ResolvedWasAnswered`, for any number of records,
  runs and resumes. `GovernanceInv` adds `CheckpointsSound`: every checkpoint, the
  ones a resume has read before they were replaced included, is about a record past
  the graph, and waits, or differs from the record's own decision, only if that was
  an escalation; so whatever checkpoint a resume continues, its answer is sound
  (`AnswersSound`). `UpdatesAnswered` puts the answer before the update of the row,
  and `IncidentsDone` gives a resume a record whose run is known.
* `CapCorrect`: `PassedWithinCap`. `CapInv` says that the running total of a run and
  recipient is within the cap and is the sum of the amounts that were counted in this
  life of the process (`TotalsCover`). What passes in the end was counted, since the later stages
  only stop more, and what was counted and did not pass adds to the total unless it
  is negative; so the passed and the negative ones together sum to no more than the
  total. A cap on what passes alone does not hold, which TLC shows with one negative
  amount that is counted and blocked. The sum is a fold over a set. What is needed of it (one more record
  adds its amount, leaving out amounts that are not negative makes the sum no larger,
  the order in which records are
  taken does not matter) is not shown by induction, which takes an operator, but
  on a least counterexample, a smallest subset for which it fails
  (`LeastSubset`, by well-foundedness of strict inclusion).
* `ShieldGateProofs.TypeCorrect`, `ChainsNeverFork`, `ClosedToolsStayGated`,
  `RollbackLeavesNothing`: `TypeOK`, `ServerChainIsPrefix`, `ClosedToolsGated` and
  `RollbackUndoes`, for any calls, budgets and pool. What could break the chain is a
  request the loop has given up and the server still gets, so `ChainInv` says of
  every request, in the pool or on the wire, that what it appends after is the place
  in the believed chain where its record stands (`Along`): whichever arrives, the
  server's chain stays a prefix. `PreInv` has each call asked about once, so a
  ruling is about one record. `GateInv` follows the loop over a message: effects come
  from calls that were reached (`Effects`), a key has one decision (`KeysOnce`), the
  decision under the key of a call was made for it (`Made`), and a ROLLBACK the
  executor has met holds a snapshot of earlier effects until the environment is
  handed on (`RollbackInv`).
* `AccountsProofs.TypeCorrect`, `LockoutFollowsCount`, `OneAddressOneAccount`,
  `NobodyCountedTwice`, `ResetEndsThem`, `ServesOnce`, `SecondFactorStaysUsable`:
  `TypeOK` and the six invariants of the run, for any number of requests, accounts,
  addresses, passwords, codes and connections, and any threshold and limit. Each has
  an invariant about requests between two statements. `RacedRecorded`: kinds of
  requests that race and are in progress together are in `raced`. `ResetInv`: a request that is going to
  open or rotate a session carries the epoch of its account, or it overlapped a
  reset. `OnceInv`: a redeemed link is consumed, so is one a request is about to serve, and a
  redeemed recovery code is on no list, nor on one a request is about to write,
  unless two recoveries overlapped. `FactorInv`: an account that asks for a factor it has
  no credential for is about to be cleared by the removal that deleted the
  credential, or that removal has ended in between (`severed`); and a confirmation past its check of the credential finds it there,
  unless a removal overlapped. The tables are functions on `1..n` that only grow,
  which is why an id read before an await still means the same row after it.
* `GuardiansProofs.TypeCorrect`, `OverridesCorrect`, `StructuringCorrect`,
  `EvidenceCorrect`, `MemoryCorrect`, `RecallsCorrect`: `TypeOK` and the five
  invariants of the run, for any number of processes, records, deaths and any
  policy. `TypeInv` adds that a record is handled by at most one process (`Apart`).
  `StructuringCaught` is a count: the transfers a process has let through are places
  of its trace, so there are at most as many as the trace has transfers, and one more
  only passes when that number is below the threshold (`FewThrough`, with
  `FS_Surjection`). `FindingsInv` says what rows the handling of a record has at each
  call, including those an earlier attempt left (`FindingsOK`), and that what the
  process or a collection remembers of it is the decision in the row
  (`RememberedOK`, `RecalledOK`).
* `EvidenceProofs.EvidenceTypeCorrect`, `RootsApart`, `EpochsCommit`,
  `EpochsLieNested`, `AnswersAreConsistent`, `PagesAreExact`: `TypeOK` and the four
  invariants of the run, for any finite set of operations, any number of schedulers
  and clients, any page size. `RootsApart` is about `merkle_root` alone: a root
  and the number of leaves determine the set. Going down from the root, in each
  round two levels of equal length are equal if the levels above them are (`UpApart`; the length
  tells whether the last node was doubled), and leaves are the hashes in their order (`Sorted`); the number is needed, since
  three leaves and the same with the last one twice share a root. So the operations
  of an epoch are determined by it (`OpsNamed`). `BackedInv` has every epoch a
  scheduler or client holds be one of operations that are stored, and rows keep
  their stamps. `NestedInv` is about persisted epochs and those that schedulers are about to
  persist: a new one is of all operations, and an old one keeps its own. `AnswerInv`
  says of what a client has read that it is true of the tables still, which only
  grow; `LateIdApart` keeps the ids of late verdicts out of the interventions.
  `PagesInv` says that a row of the first page's time that still is a row is on a
  page or behind the cursor: new rows have new ids (`RowsGo`), and a page is the
  start of what is behind the cursor in its order (`PageExact`, by counting newer
  rows).
* `AttestedIsLocal` (in `GuardiansProofs`): an attestation implies that no role of the
  packaged profile has a client that leaves what the verifier takes for local.
* `AcceptedFitsThreshold`, `RunnerFitsThreshold`, `SliceAllOrNothing` (in
  `EvalProofs`): an accepted plan covers no more than was asked for and its cost is
  within the threshold, whatever its units; a slice is whole or skipped.
* `DecisionAlwaysSkipped`, `DecisionAssertsPass` (there too): an assertion about a
  decision is never evaluated, since `_run_arm` records none.
* `EvidenceCreditedOnce`, `GridComplete`, `MeasuredIsBacked` (there too): the
  three invariants of `EvalGrid`, for any arms, tasks, verdicts and calls. `CreditInv`
  has the evidence of a row be among what was seen, so evidence that is new to the harness is on no row. `CoverInv`
  says that the rows are, each once, those of the cells the three loops have left
  behind (`Covered`); as lists name no id twice, the places of two cells differ iff
  their ids do. `MeasureInv` follows a decision from its call to the report: the
  calls belong to cells the loops have come to, and what the table holds was returned
  to one of them (`CallsFiled`); in a real run table and tap hold calls of the present
  cell only, and each of them (`OwnTable`), for a provider's ids keep the entries apart
  (`KeysApart`); over http the tap has the whole table when the cell ends
  (`SinkHolds`); each query left behind was scored (`UsersScored`); so
  a measured row without a decision is of a cell without calls, one with a decision
  has a call with that verdict, of its own cell in a real run, and with a provider's
  ids a block of its cell shows (`RowsBacked`); and the report says measured iff a row does (`ReportBacked`). Taps and lists of rows are folds over sets: `FoldsExist` and
  `FoldsAgree` show, again on least counterexamples, that the recursive function of
  the fold exists and that its value is independent of the set it is defined on.

So every safety invariant that a passing run checks is proved as well, `JudgedOnce`
for one worker, of which alone it is true. Only model-checked are the liveness
properties:
`NewWorkerCatchesUp`, `LoopGoesOn` and `CatchUp` stay with TLC for good, as the
provers handle neither fairness nor ENABLED.

## Where the code differs from what one may expect

The two violation runs are the disagreements with a document that have a run. Others
met while modelling, in states the modules reach:

* Two failed sign-ins that overlap may count as one: with Postgres the count is read
  on another connection than the one whose transaction updates it, so `FOR UPDATE`
  orders nothing (`server/auth/users.py:203` says it serialises them;
  `server/storage/postgres.py:41` takes a connection of the pool). And as each holds
  one connection while it waits for a second, as many of them as the pool has
  connections wait for one another.
* `decide` and `record` put their envelope under the object key of an operation
  with the same id, before the insert that is then refused (`server/governance.py:205`,
  `server/ingest.py:187`): a committed operation stops verifying, as
  `verify_operation` cannot parse what it finds (`server/ingest.py:332`).
* The in-process reader moves past a batch before it is judged
  (`server/async_verdict_worker.py:63`), so a worker that is called again after a
  failure, as the drain of the harness does, never gets the failed record either;
  only a new worker does.
* The total of a run takes a transfer in before the scanners have answered
  (`gov/defender/engine.py:194`), so one they block stays counted, where
  `gov/defender/rules.py:297` asks to commit allowed calls only.
* A guardian that raises ends the worker's task for as long as the server lives
  (`server/app.py:107`), and records it had read stay unjudged.
* No rule looks at the sign of an amount: a negative transfer that is counted and
  then blocked by a scanner makes room under the cumulative cap
  (`gov/defender/rules.py:316`). NaN is blocked by the amount cap, which the default
  policy has; without one it would make the total NaN and switch the cap off. The
  model has an amount cap always and takes NaN for a refusal. An approved escalation
  is never counted.
* Removing the second factor is two statements (`server/auth/routes.py:802`): an
  exception in between leaves an account that asks for a factor it has no
  credential for.
* An audit that finds no key counts the record as not valid, which blocks it
  (`gov/auditor.py:112`); the docstring at `server/async_verdict_worker.py:151` says
  that the Auditor skips the verification then.
* `reflect_recent_memory` can never quarantine an incident: what it looks for is not
  in the rows it is given (`gov/memory/reflect.py:69`).
* A record that is delivered again may be recalled as its own precedent from a
  shared collection. `gov/router_guardians.py:538` calls the collection the
  production default; the worker of the server passes no directory for one.
* The trace of a run is lost on a restart and divided between two processes.
* Late verdicts have no row in `intervention_log`.
* Two epochs with the same `end` are listed in no order; a scheduler whose insert
  meets the primary key ends with the exception, and its loop with it.
* The air-gap probe counts a probe that could not be started as one whose connection
  was refused, it runs in a network namespace of its own, and a host name whose first
  label is `10` passes for a private address.
* In the harness, the cells of all shield arms share one table of decisions over
  http but not in a real run, where the worker copies `extra_args`
  (`eval/run_ab.py:100`), each user's pipeline starts with an empty table and the
  genesis hash, and the server refuses the records of an agent's second pipeline; with
  the MockedLLM a call is filed under its position in the message, so the last
  verdict counts. All rows of a cell carry the evidence and cost of the cell. The
  shrunk number of units of a budget is never applied, and the hard cap is looked at
  only when the plan does not fit. The drain is skipped when the governance was not
  the primary source, stops after two seconds, and its rest is credited to a later
  cell; a judgement that raised is not tried again. `A0b` runs the first of the
  native baselines only; `shielded` is accepted as an arm but not counted as one in
  the guardians' budget and in the prevented loss; the mock backend drops arms it has
  no template for; and a run whose rows are all skipped is still labelled by its
  backend.

## What is not modelled

* Cryptography, canonical JSON, text patterns of the scanners, statistics of the
  Evaluator, language models: outcomes are free choices within what the code
  does with them.
* SQL as such: a statement is one atomic step on sets of rows, a transaction one
  step (in `Accounts` also its connections). The matching of statements in
  `MemoryDatabase` is left out.
* Field validation of requests, the encoding of cursors, formatting, metrics and
  logging.
* Of the accounts: API keys and their cache, sign-up, mail verification, CSRF tokens
  as such, cookies, password hashing, audit rows and mails.
* Of the harness: the rates and their intervals, the schema and files of an artifact,
  the story `money_shot.py` prints, scenarios.
* The console, scripts and container files: no state that others write.
* LangGraph beyond what `Governance` says of it; in particular a resume of a
  thread whose graph is running, and exceptions inside the graph.
* Several runs of one agent in `ShieldGate`: every run starts at the genesis
  hash, so the server refuses all of a second run (a hazard in `PROJECT.json`).
* A death between commit and XADD (`server/governance.py:442`) is a behaviour of
  `Ingest`, but no run asks for the lost entry.

## What could come next

* API keys and mail verification in `Accounts`.
* The composition of `Governance` with `ShieldGate`: what the agent does with the
  answer of a resume.
