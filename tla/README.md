# TLA+ models of webhook-ingestor

The service accepts vendor webhooks (`POST /webhooks`), stores each payload once,
acknowledges it, and later has a worker normalize it with a language model, record
the result as a fact and project it onto a shipment or an invoice. This directory
models that system in TLA+, checks it with TLC on small instances, and proves its
main safety properties with TLAPS for every instance.

## 1. The system

| Component | Source | State it keeps | Operations | Why it is hard |
|---|---|---|---|---|
| Ingestion | `internal/ingest` | the request in flight | check body, `InsertRaw` (insert, then look up on conflict), `Notify`, reply | concurrent duplicates; commit without a reply; death before the signal |
| Queue | `internal/queue`, `internal/store/raw.go` | table `raw_events` (`status`, `attempts`, `error`, `lease_until`, `received_at`), one wake-up channel per process | `Claim`, `Ack`, `Retry`, `Fail`, `Notify` | leases that run out under a slow worker; signals that coalesce; the retry cap |
| Worker pool | `internal/worker` | each goroutine's job and attempt number | claim, wait, pause after an error, handle, close, leave on cancellation | every step interleaves; closing calls are only logged when they fail |
| Processor | `internal/processor` | the fact in hand | ask the model, validate, store the fact, project | re-run from the start after any failure, with a model that may answer differently |
| Validation gate | `internal/normalize` | none | `Apply`, `CanonicalKey`, `sanitizeMoney`, `parseEventTime` | what is refused, what is downgraded, what passes |
| Lifecycles | `internal/model` | none | `ShipmentRank`, `InvoiceTransitionAllowed` | linear order against branching transitions |
| Fact and entity stores | `internal/store/normalized.go`, `entity.go` | tables `normalized_events`, `entities` | `InsertNormalized`, `ApplyShipment`, `ApplyInvoice` | out-of-order events, read-check-write races |
| Processes | `main.go`, `init.go` | running, stopping or down | start, stop signal, exit, crash | one context cancels everything at once |
| Boot | `init.go`, `internal/store/store.go` | the schema, `schema_migrations`, an advisory lock | `connectWithRetry`, `Migrate` | several processes boot together; a migrator dies with the lock |
| Model clients | `internal/llm`, `buildLLM` | none | `Normalize` of OpenAI, Ollama and the mock | which failures are worth a retry |
| Read endpoints | `internal/ingest`, `GetEvent`, `GetEntity` | none | `GET /events/{id}`, `GET /entities/{key}` | what they show in the middle of a retry |

Processes share nothing but the database. Inside a process, requests and workers
also share the wake-up channel of the queue. Requests, workers and processes
interleave between any two database statements, and one statement is atomic.

What makes the parts correct:

- ingestion: a 202 means a stored row; one row and one "new" per payload;
- queue: a claim is genuine and counted; a settled row stays settled; attempts are
  bounded; a pool does not sleep on an acknowledged row without a token to wake it; a
  stored row is settled in the end; and, as long as no handler outlasts its lease, a
  lease excludes others, an acknowledged job stays completed and a retry waits for its
  backoff;
- pipeline: facts are written once; a processed row has its fact and has reached its
  entity; shipments never regress; invoices move along their table only, and no invoice
  event is lost between concurrent workers; money is a pair; the event endpoint shows a
  fact with what is processed and a reason with what has failed;
- clients and gate: only canonical, coherent facts pass, only structural nonsense is
  refused, and spelling does not matter;
- boot: every migration takes effect once, in order, together with its record; nobody
  runs on an old schema; a boot ends.

## 2. Modules

| Module | Models |
|---|---|
| `Host` | processes: up, stopping, down; the budget of faults |
| `Queue` | `raw_events`, one operator per SQL statement, and the wake-up channel |
| `Ingest` | `POST /webhooks`, from the body to the reply |
| `WorkerPool` | the consumer loop and `dispatch`, with an opaque handler |
| `Service` | `Ingest` and `WorkerPool` over one `Queue` and several processes; their properties |
| `AtLeastOnce` | the abstract contract: accept once, acknowledge after that, never reopen what is settled |
| `ServiceClaims` | statements of comments and documents about the queue that the code does not keep |
| `Lease` | `Service` with a clock: the length of leases, of a handler and of the backoff |
| `Lifecycle` | `model.go` |
| `Normalize` | `normalize.go` |
| `Providers` | the clients of `internal/llm`: OpenAI, Ollama, the mock, and `buildLLM` |
| `Gate` | the first half of `Handle`: provider, client and `Normalizer.Apply`, held against their promises |
| `Pipeline` | `Service` with the real handler (`processor.go`, `normalized.go`, `entity.go`) |
| `Boot` | `newApp`: `connectWithRetry` and `Migrate`, for several processes at once |
| `MCService`, `MCLease`, `MCPipeline`, `MCGate`, `MCBoot` | instances for TLC |
| `ServiceProofs`, `LeaseProofs` | theorems about `Service` and `Lease` |
| `NormalizeProofs` | lemmas about the lifecycles and `Normalizer.Apply`, for the two that follow |
| `PipelineProofs`, `ProjectionProofs` | theorems about `Pipeline`: that it implements `Service`, and what its tables hold |
| `GateProofs`, `BootProofs` | theorems about `Gate` and `Boot` |

How state and actions correspond to the code:

- **Rows.** `raw_events` is kept column by column, as functions of the payload hash;
  `payload_hash` is unique and `id` is the key, so either identifies a row.
  `lease_until` is only ever compared with `now()`: it is `NULL`, `"live"` or
  `"expired"`, and `Tick` lets time pass. This allows a worker to be arbitrarily slow,
  as a lease of 30 s against a model timeout of 60 s or 120 s does. `Lease` adds the
  lengths. `received_at` is
  the order of the rows' stamps; rows are stamped in the order in which their inserts
  take effect. (Two overlapping inserts may really be stamped the other way round.
  That only changes which is claimed first, and no property depends on it.)
- **Requests.** `req[r]` is the next statement of the handler, or the reply. An insert
  may fail with or without having committed. A body that `json.Valid` accepts and the
  JSONB column refuses (`NotJSONB`) passes the checks and fails in the insert, every time
  (`InsertRefused`).
- **Time.** `Lease` adds timers to every row and worker. `left[h]` is what is left of a
  lease, set by `Claim` to `LeaseTime` and by `Retry` to a value of `backoff`; `held[w]` is
  the time since the claim; `Advance` moves all timers at once, and not past the longest
  that a worker may take (`MaxHandle`), nor past a lease that is due to expire. `Expire`
  is the strict comparison `lease_until < now()`. `backoff` shifts in `Width`-bit two's
  complement, with the overflow test and the jitter of the code. `quiet[h]` belongs to
  the property only: what is left of half the delay that the comment on `backoff`
  documents, computed without a width. Where a row is rescheduled twice, it keeps the
  longer of the two promises. `DurationsAssumption` says that an overflow shows,
  as a result that is not positive or is over the cap. The defaults (2 s, 5 min, 64
  bits) meet it; a base delay with many low bits set may not.
- **Workers.** `pc[w]` is `"claim"`, `"wait"`, `"pause"` (the second of sleep after a failed
  claim, in which a worker does not listen to the channel), `"handle"`, the closing call
  that is due, or `"down"`. A claim may fail without effect (`ClaimFails`), or commit and
  lose its reply (`ClaimLost`); a closing call may be lost (`ClosingLost`), and always is
  once the context is cancelled.
- **Row locks.** `FOR UPDATE SKIP LOCKED` may pass over a row that a statement of another
  worker has locked (`MayBeLocked`): a late worker that is touching the row it still holds,
  or a claim in flight that is going to roll back. The model does not keep locks as state.
  Instead it lets any claimable row be passed over while some other worker pauses after a
  failed claim or belongs to a process that is stopping, which is more than can happen.
  The claim of a killed process is taken to run to its end before the kill; a statement
  that outlives its client and the next start of that process is left out.
- **Handler.** In `Service` it returns any of the three outcomes. In `Pipeline` it takes
  one step per database statement, and each of its steps is either invisible to
  `Service` or a `HandlerReturns`. A statement of the handler may fail, or commit and lose
  its reply (`Committed`). `ApplyInvoice` takes two steps, with the row lock held
  between them when there is a row to lock. With no row there is nothing to lock, and
  the later of two inserts gets a unique violation (`SeedConflict`).
- **Boot.** `stage[p]` is the call of `newApp` that is next. A migration is one
  transaction, so `Apply` is one step. A statement may be refused, the connection may
  break (with the commit done or not), and a process may be killed at any point; a
  session that has lost its process keeps the advisory lock until the database notices
  (`SessionEnds`). A process may know more migrations than another one, as in a
  rolling deploy. A cancelled context ends a boot like a lost connection or a kill.
- **Listener.** An HTTP listener that fails makes `runServer` return, which cancels the pool
  and ends the process: the model has the same steps for it as for a stop signal.
- **Providers.** A reply to the HTTP call is an answer, a status with an error type, or of
  no use (not sent, lost, not parsable, empty); each client maps it to a response or to
  a retryable or permanent error. `lower` is what `strings.ToLower` makes of
  `LLM_PROVIDER`. The mock's payload is a record of fields and a set of
  phrases; its rules keep their order.
- **Reads.** `GetEvent` and `GetEntity` in `Pipeline` are the two read endpoints. They change
  nothing, so they are operators, and the properties look at the tables through them.
- **The model.** `answers[h]` is the set of responses that it may give for a payload; each
  call picks one, or errs. A deterministic model is a singleton set.
- **Strings.** `canon` and `utc` are what upper-casing and trimming, and the time
  layouts, make of a spelling. They are constants with assumptions (`canon` is
  idempotent, the blank stays blank, and classes and states are spelled canonically).
- **Faults.** Kills, stop signals and lost database calls draw on one budget,
  `MaxFaults`, so that runs stay finite. Theorems hold for every budget. Errors of the
  model and failed statements of the handler are not faults and happen freely.

## 3. Runs

| Run | Instance | Checks |
|---|---|---|
| `delivery` | processes `p1` (mode all) and `p2` (worker), a worker each, one payload sent twice, one body that the column refuses, 2 attempts, 2 faults; 1 290 000 states | `TypeOK`, `AckIsDurable`, `OneNewPerPayload`, `JobsAreClaims`, `AttemptsBounded`, `SettledIsFinal`, `ImplementsAtLeastOnce` |
| `coalesced` | one process with two workers, two payloads behind one token, 1 attempt, 1 fault, with fairness; 480 000 states | `NoLostWakeup`, `EventuallySettled` |
| `lease` | one process with two workers, two payloads, 4 attempts, 1 fault, a lease of 2 and handlers of at most 2, a base delay of 4 capped at 5 in 4 bits; 1 480 000 states | `LeaseIsExclusive`, `AckCompletes`, `BackoffIsKept` |
| `shipments` | two workers, two events of one shipment in different spellings, one of them sometimes answered with nonsense, 1 attempt, 1 fault; 1 300 000 states | `PipelineTypeOK`, `EventViewIsCoherent`, `ProcessedIsProjected`, `ProjectionFromFacts`, `NeverRegresses`, `ImplementsService` |
| `invoices` | two workers, an issued invoice and a payload read as payment, as cancellation with a bad amount, or not at all, 1 attempt; 380 000 states | `MoneyIsPair`, `InvoiceMovesLegally`, `InvoiceIsConsidered`, `FactIsImmutable` |
| `gate` | every setting of `LLM_PROVIDER` and `LLM_API_KEY`, every response made of a few spellings of each field, every kind of failing reply, payloads for the mock; 95 000 states | `PassedIsSound`, `RejectedIsNonsense`, `MockRunsEndToEnd`, `SpellingIsImmaterial` |
| `boot` | three processes, one with a migration less, two attempts to connect, 2 faults; 49 000 states | `BootTypeOK`, `SchemaIsRecorded`, `RunningIsMigrated`, `BootsTogether`, `BootEnds` |

Why the bounds are enough: two workers, two holders of one row and two duplicates are
what each race needs. Two attempts give one retry and one dead letter. Two faults allow
a crash on top of a lost statement, or a stop on top of a crash. `coalesced` has the two
rows, the one token and the two sleepers that coalescing takes, and its fault is a lost or
failing claim, a crash or a stop with a restart after it; one attempt keeps it small, since
a retry signals nobody. The pipeline runs have one attempt too: a handler runs again there
because its lease expires, and `InvoiceIsConsidered` is about what a handler reports, before
the cap decides between a retry and a dead letter for the loser of the race to seed an
invoice (its theorem is for every cap). In `lease` the lease
and the longest handler are equal, which is the boundary; with 4 attempts the shifted
delay is 4, then overflows to a negative number, then to 0. In `boot`, two processes
meet at the lock and a third finds the result; two faults allow a lost commit on top of
a killed migrator. The attempts of a row are bounded by the model itself
(`AttemptsBounded` says by how much), so no state constraint is needed. Worker symmetry
is used in the pipeline and lease runs, where both workers live in one process. Deadlock
is checked everywhere but in `gate`, which stops after one call, and in `boot`, where
processes that are up have nothing left to do.

`AttemptsBounded` is exact in what it excuses: a row passes the cap only through a worker
that still holds an attempt at or over it, or through faults.

`NoLostWakeup` says what the channel gives and no more. The token of a new row is there, or
a worker of the process is awake, as long as nobody has claimed the row. It does not say
that no row waits for a poll timer: of two rows behind one token, the second waits for the
worker that took the first, or for the timer of the other (`EventuallySettled` in run
`coalesced`; with a timer that does not lead back to a claim it fails). And across processes
it is said only where nothing has failed. The row lock of another process's claim that rolls
back can hide a row from the worker that the token woke; then the row waits for a timer too.

`LeaseIsExclusive`, `AckCompletes` and `BackoffIsKept` hold where no handler outlasts its
lease, which the code does not ensure. The runs `overturn` and `shortened` show what the
unguarded closing statements do without it.

`EventViewIsCoherent` leaves two things open that the code allows: the error that a late
`Retry` leaves on a processed row, and the fact that a row still in processing, or failed,
may already show.

`ProcessedIsProjected` and `ProjectionFromFacts` are checked for a model that answers a
payload in one way only. Without that they fail, which is run `ambiguous`.

Five runs refute what a comment or a document says:

| Run | Statement | What the code does |
|---|---|---|
| `cap` | "even a worker-killing "poison" payload eventually caps out" (`raw.go`) | `Claim` never compares `attempts` with the cap |
| `overturn` | "Ack completes a job" (`queue.go`) | a worker that takes longer than its lease dead-letters a processed row: closing statements are keyed by id only, and the default lease (30 s) is shorter than the clients' timeouts (60 s, 120 s). Run `lease` shows, and a theorem proves, that it holds when the lease is long enough |
| `shortened` | "Retry reschedules with exponential backoff", within `[d/2, d]` of the attempt (`postgres.go`) | a late `Retry` of attempt 1 replaces the longer delay of attempt 2. It holds when the lease is long enough, as above |
| `duplicate` | "a duplicate is already enqueued/processed" (`ingest.go`) | a resent dead letter is a duplicate too |
| `ambiguous` | the entity is "a guarded projection over those facts" (README) | the handler projects the answer in hand, which a retry may change while the fact stays |

Four more statements differ from the code in ways that one statement of it shows; they have
no run:

- `event_time` "orders history and breaks ties" (`src/README.md:137`), "ordering tiebreak"
  (`0001_init.sql:32`): nothing compares event times. Of two events with one state the first
  processed gives the entity its time (`entity.go:26`).
- "final state is identical regardless of processing order" (`src/README.md:148`, on the
  projection): an invoice event ahead of its predecessor is ignored for good, so that
  ISSUED, REFUNDED, PAID ends PAID (`entity.go:57`). The README argues from the rank guard,
  which invoices do not have, and the comment on `ApplyInvoice` says that a late transition
  is ignored. What holds for invoices in every order is that the projection moves along its
  table (`InvoiceMovesLegally`) and that whatever is acknowledged was held against the state
  the invoice was in at that moment (`InvoiceIsConsidered`).
- "one row per shipment/invoice" (`0001_init.sql:44`): a shipment and an invoice with one key
  share a row, and the upsert moves an invoice, whose rank is 0, into a shipment state
  (`entity.go:26`). `EntitiesKeepTheirKind` proves it where keys are apart.
- "Transient classes (timeout, 429, 5xx) are retryable" (`llm.go:37`, and `src/README.md:151`):
  the Ollama client retries 5xx only (`ollama.go:74`). `TransientIsRetriedByOpenAI` proves it
  where Ollama is not used.

### Fairness

`FairSpec` assumes weak fairness of each worker's own steps (goroutines are scheduled,
statements return, the poll timer fires, the pause after an error ends), of the handler (the HTTP clients of both
providers have timeouts, and the context reaches every database call), of the expiry of
each lease and of the exit of a stopping process. Requests, faults and restarts are not
fair: nothing obliges a vendor to send, and the compose file has no restart policy.
`EventuallySettled` is therefore conditional on some worker process running again and
again.

`Boot` assumes weak fairness of each booting process's own steps and of the end of a dead
session, and strong fairness of `Lock`: Postgres queues the waiters for an advisory lock,
so one that waits while the lock is freed again and again gets its turn. Starting a
process and the arrival of the database are not fair. The safety invariants of that run
do not depend on fairness.

## 4. Proofs

`ServiceProofs` proves, for any sets of processes, workers, requests and payloads, any
cap of at least 1 and any budget of faults:

| Theorem | Property |
|---|---|
| `TypeCorrect` | `TypeOK` |
| `SettledForGood` | `SettledIsFinal` |
| `DurableAck` | `AckIsDurable` |
| `Deduplication` | `OneNewPerPayload` |
| `ClaimsAreGenuine` | `JobsAreClaims` |
| `WakeupsArrive` | `NoLostWakeup` |
| `RetryBudget` | `AttemptsBounded` |
| `KeepsPromise` | `ImplementsAtLeastOnce` |

The assumptions are those of the modules: `MaxFaultsAssumption`,
`MaxAttemptsAssumption` (as `NewPostgres` enforces), `RequestsAssumption` and
`WorkersAssumption` (each request and each worker has one process, and the markers are
not payloads), and for `RetryBudget` alone `FiniteWorkersAssumption` (a process starts
`WORKER_CONCURRENCY` goroutines).

The argument. None of the invariants is inductive alone, so `Invariance` proves

    Inv == Types /\ BusyHasJob /\ RowsExist /\ OneNewPerPayload /\ JobsAreClaims /\ Calm /\ NoLostWakeup

- `PayloadsOnly` (in `Types`): a request past its insert has a payload, so that its
  statements are about a row of the table.
- `BusyHasJob`: a worker has a job exactly while it handles or closes one. The closing
  calls need it, or they might touch a row that was never claimed.
- `RowsExist`: `received_at` lists rows of the table only, and a request past its
  insert has a row. It gives `AckIsDurable`, and that an insert appends a new hash.
- `JobsAreClaims` needs the counter of a row to grow at each claim, and `RowsMoveForward`:
  no step makes a row absent or pending again.
- `Calm`: while nothing has failed, no worker pauses and no process is stopping.
- `NoLostWakeup` needs the whole of `Wake` and `ClaimEmpty`: a worker only falls asleep
  when no row is claimable or the claimable ones may be locked. A pending row is held by
  nobody (`JobsAreClaims`), so its lock can only be that of a failing claim: there is none
  where nothing has failed (`Calm`), and in the same process whoever makes one is awake.

`SettledForGood` follows from the table's statements alone (`RowsMoveForward`).
`RetryBudget` needs a stronger count than the one it states: a stopping process drops its
jobs without any further fault, so the workers it excuses may vanish for free. `Budget`
counts only the workers of processes that are up, and lets the fault that stopped a
process pay for all of its workers at once. A claim over the cap adds its worker to the
count, and nothing but a fault or the dead letter itself takes one away.
`KeepsPromise` maps each step to an `Accept`, an `Acknowledge`, a `Settle` or a stutter of
`AtLeastOnce`, with `life` and `acked` as the refinement mapping.

`LeaseProofs` proves of the service with a clock, for all durations and any width:

| Theorem | Property | Under |
|---|---|---|
| `TimedImplementsService` | `Spec` of `Service`, so that the theorems above carry over | |
| `LeasesExclude` | `LeaseIsExclusive` | `MaxHandle <= LeaseTime` |
| `AcksComplete` | `AckCompletes` | `MaxHandle <= LeaseTime` |
| `FaultlessCap` | `AttemptsCapped` | `MaxHandle <= LeaseTime`, `MaxFaults = 0` |
| `BackoffsAreKept` | `BackoffIsKept` | `MaxHandle <= LeaseTime`, `PowersOfTwo` |

- The condition `MaxHandle <= LeaseTime` is a hypothesis of the theorems and not an
  assumption of the module: the code does not enforce it, and the runs `overturn` and
  `shortened` show what happens without it. `FaultlessCap` says when the cap that run `cap` refutes is kept: it
  combines `RetryBudget` with `LeasesExclude`, by which at most one worker holds a row.
- `LeaseInv` strengthens `LeaseIsExclusive` by `left[job[w]] + held[w] = LeaseTime`: a lease
  and the timer of its holder start together and run at one speed. So a lease that is
  past would belong to a handler that has overrun, and `Expire` never hits a row that is
  held. Everything else follows from `ClaimableIsFree`.
- `QuietInv`: while a promised delay is running, the row has a live lease that lasts at
  least as long, and no worker holds the row: whoever retried it held it alone
  (`LeaseInv`), so no second `Retry` can put a shorter lease in its place. It needs `BackoffIsDocumented`, that the shift with its overflow test
  yields the documented delay, and `ChargedWasClaimable`, that only a claim charges an
  attempt. `PowersOfTwo` states that powers of two are positive and that the next one is
  the double, which would take an induction.

`PipelineProofs` proves `PipelineImplementsService` (the pipeline with its real handler
implements `Service`, whatever the model answers, so all of the above holds of it too) and
`FactsAreImmutable`. `ProjectionProofs` proves what the tables hold, for any payloads, any
keys and any responses (`AnswersAssumption`: they have the fields of `llm.Response`):

| Theorem | Property | Under |
|---|---|---|
| `PipelineTypeCorrect` | `PipelineTypeOK` | |
| `ViewsAreCoherent` | `EventViewIsCoherent` | |
| `MoneyStaysPaired` | `MoneyIsPair` | |
| `EntitiesNeverRegress` | `NeverRegresses` | |
| `InvoicesMoveLegally` | `InvoiceMovesLegally` | `KeysApart` |
| `InvoicesAreConsidered` | `InvoiceIsConsidered` | |
| `EntitiesKeepTheirKind` | `OneRowPerEntity` | `KeysApart` |
| `EntitiesProjectFacts` | `ProjectionFromFacts` | `AnswersAgree` |
| `ProcessedReachesEntity` | `ProcessedIsProjected` | `AnswersAgree` |

- `PipelineInv` is the invariant of the first seven. It adds to `Inv` what a handler has in
  hand at each of its calls (`HandlerState`), what `SELECT ... FOR UPDATE` protects
  (`LocksHold`: one holder per row, and the state that it read is still the row's), what
  a row tells of its past (`RowHistory`), that facts belong to claimed rows and precede
  every acknowledgement (`FactsAndRows`), and that an entity has the type of a fact
  with its key (`TypeFromFacts`). `EntityMoves` is the lemma that they share: entities
  change by whole writes of one sound fact, each described by `RowWrite`.
  `InvoicesAreConsidered` rests on `LocksHold` and on the unique key, which finds out
  whoever had no row to lock.
- `KeysApart` (no shipment and no invoice share a key) and `AnswersAgree` (what the gate
  accepts of a payload is always the same fact, however often the model is asked) are
  hypotheses, since nothing in the code ensures them. Run `ambiguous` refutes
  `ProjectionFromFacts` without the second.
  `AnswersAgree` leaves the model free to answer with nonsense or to fail in between.
- `ProjectionInv` adds, for the last two, that every fact is one of its payload, that what
  a worker is about to project is what is stored (also if another worker stored it), and
  that whoever closes a row has projected its fact.
- `NoneAssumption` and `NoRowAssumption` say that a nil pointer is told from every number,
  fact, row and state.

`GateProofs` proves of every reply, for all spellings, answers, errors and payloads:

| Theorem | Property | Under |
|---|---|---|
| `StoredFactsAreSound` | `PassedIsSound` | |
| `OnlyNonsenseIsRejected` | `RejectedIsNonsense` | |
| `TransientIsRetriedByOpenAI` | `TransientIsRetried` | no setting selects Ollama |
| `MockNeedsNoModel` | `MockRunsEndToEnd` | `MinConfidence > 40` |
| `SpellingsComeToOneFact` | `SpellingIsImmaterial` | |

The invariant `GateInv` says what each provider is shown and that the outcome is the one
function of the reply that the clients and `Apply` compute; the work is in the lemmas about
`Apply` (`ApplySound` in `NormalizeProofs`), the clients (`HostedReplies`) and the mock
(`MockAnswers`). The threshold of `MockNeedsNoModel` is real: `CONFIDENCE_THRESHOLD` may be set to
0.4 or less (the default is 0.6), and then a payload in which the mock finds no state passes
the confidence gate and is refused for its blank state. `GateAssumption` types the constants.

`BootProofs` proves, for any number of processes, whatever migrations each one knows, and
any number of faults (`BootAssumption`), `BootTypeCorrect`, `MigrationsAreExact`
(`SchemaIsRecorded`), `ServingIsMigrated` (`RunningIsMigrated`) and `BootsDoNotCollide`
(`BootsTogether`). `BootInv` adds `LockIsHeld` (whoever is past `pg_advisory_lock` holds the
lock), `Progress` (where a process is tells which migrations are recorded) and two facts about
failures. `ApplyIsNext` is the core: whoever applies a migration applies the one after the
last, since the lock keeps what it checked true until it commits.

The invariants `Budget`, `PipelineInv`, `ProjectionInv` and `BootInv` were checked with TLC on
the instances of section 3 before they were proved.

Only model-checked: the two liveness properties, `EventuallySettled` and `BootEnds`. Fairness
and `ENABLED` are out of the prover's reach. Every other property of the passing runs is
proved. That powers of two grow (`PowersOfTwo`) is taken as a hypothesis, since it needs an
induction.

## 5. Not modelled

- `GET /healthz`, which pings the database, and the answers of the read endpoints to a
  malformed id.
- Debug logging. It cuts a body at the size limit before the handler sees it, so that an
  oversized body is never answered 413. Most such documents are no longer valid JSON and
  get 400; one whose first part is valid by itself (followed by blanks, or a bare number)
  is stored as it was cut and answered 202. The models know a body by its hash and cannot
  tell these apart.
- Statements that outlive their client, beyond what a lost reply is (see "Row locks").
- Reading the environment (`config.go`): its values are constants of the models.
- The request sent to a hosted model (prompt, JSON schema, strict mode): texts.
- Characters: trimming, upper-casing, time layouts, and the mock's substring search are
  given by constants or by sets of phrases.
- Columns kept for audit only (`vendor_state_text`, `confidence`, `llm_model`,
  `prompt_version`, time stamps).

## 6. Plan

Done: the queue and ingestion, leases and backoff with time, the pipeline and its read
endpoints, the model clients and the gate, boot and migrations, the abstract contract, and
proofs of every safety property of the passing runs. Next, in this order:

1. `Lease` and `Pipeline` composed: with a lease that outlasts the handler, a row has one
   handler at a time, so `AnswersAgree` should be needed across retries only.
2. An abstract specification of the projection (the entity as a fold over the facts of its
   key), and `Pipeline` shown to implement it.
3. The safety half of `EventuallySettled`: that a row which is not settled always has a
   next step (it is claimable, leased to a worker that is up, or waits for its lease).
