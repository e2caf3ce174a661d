# Verification of the consumer engine

TLA+ models of the consumer engine (Rust, `src/crates`, `src/apps/server`): its
concurrent core, its query engine with the segment compiler, and its REST
handlers over the catalog's tables; the TLC configurations that check them on
small instances; and TLAPS proofs of their safety for every instance: of the
core's protocols, of the compiler, of the query engine that runs what it
compiles, of the REST handlers, and that the actor implements its specification.

The engine is one process around a DuckLake catalog. One thread owns the
writable connection; a pool of threads reads through read-only connections,
each pinned to the snapshot it attached to; HTTP handlers, CDC pumps, a
compaction ticker and materialisation jobs send both of them commands.

## Inventory

| Component | State | Operations | Hard part |
|---|---|---|---|
| Read pool (`execution`) | per worker: attached snapshot, `last_gen`, `last_refresh`; channel | `query_with_params`, `worker_loop`, `shutdown` | re-attach races the writer; re-attach may fail half-way |
| Ingestion actor (`ingestion/lib.rs`) | `pending` batches per (tenant, system, entity), writer's tenant, `known` tables | 12 commands, age flush, threshold flush, drain | delayed flushes between commands of other tenants; failures after an acknowledgement; exit and crash |
| Catalog writer (`storage`) | tables, `cdc_offsets`, `write_gen` | ingest, upsert, delete, CDC batch, features, catalog, suppression, snapshot, compaction | some calls are one transaction, others commit statement by statement; `bump_write` only on success |
| CDC pump and Kafka adapter (`cdc.rs`, `cdc_kafka.rs`) | consumer positions, committed offsets | `resume`, `next_batch`, `apply_cdc_batch` | redelivery, failed transactions, asynchronous assignment, batch order |
| Jobs (`ingress/jobs.rs`) | registry with time to live, semaphore | `post_jobs`, `get_job`, supervisor task | cancelled requests, panics, expiry racing completion |
| Query engine (`query/engine.rs`) | `inflight` semaphore | `run`, `run_sync`, `run_sql_approved`, derive, `characterize`, `materialize` | several reads of a moving catalog in one answer; timeouts that leave a worker busy; `as_of` against the data |
| Freshness registry (`core/freshness.rs`) | type and time per source | `set`, `get`, `worst` | set before or after the rows it speaks of are committed |
| Segment DSL (`query/ast.rs`, `parse.rs`, `compiler.rs`) | none | `validate`, `compile_with_opts`, referenced columns and features | parameters bound by position; tenant, suppression and NULLs in every template |
| Suppression (`core`, `storage`) | suppression rows | idempotent write, exclusion rules | partial failure and repetition |
| REST ingress and authentication (`ingress`) | tokens, signing key | onboard, query, catalogue, producers, suppression, jobs, audiences, exports | a handler's await lets others in; retries; expiry; restart |
| Feature producers (`ingestion/producers`) | registry | `run` | read, write and view are three steps |
| Semantic layer (`semantic`) | catalogue entries | profile, retrieve, edit | re-profiling racing an edit; failing models |
| Configuration and core types | none | parsing | not concurrent |

Interactions: every write is a command to the ingestion actor, which calls the
catalog writer; the writer advances `write_gen` after a commit and pool workers
compare it with `last_gen`; a CDC pump is one more client of the actor; a job
reads through the pool and then sends the actor a `Materialize`; tenants are
resolved at the HTTP boundary and passed along as values. Onboardings and CDC
batches set the freshness registry the query engine labels its answers from;
producer runs read the raw tables and rewrite the views the compiler joins.

What makes each component correct:

- read pool: a query sees what was acknowledged and announced before it was
  sent, never runs without a catalog, never goes back, and everything committed
  is seen in the end;
- ingestion actor: a row is committed once, for its own tenant and in its own
  shape; an acknowledged row is not lost silently; buffers drain;
- CDC: the offset never runs ahead of the data, redelivery does no harm, the
  table of a caught-up pump is the state the topic describes;
- jobs: permits are conserved, an answer is true and for the asker's own job,
  no job is orphaned, outcomes are final, jobs end;
- query engine: an answer is what the segment means on one version of the
  tenant's own data, a derived metric stays within the survivors that were
  counted, a profile does not contradict its audience, a snapshot is one point
  in time, labels do not promise more than the registry knew, permits are conserved and
  every request ends although workers may hang;
- REST handlers and tables: a merge decides every row it reached, suppression
  feedback is stored once however often it is sent, a wide view has a column
  for every stored name, an edit is not undone by older profiles, an export
  goes to the tenant that owns the snapshot and to nobody after the expiry.

## Modules

| Module | Models | Checked by |
|---|---|---|
| `ReadPool` | writer's commits and bumps, pool workers, their callers | `ReadPool.cfg`, `ReadPoolStale.cfg`, `ReadPoolRetry.cfg` |
| `ReadPoolProofs` | proofs about `ReadPool` | tlapm |
| `WriterLoop` | the ingestion actor and what it does to the catalog | `WriterLoop.cfg`, `WriterLoopExit.cfg`, `WriterLoopTakeover.cfg` |
| `WriterLoopProofs` | proofs about `WriterLoop` | tlapm |
| `CdcPump` | topic, adapter, pump, CDC transaction | `CdcPump.cfg`, `CdcPumpLoss.cfg` |
| `CdcPumpProofs` | proofs about `CdcPump` | tlapm |
| `Jobs` | POST and GET of jobs, semaphore, supervisor, registry | `Jobs.cfg` |
| `JobsProofs` | proofs about `Jobs` | tlapm |
| `RowLife` | abstract: what the ingestion actor promises of a row | `WriterLoop.cfg` (`ImplementsRowLife`), tlapm |
| `Lists` | `List(x)`: x is a sequence, of elements of any kinds (parameters, rows, commands) | through the modules that extend it |
| `Induction` | lemmas: induction over the numbers up to n and over finite sets, recursion, greatest elements, lists | tlapm |
| `Segment` | DSL, validation, compiler, what the database answers, and what the answer should be | through `QueryEngine` |
| `SegmentProofs` | proofs about `Segment`: the compiler is correct | tlapm |
| `QueryEngine` | requests, guardrails, timed reads, freshness, `materialize`; extends `Segment` | `QueryEngine.cfg`, `QueryEngineCap.cfg` |
| `QueryEngineProofs` | proofs about `QueryEngine`, from those about `Segment` | tlapm |
| `MCQueryEngine` | the instance: catalogs, segments, who asks for what | the same |
| `Catalog` | the tables and what each writer call and each reader makes of them | through `Ingress` |
| `Ingress` | REST handlers, the writer's queue and buffer, restart; extends `Catalog` | `Ingress.cfg` |
| `IngressProofs` | proofs about `Ingress` and `Catalog` | tlapm |
| `MCIngress` | the instance: tokens, producers, scenarios | `Ingress.cfg` |

Definitions named `X_Something` next to a definition `X` are faulty variants of
it: putting one in the place of `X` must break a property. They are not part of
any specification.

### ReadPool

The catalog is the number of snapshots committed so far. A write is the steps
commit, `bump_write`, acknowledgement; calls that commit statement by statement
may fail after a commit and then never bump, and calls without rows commit
their DDL and return before the bump. A worker's loop is split where the writer
thread can run: refresh decision (`Receive`), `DETACH`, `ATTACH`, load of
`write_gen` (`Load`), query (`Run`). A query carries the newest version
acknowledged when it was sent; `raced[w]` records that a bump fell between a
worker's ATTACH and its load, `heard[w]` what had been announced by a bump when
the worker took its query up. Every write answered Ok counts as acknowledged,
also one without rows that is answered without a bump (`AckDdl`); an ingest
answered from the micro-batch buffer has committed nothing yet and promises a
reader nothing. So `NoStaleRead` has two exceptions: a raced attach, and a write
that was never announced, in which case the query still sees all that was. The
first exception violates what the code says of itself (`readpool_stale`); so
does the second (Observations). Time is the action `Tick`, which makes an
attach older than the refresh interval.

### WriterLoop

One round of the loop is `Wake` (recv_timeout returns and flush_expired picks
its keys), `FlushNext` for each of them, and one command. Rows carry tenant,
table, column list and identity; the catalog is the number of committed copies
of each row and the tenant they are stamped with, so that double commits, wrong
stamps and mixed shapes are expressible. `Outcomes` gives every writer call its
results: done, failed with nothing committed, or, for calls that are not one
transaction, failed with any proper subset committed. Keys have no values:
`UpsertRaw` and `ApplyCdcBatch` keep any part of their rows (`dedup_by_key`) and
overwrite any stored rows of the table (`Overwritten`), of whatever tenant, since
`merge_upserts` matches on the key alone; deletes match the writer's tenant. What
disappears that way is in `gone`. `DeletesOwnRowsOnly` therefore speaks of rows
that go without a new row taking their place; that other tenants' rows can go
under one is the run `writer_takeover`. `cmd` is set only while
a command is half done (an ingest whose old batch is being flushed, a drain).
`ProcessExit` is the return of `main` after `drop(engine)`, which does not wait
for the writer thread; `CrashRestart` loses all memory.

### CdcPump

`log` is the topic. `pos` is what the consumer has handed out, `committed` the
rows of `cdc_offsets`, `table` the message that decided each key's state. A
batch is any set of prefixes of what is available that respects
`MAX_BATCH_MESSAGES`. `Apply` is the transaction of `apply_cdc_batch` (upserts
deduplicated and merged, then deletes, then offsets), `ApplyFails` its rollback
after which the pump asks for the *next* batch, `Resume`/`ResumeTimeout` the
seek at start, `Crash` a restart of the process or of the pump. `dropped`,
`scrambled` and `rewound` record the three ways in which the code may lose or
replay a message, so that `CaughtUpMatches` can say that there is no fourth.

### Jobs

`registry[j]` is the entry of a job with an age flag, `handler` the request
that minted it (which the server drops at its only await when the client goes
away), `task` the supervisor. tokio's semaphore is FIFO: `ticket` holds the
arrival number of a waiting request. A poll is the two map operations of
`get_owned`; it keeps what the first one found (`saw`), since the second may
find another entry.

### RowLife

The abstract specification of a row: unsent, held, stored or lost, and the five
steps that move rows between these: `Hold`, `Store`, `Remove`, `Merge`, `End`. It does not
know of batches, thresholds, ages, failures or commands. `WriterLoop` maps its
buffers and its catalog to `life` (`Life`, `Rows == INSTANCE RowLife`), and
`ImplementsRowLife` says that every step of the loop is a step of the abstract
one or none: nothing is stored twice, nothing comes back, a row is lost only by
a failed call, a delete of its own tenant, under the newly merged rows of its
table or at the end of the process.

### Segment

A query as the AST has it, `validate`, and the compiler. Compiled SQL is a
sequence of templates in the order of the text, each with its number of `?`;
parameters are a separate sequence in the order they are pushed, and are bound
from left to right as DuckDB does. A parameter pushed in the wrong order is
therefore bound to the wrong place, as it would be in the code. The wording of
the templates is left out; what they compute on a database is `Segment`'s small
model of DuckDB (three-valued comparisons, `ANTI JOIN`, `UNION`/`INTERSECT`/
`EXCEPT`, `arg_max`, `LIMIT`). `Denotation` is the reference: what a segment
should mean, defined on sets of users and never mentioning text, parameters or
common table expressions. Its frequency cap counts users `targeted`, as
`specs/20-ingestion.md` section 5 has it and the code does; the code's own
comment says more, which is the run `query_cap`.

### QueryEngine

The catalog is the sequence `log` of its committed versions. Every read of a
request is an action of its own and sees some committed version (`ReadPool`
says how far behind it may be); only the writer sees the newest. A read that
is given up at its timeout, or whose client went away, keeps its worker busy
(`stuck`) until it ends by itself. `Submit` is the handler and the parser; then
come the permit (`inflight`), the catalogue guardrail, the survivor count of a
Derive, EXPLAIN (any estimate), the main read, the reads of a profile, and the
label. A job takes no permit here and ends in the writer's `INSERT .. SELECT`.

### Catalog and Ingress

`Catalog` has the tables and, as operators on a database, what every call of
the writer does to them: chunk by chunk where the code commits per statement
(`done` chunks went through before the error), at once where it is one
transaction. `Ingress` has one handler per caller, cut at its awaits; the
writer serves its queue in order; onboarded rows may wait in the buffer; a read
sees the newest catalog or the older `view` a reader is still attached to. A
delivery system whose feedback failed, or whose answer was lost, sends it again
(`Retry`);
`Restart` loses queue, buffer, registry and handlers and takes a new signing
key, so that tokens of the old one are worthless. `issued`, `writes` and
`merges` are history for the properties.

## Runs

| Run | Result | Shows |
|---|---|---|
| `readpool` | holds | stale reads only after the attach/load race or of writes answered without a bump, no query without a catalog, views advance, every commit becomes visible |
| `readpool_stale` | violated | "readers never serve stale data after a commit" fails: a bump between ATTACH and the load of `write_gen` is taken for seen |
| `readpool_retry` | violated | "the next query retries" fails: after a failed ATTACH the batch always stops at DETACH |
| `writer` | holds | the loop implements `RowLife`; tenant stamps, accounting of acknowledged rows, uniform commits, complete drain and sweep, tenant-scoped deletes, buffers drain |
| `writer_takeover` | violated | "cross-tenant access is impossible by construction" fails: an upsert overwrites another tenant's row of the same key |
| `writer_exit` | violated | "no acked ingest is lost on shutdown" fails: the process does not wait for the drain |
| `cdc` | holds | offsets never ahead of data, no regression, caught-up table matches the log but for the recorded exceptions, every message settles |
| `cdc_loss` | violated | "no replay loss" fails: after a failed transaction the next batch commits past it |
| `jobs` | holds | permits conserved, answers true, nothing orphaned, outcomes final, entries go by age but for the race in `get_owned`, jobs end |
| `query` | holds | answers are the segment's denotation on the tenant's own data in one version, metrics and profiles are consistent, uncatalogued names are refused, snapshots are point-in-time, labels honest, permits conserved, requests end |
| `query_cap` | violated | "`>= max_contacts` `targeted`/`delivered` writebacks" fails: the frequency cap counts `targeted` only |
| `tables` | holds | merges decide the rows they reached, suppression feedback is stored once, views cover the stored names, edits win, exports are owned and unexpired |

Bounds. `ReadPool`: one worker (workers share only the catalog and never
interact), three commits (two that race one refresh and one more), a queue of
two, one failing ATTACH. `WriterLoop`: two tenants on one table, two shapes,
two rows with a threshold of two (below, at and above it), one failing call,
one crash; `writer_takeover` has no buffer and no faults. `CdcPump`: two partitions, three messages, batches of at most two,
one each of failing transaction, restart and timed-out resume; one key per
partition is enough because keys do not interact. `Jobs`: two jobs, one permit,
two tenants, one poller. `QueryEngine` (255,182 states, two to three minutes):
two requests of two tenants over two raw tables, two versions (one commit
between any two reads), one permit and one worker so that they are contended,
one registered source, a clock of 0..1, estimates 0..3 around the limits. The caps
(`SurvivorCap`, `MaxOutputRows`, `SyncRowCap`, `MaxInValues`, `TopCategories`,
...) are smaller than the code's, 2 instead of 3 for `TopCategories`, so that
they bite on a few users; `query_cap` switches the other suppression rule off,
and has one request and no catalogue check; the menu of segments has every op,
nested set operations, invalid segments and raw SQL with and without approval.
`Ingress` (482,548 states): three callers in twelve scenarios, each a conflict the code has to
resolve (insert against upsert or delete of a key, two tenants with one key,
feedback sent twice, edit against onboarding, producers of one family,
materialise against export); a threshold of two rows, chunks of one row, a
lifetime of one second, one fault, one restart, one retry. `MaxRows`, `MaxCommits`, `MaxEvents`, `MaxFaults`,
`MaxCrashes`, `MaxTimeouts` and the set `Ids` are bounds of the models only;
the theorems hold for every value of them.

Deadlock checking is off where the system may stop: the pool and the writer
after shutdown, the pump when the source has nothing more, `query` and `tables`
because every caller makes one call.

Fairness. Threads and spawned tasks that can run do run (weak fairness of
`worker_loop`'s steps, `writer_loop`, `Pump`, `Supervisor`), and time passes
(`Tick`, `Age` of a batch: `recv_timeout(AGE_TICK)` wakes an idle loop).
`EventuallyVisible` also needs queries to keep arriving at every worker, which
round-robin dispatch gives as long as there are queries at all. That a
materialisation ends rests on DuckDB answering; nothing is assumed of failures,
restarts, clients or the source. `QueriesEnd` assumes weak fairness of each
request's own progress (`Advance`: its steps, its timers, the writer's reply)
and nothing of the workers, which may hang for ever: the timeouts end the
request. `tables` has no liveness property and no fairness.

## Proofs

The proof modules about components follow one plan: an inductive invariant
`IInv`, a lemma per action that it is preserved, `Spec => []IInv`, and the
theorems from it. Nothing is assumed beyond the modules' `ASSUME`s on constants,
which TLC evaluates on every run; what they say is listed below.

| Module | Theorems |
|---|---|
| `ReadPoolProofs` | `TypeCorrect`, `StaleReadsOnlyAfterRace`, `NeverRunsDetached`, `WorkerViewsAdvance` |
| `WriterLoopProofs` | `TypeCorrect`, `TenantStampsAreRight`, `AckedRowsAreAccounted`, `DrainIsComplete`, `SweepIsComplete`, `DeletesAreTenantScoped`, `CommitsOfOneKind`, `ActorImplementsRowLife` |
| `CdcPumpProofs` | `TypeCorrect`, `OffsetNeverAheadOfData`, `RedeliveryNeverRegresses`, `CaughtUpIsRight` |
| `JobsProofs` | `TypeCorrect`, `PermitsAreConserved`, `PollsAreTruthful`, `NoOrphans`, `OutcomesAreFinal` |
| `SegmentProofs` | `CompilerCorrect`, `QueryNames` |
| `QueryEngineProofs` | `TypeCorrect`, `PermitsKept`, `OnlyCatalogued`, `AnswersRight`, `DerivesWithin`, `ProfilesRight`, `SnapshotsRight`, `LabelsHonest` |
| `IngressProofs` | `TypeCorrect`, `MergesComplete`, `OutcomesStoredOnce`, `WideViewsCover`, `ExportsOwned`, `EditsWin` |

- `ReadPoolProofs`. The strengthening relates a worker's view to the generation
  it recorded: if the recorded generation is the current one and no bump raced
  the attach, the view is at least what was published. A floor is never above what was
  acknowledged, nor `heard` above what was published.
- `WriterLoopProofs`. A batch holds rows of its own key only, no row is both
  buffered and stored, rows of a new command have fresh identities, and during a
  drain every open batch is still on the list. For the refinement `HistoryInv`
  is added: what is buffered was acknowledged, and the identity of a row that was
  acknowledged or is gone was used, so that no later command sends it again. With
  it, initial states map to initial states of `RowLife` and every action to one
  of its steps or to none: a flush stores, or loses, the
  rows of one kind (all of them, or the part that was committed), a direct write stores
  new rows of one kind and loses what they overwrite, a delete loses rows of its
  tenant, the end of the process loses what was held. The direct writes (engine
  tables, upserts, CDC batches) share one argument, `DirectCall`: each is a call
  with new rows of one kind, and what it overwrites is stored, of its table, and
  of its own tenant if it brings no rows.
  `CommitsOfOneKind` is read off the abstract step: copies grow in `Store` and
  `Merge` only.
- `CdcPumpProofs`. Everything before the current batch is applied or dropped;
  unless a resume gave up, a batch starts no earlier than the message at the
  committed offset, and the table holds nothing beyond it. That the last
  message of a set exists is proved from the well-foundedness of `<` on `Nat`.
  `CaughtUpIsRight` is about the end of the log and needs a statement about each
  of its prefixes, `LogInv` on top of `IInv`: every message of a key up to the
  committed offset, and up to what was handed out before the current batch, that
  is newer than the key's row was dropped (`Follows`), and a row has the state that
  its own message gives it unless its batch re-created the key (`Traced`). A
  position that stands at the end of the log then leaves nothing between the row
  and the key's last message but what was dropped.
- `JobsProofs`. A supervisor exists exactly for the requests that got a permit,
  an entry belongs to the tenant of its request, a recorded outcome is backed by
  a result and a snapshot, and answers are about jobs that exist. Permits are
  counted with the finite-set theorems. Expiry needs `PollsKnow`: an entry a poll
  is about to remove is still old, is gone, or was running when it was looked up
  and has been replaced by its outcome.
- `Induction`. The compiler and the catalog's helpers are recursive functions on
  0..n, and the library's induction theorems take an operator, which the
  provers cannot instantiate. The lemmas here take a set instead: from
  well-foundedness, a set of numbers that holds 0 and every successor holds all
  up to n (`UpTo`), a step function iterated from a value has a table of its
  results (`Recursion`), a finite set of numbers has a greatest element, a finite
  image is finite. A fact about a recursive definition is then a set of numbers
  that is shown to be complete.
- `IngressProofs`. No handler holds a lock across an await, so the invariant says
  what still holds of everything a handler remembers: each command in the queue
  is what its sender's request asks for, under its tenant (`CommandsOwn`); an
  edit in flight is dated after every entry it saw (`EditsAhead`); an outcome
  that is stored was posted by a caller of its tenant (`OutcomesPosted`);
  snapshots readers see are in the catalog, under the tenant that materialised
  them (`SnapshotsOwned`); a token speaks of a snapshot of the tenant it was
  given to and ends in time (`TokensBacked`), and an export that passed a check
  still satisfies it after its next await (`ExportsChecked`); no row is from a
  writer call yet to come (`RowsDated`). About the tables: `dedup_by_key` leaves
  one row per key and one for each key, chunked merges reach all of them, the
  views are rebuilt after each batch that changes names. For `EditWins`: a
  retrieval with room for every column cannot push a column's newest entry out,
  which is an argument about injections between finite sets.
- `SegmentProofs`. `CompilerCorrect`: for every query the parser accepts, every
  tenant, rules and database, if the compiled statement can be bound, its
  parameters bound from left to right make it select what `Denotation` says,
  which knows neither text nor parameters, on that tenant's rows alone. The
  argument has four parts. (1) Binding: `Bound(T, N, P, B)` says that templates T
  with N placeholders each use up the parameters P, and pairs each with its
  arguments in B; it is compositional under concatenation, so pieces can be bound
  one at a time and in place. (2) One lemma per op: the bound piece holds of the
  users the op means (`EventMeans`, `FilterMeans`, `FeatureMeans`,
  `ExcludeMeans`). (3) A part is the tenant conjunct and its ops; the set
  operators are applied from the last part back, to the same result
  (`Combined`). (4) A metric or a profile is the statement without its last op
  and the rows of that op's table. Beside the meaning, one lemma per op says which
  tables, columns and features its SQL names: none that `referenced_columns` and
  `referenced_features` do not report, on which the guardrail rests.
- `QueryEngineProofs`. `IInv` holds of each request by itself (`RequestOK`): what it
  must have asked to be where it is, that what it is about to run compiles, that
  the guardrail found everything it looked up, and that its answer is right for
  the version it read. Versions only grow (`EngineOK`), so what was found in one
  stays found. A step of a request is `Moves(r, x)`: it replaces one record and
  settles its permits, so that one argument serves the rest of the invariant
  for every kind of step of a request. Answers come from `CompilerCorrect`; a snapshot also
  needs the wrapped statement, where the cut-off and the tenant of each feature
  family are bound after the segment's parameters (`wrap_params`). `LabelsHonest` is an action property: every step is a step of
  the surroundings or of one request, and only two of them change a label or a
  cut-off, to the worst of the registrations of the tables the names lemma gives.
  `ProfilesRight` has a second invariant over the first, `ProfilesOK`: the three reads
  of a profile see versions of their own, so what each of them returned is tied to
  the version and the time of that read, and a request for a profile is never where
  a single statement is run. It follows that the counts fit the totals when the
  reads saw the same. That they add up is a fact about sums (`CategoriesAddUp`): the
  library's fold is expanded to its recursion over sets, the sum over some
  categories is shown to be the number of rows in them, by induction on the size
  of the set, and the rows of different categories are disjoint.

The invariants of `IngressProofs` and `QueryEngineProofs` and `LogInv` of
`CdcPumpProofs` were model-checked on the instances of the runs before they were
proved.

What the assumptions on constants say, and why the code justifies it. Requests are
what serde can deserialise: a query with ops of the kinds the enums list, a
predicate with a scalar or a list, rows as lists (`Query`, `ScenarioOK`). The id
of a materialised snapshot is a fresh uuid. A database holds finitely many rows,
of tenants that exist, with a number or NULL in every column its table has
(`Database`). There is at least one permit and one job slot (`threads.max(1)` at
`crates/query/src/engine.rs:74` and `apps/server/src/lib.rs:174`) and one reader. Two rows of one feature for one user at one time stamp would tie in
`arg_max`; which one wins is one choice, made the same way by the statement and
by the reference (`ArgMax`). A name the registry does not hold is unknown,
whatever the name (`get`).

Only model-checked, and why:

- all liveness (`EventuallyVisible`, `BuffersDrain`, `EveryMessageSettles`,
  `JobsEnd`, `QueriesEnd`): fairness and ENABLED are out of the prover's reach.

Every invariant, action property and refinement that a run checks is also proved.
What a recursive definition computes is proved where a set of numbers or the
size of a finite set can carry the induction (the compiler, the catalog's
helpers, the sums of a profile); there is no theorem about folds in general.

## Plan

1. Done: `ReadPool`, `WriterLoop`, `CdcPump` and `Jobs`, with runs and proofs.
2. Done: `RowLife` and the refinement; `Segment` and `QueryEngine`; `Catalog`
   and `Ingress`, with runs.
3. Done: proofs of the refinement, of the compiler, of `QueryEngine` and of
   `Ingress`.
4. Done: `CaughtUpMatches` in `CdcPumpProofs` and `ProfileConsistent` in
   `QueryEngineProofs`, the last two invariants without a proof.

## Observations

What the models show of the code beside the runs that are violated. Four of
these differ from what a comment says, and the properties that hold name each of
them as an exception:

- `ingest_raw` and `upsert_raw` without rows commit their table and are answered
  Ok(0) before `bump_write` (`storage/src/lib.rs:596-598`, `669-671`): pooled
  reads serve the older snapshot until the cadence backstop, although "the single
  writer bumps it after every committed write" (`execution/src/lib.rs:122-123`).
  The second exception of `NoStaleRead`.
- `apply_cdc_batch` merges the upserts of a batch before its deletes, so that a
  key deleted and re-created in one batch stays deleted, although rows are
  "deduped by `key`, last wins" (`cdc.rs:19`). The exception `scrambled` of
  `CaughtUpMatches`.
- `get_owned` releases the shard guard between the check of an entry's age and
  its removal (`jobs.rs:98-99`): a job that ends in between loses its fresh
  outcome, although "a concurrent poll can't race a stale entry"
  (`jobs.rs:93-94`). The exception of `OutcomeIsFinal`.
- A label is made after the rows were read (`query/src/engine.rs:396`): an ingest
  that commits and registers in between makes older rows look fresh, although
  operators are "never silently misled by a stale source"
  (`core/src/freshness.rs:3-4`). `FreshnessHonest` claims the registry only.

The others contradict no doc, comment or test, or are the documented trade-off:

- A buffered insert is committed after a later upsert or delete of its key
  that went straight to the catalog. Nothing orders the two, so no property does;
  `MergesReachCommitted` is about rows that were committed before the merge.
- `MergesReachCommitted` takes the key as the code does, across
  tenants; that this crosses tenants is the run `writer_takeover`.
- An edit of a catalogue entry may tie with a concurrent onboarding in the same
  second; which of the two is retrieved is then open.
- `onboard` parses the source type after the rows are taken: a call refused for
  it has ingested. With buffering, the first onboarding of a table may find no
  table to profile.
- `raw_table_name` joins system and entity with `_`: `a_b` + `c` and `a` + `b_c` are
  one table.
- Feature producers and the profiler read the rows of all tenants.
- A job whose audience is empty is done, and its snapshot is not found.

## Not modelled

The wording of SQL and of view definitions; Parquet files, compaction's and
expiry's file work (they change no row); hashing and HMAC (abstracted to
equality); the ranking of embeddings, the texts of language models and the
classes of personal data; the cadence statistics of the producers, which are
floating point (the events a score is computed from stand for it), and their
comparison of timestamps as text (one format is assumed); timestamps DuckDB
cannot parse in stored data; configuration parsing; the examples. `PROJECT.json` lists every component and every hazard,
also those no property covers.
