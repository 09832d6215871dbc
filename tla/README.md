# A verification development for quant-intraday

TLA+ models of the parts of `quant` whose correctness depends on the order in
which things happen (stores, jobs, feeds, logs, limits, sessions, commands that
share files) or on an exact argument about positions and dates (purged
cross-validation, labels, features as of a bar, books as of a month, the two
backtest engines), the TLC configurations that check them on small instances,
and TLAPS proofs, for every value of the parameters, of what most of them promise:
the archive and the backfill into it, the purge, its paths and the training on
it, the rate limiter and the broker session, the audit log, the depth and the
reaction recorder, the tick stream, the registry, the research desk and the
gate of a study, both backtest engines, and the books of the two monthly desks.  Paths below are relative to `src/src/quant/` unless they start
with `src/`; scripts are under `src/scripts/`.

## 1. The system

The program collects Indian equity market data, labels it, trains models under
purged cross-validation, and judges a strategy by a backtest and a kill gate.
No order is ever sent: the `execution`, `ops` and `control` packages are empty.

```
 morning login --> secret file --> token --> KiteAdapter, ticker
 broker socket --> TickStream --> queue --> DepthRecorder --> depth Parquet
 broker REST  <-- RateLimiter <-- KiteAdapter <-- BackfillJob --> Parquet | Arctic | Redis
                                                      |--> checkpoint JSON
 stores --> hygiene, features, labels --> splits / CPCV --> models --> registry
                                              |                  |
                                              +--> pipeline --> targets --> two backtest engines
                                                                   |--> statistics --> kill gate
 scripts: complete pipeline | factor gate | ETF rotation | mechanism studies (pre-registered in git)
 everything that must be auditable --> AuditLog, experiment tracker
```

### Inventory

| Component | State it keeps | Operations | How it meets the others | What makes it correct |
|---|---|---|---|---|
| Parquet archive (`data/store/parquet.py`) | one file per (symbol, day), `.tmp` neighbours | `write_bars`, `read_bars`, `list_symbols` | called by the backfill job, read by research | write-once; a report of success is true; what was read never changes |
| Arctic, Redis stores (`data/store/`) | versions; rolling windows with a TTL | the same interface | the other tiers of the backfill | latest version; newest bars, incoming wins |
| Backfill job and CLI (`data/ingest/backfill.py`) | checkpoint file and its copy in memory, results | chunked fetch, write, mark, skip | broker, then store, then checkpoint, in that order | the checkpoint never promises what the store lacks; one bad symbol does not end the run |
| Depth recorder (`data/recorders/depth.py`) | buffer, counter, partition files rewritten in place | `record`, `flush` | fed by the live stream | the last snapshot of a timestamp wins |
| Event-reaction recorder (`data/recorders/events.py`), `mechanisms/pead.py` | one file rewritten in place | look-ups around an announcement, merge | archive in, drift study out | what is on file is what the full history gives |
| Tick stream (`data/ingest/stream.py`, `data/brokers/ticker.py`) | connection, bounded queue, counters, last activity | socket callbacks, queue consumer, heartbeat | socket thread, draining thread, heartbeat thread | every tick accounted for, in order; the feed recovers; no false alarm |
| Broker adapter and limiter (`data/brokers/kite.py`, `rate_limit.py`) | token bucket under a lock | `acquire`, `fetch_historical` | every history request passes it | burst and rate respected; nobody waits for ever |
| Broker session (`data/brokers/auth.py`, `morning_auth.py`, `core/secrets.py`) | access token, secret file, client | daily login, store, seed, read | adapter, ticker | today's token, no lost secret |
| Audit log (`core/audit.py`) | hash-chained lines, head of the chain | `append`, iteration, `verify` | anything auditable | unbroken chain, edits detected |
| Features, labels, data set (`data/features`, `research/labeling`, `pipeline/dataset.py`) | none between calls | resample, features, CUSUM, barriers, weights, pooling | archive in, rows out | a row is what was known; later bars change nothing settled |
| Purged cross-validation (`research/validation/splits.py`, `cpcv.py`) | none between calls | `split`, `reconstruct_paths` | labels in, training sets out | no leak, exact purge, paths partition the results |
| Models and training (`research/models/`) | fitted members, calibrator, gate; run tracker | fit on folds, search, evaluate | folds in, artifact and trials out | out-of-fold means it; every trial is logged |
| Backtest engines (`research/validation/backtest.py`, `reconcile.py`, `research/pipeline/robustness.py`) | cash, position, fills, curve | `run`, `reconcile_engines`, `_sample_targets` | gate and sizing hand them targets | no look-ahead, flat overnight, both engines agree |
| Model registry (`research/models/registry.py`) | version directories: model, card | `register`, `latest`, `get` | training writes, evaluation reads | a loaded model is the one its card describes |
| Research pipeline, kill gate (`research/pipeline`, `research/reports`) | tracker, report file, verdict | train, stress, validate | archive, registry, tracker, report | the report is backed by the tracker; a PASS by the battery |
| Complete pipeline (`run_complete_pipeline.py`) | trial records | arms, pooling, evaluation, deflation | archive or yfinance in | overlaps stay overlaps on the synthetic clock |
| Factors, capital (`research/factors`, `capital/portfolio`, `run_factor_gate.py`) | actions CSV, trial log | fetch, adjust, screen, score, book, gate | panel in, books and verdict out | a past month stays; only what could be bought; caps |
| ETF rotation (`research/etf`) | none between calls | rank out of fold, rebalance, charge, compare | panel in, curve out | no look-ahead; money is conserved |
| Mechanism studies (`research/mechanisms`, `run_p7_pairs.py`) | pre-registered document, trial counter | gate, variants, deflation | git | nothing is judged by a text changed after the fact |
| Hygiene, quality, bhavcopy, statistics, core services | none | pure computations, I/O around parsers | data flow above | formula by formula |

`PROJECT.json` lists every component with its status and the reason where a
part is left out, and every hazard at its line.

### What is hard here

* **Durability in several steps.** Temporary file and rename, bars and
  checkpoint, model and card, line and newline, verdict and report: a crash
  falls between any two.
* **Idempotent re-runs** over an archive that refuses what differs, over a
  growing panel, over announcements whose bars have not all arrived.
* **Threads and processes**: socket thread against draining thread, callers of
  one limiter that sleeps under its lock and of one client whose token is
  replaced, appenders of one log, commands over one registry and one report.
* **Time**: labels that end exactly where a test begins, calendar days against
  sessions, an embargo at the end of the sample, a fill delayed over the end of
  a session, features of a finer bar length joined by time.
* **What may be known when**: a split applied to the past, a universe of names
  that are listed later, a calibrator fitted on rows it is judged by.
* **Two computations of one thing** that drift apart only in corner cases.

## 2. Modules and how they correspond to the code

One module per component; an action per operation or, where a crash or another
process can come in between, per file operation.  Definitions called a *slip*
are wrong variants of the definition after them; no specification uses them.
They are what the properties have to detect.  `PROJECT.json` maps every
definition to the lines it stands for.

### Collecting

**WriteOnce** is the abstract store: cells, each filled at most once.  Two
modules use it: `ParquetArchive` implements it, and `Backfill` uses it as its cold tier.

**ParquetArchive.** `file[<<s,d>>]` is what a reader finds in a partition,
`tmp` its neighbour, `todo` the rest of the loop over the days of a frame.
`write_bars` is `WriteBars`, then for each day in order `SkipIdentical`,
`Refuse` or `FindAbsent`, `OpenTmp`, `FillTmp`, `Rename`, and at the end
`Return`; `Abort` is an `OSError` or the end of the process at any point.
`FillTmp` and `Rename` follow the inode: a `.tmp` renamed away by another process
is filled where it now is.  `read_bars` lists, then opens file by file.  A frame
is which content each day has; `frames_equal` is equality.

**Backfill.** A growing market (`clock` in half days, so that a session can be
fetched half-way), an operator who starts runs with any tier, interval and
range, and `_do_symbol` in steps: skip, `FetchChunk` by `iter_chunks`, write
into one of three tiers, `MarkMemory`, `SaveCheckpoint`.  `StepFails` is the `except` that
isolates a symbol, `Crash` the end of the process.  **MCBackfill** has two instances, one of
them per behaviour.  `promised` is a history
variable: which closed days have been marked.

**RateLimiter.** `acquire()`: lock, refill, grant or sleep under the lock, wake.
Tokens are counted in parts, so refills are exact; the `1e-9` guard
against rounding is left out.

**BrokerSession** extends it.  `Login` is `seed_and_persist` up to the secret
file, whose `set` is `ReadAll`, `OpenTmp`, `FillTmp`, `Replace`; a process takes
the token up (`TakeUpToken`, or `SeedClient` and `SeedStore` when it logs in
itself) and its threads fetch: `BeginFetch` reads the store, `SetToken` sets it
on the client they share, `Acquire` is a step of the limiter, `Send` the request.
`kept` is what the `set` calls that returned left; `call[t].floor` the newest token
of the store when the call began, `alone` whether another call overlapped it.

**TickStream.** `link`, `subscribed` and the pending `on_connect` callback are the SDK as
the transport uses it (external; the assumptions are in the module head).
`on_ticks` delivers a batch that `ParseTick` goes through tick by tick while
`Take` drains the queue; `ParseRaises` is a timestamp that
`parse_market_update` cannot read.

**DepthRecorder.** Buffer, `Merge` (the concatenation and
`drop_duplicates(keep="last")`), the rewrite in place, exceptions before it
(`WriteRaises`) and in the middle of it (`RewriteTears`), restarts.

**EventRecorder.** Bars of each symbol are archived in order; `RecordEvents` begins
a `record()` over a calendar and `RecordNext` looks around one announcement, from its
`Anchor`, in the bars archived so far, and skips it while the window is not complete; `ReadAndMerge` and `RewriteStore` are the store's
`write`.  `BuildStudy` is `PeadSpec`.  A return is the pair of its closes.

**AuditLog.** The file is its complete lines and the text behind the last
newline; SHA-256 is injective, so a hash is the tuple it covers.  `Acquire`,
`WriteLine`, `Commit` are `append` under its lock; a failed write leaves nothing, a piece, or a
line without its newline (`Tear`), or, when only closing the file fails (`CloseFails`), the
whole line, which the process then does not count.  `stray` remembers such a line and
whether its process wrote on behind it.  `Alter`, `RemoveLine`, `Repeat` are one edit from outside.

**MCRecorders** runs the last four, one of them per behaviour: they share no state.

### Rows, folds, models

**BarFeatures** and **Labelling** are operators on a frame of bars: resampling
and the trailing features, and the CUSUM events, barriers, labels, meta-labels and
uniqueness.  Prices are integers on the log scale, so a return is a difference;
a ratio is kept as the pair of its terms and a deviation as its dispersion, so
nothing is rounded.  **PointInTime** applies them as `dataset.py` does while the bars of one
symbol `Arrive`: `Dataset` is `build_symbol_dataset` at two bar lengths, `Pool`
`pool_datasets`, empty where the code raises because no symbol has rows.

**PurgedSplits.** One step per split in the order of
`itertools.combinations`, one per stitched path.  `PurgedTrain` is
`purged_train_mask` with its runs, searches and embargo; `Assigned` is
`_path_assignment`; `np.array_split` and `searchsorted` are written as what they
return.  `PurgedKFold` is the case of one test group.

**Scoring** and **TrainingFolds** extend it with what learns on the folds: the
trainers of `baseline.py` and `ensemble.py` fold by fold (`BaselineFold`,
`EnsembleFold`), their rank average and calibrator, the search of `tuning.py` trial
by trial with its tracker, and `evaluation.py` (`Evaluate` fits members, calibrator
and gate in one split).  How an estimator learns is external: here a member
learns the weighted share of positive labels among the training rows that look alike
to it, so every training row matters to what it says.

**Backtester** and **MCBacktester.** `WalkBar` is a turn of the loop of
`Backtester.run`; `PriceTrade` and `SumBar` are the array expressions of
`VectorizedBacktester` bar by bar; `SampleTargets` is `_sample_targets`.  Costs and slippage keep
their shape (side, cap, size against volume), not their rates.  **MisTrader** is
the abstract trader: he reads each target on its own bar, waits, and is
flat when a session ends; what he has read by then (`Intents`, a function of the
bars walked so far) is the refinement mapping.  **MCBarsToCurve** runs `PointInTime` and `Backtester`,
one of them per behaviour.

**ModelRegistry.** `register` in six steps from `_next_version` to the card,
`latest` and `get` in two reads, several processes, crashes between all of them.

**Judgement** and **ResearchDesk** compose it with the commands.  `Judgement` holds
the flags of the battery, the statistics of the report and the seven criteria; a symbol whose
Sharpe ratio cannot be computed (`Undefined`) ends the battery.
`ResearchDesk` has train, stress and validate commands as processes over one
archive, registry, tracker and report file, each in the order of its code: pool, load,
judge, battery test by test, log, open the report, fill it.  Training is deterministic, so an artifact
is the version of the data it was fitted on.

### Scripts

**DailyPipeline** (`run_complete_pipeline.py`): per arm `LoadArm` through the
bad-tick filter, `BuildSymbolRows` with fractional differencing,
`AddCrossSectional`, `PoolStrategies` onto the synthetic clock, `EvaluateArm`,
`CountTrials`, `LogMlflow`.  The search for the order of differencing takes the first order
that makes a column stationary among those that leave `MinTested` observations, and the
fallback when there is none or less than half of the column remains; a constant
column makes the test raise, which ends the script (`RowsRaise`), as do `RaiseError` and
`EvaluationRaises`.  The record of trials is searched up to `MaxResults`.

**FactorSignals** and **FactorDesk** (`run_factor_gate.py`): `FetchCorporateActions`,
`Load` (adjust), `Share`, `Book`, `Rebalance`, `Judge`, `Log` for two combiners, then
`NextDay` and again.  The fetch may miss any set of months (`FetchCorporateActions`).
`LoadSectors` downloads the list of sectors once and keeps it whatever its body was; while the
download fails, or for good when the body cannot be read, every name is "Other".
`JudgeRaises` is a job with fewer rebalances than the gate has groups.  A deviation is a mean absolute deviation, which is zero,
undefined and scaled in the same cases; an inverse volatility is rounded up, since
the code's is never zero.

**EtfRotation** (`etf_rotation.py`, `etf_portfolio.py`): `BenchmarkDay`, `TrainFold`,
`MakeSchedule`, `TradeDay`, `NextConfig`, `JudgeGate`.  Prices are positive
integers, money whole units, returns halves; a quotient is rounded down, of a debt
as of what is owed.  `FoldsRaise` is a calendar too short for the folds.  The ruling of
`JudgeGate` is a choice, since the significance it depends on is a formula over floats.

**MechanismStudy**: an author edits, stages and commits; the gate looks three times
(`LoadDocument`, `AskStatus`, `AskLog`); `TryVariant` and `ReportBest` are
`run_p7_pairs.py`.  That script does not call the gate itself: the module composes the
two as `src/docs/mechanisms/README.md:33-37` says a study's entry point does.

**MCStudies** runs the four, one of them per behaviour.

### Proofs

**FiniteOrder** is the library of the proofs: least and greatest elements of finite
sets of integers, ranks, the cuts of a range into even stretches, induction over
finite sets, sums, and pairs counted row by row.  The theorems are in

| Module | Component |
|---|---|
| `ParquetArchiveProofs` | `ParquetArchive` |
| `BackfillProofs` | `Backfill` |
| `BrokerProofs` | `RateLimiter`, `BrokerSession` |
| `RecordersProofs` | `AuditLog`, `DepthRecorder`, `TickStream`, `EventRecorder` |
| `PurgedSplitsProofs` | `PurgedSplits`, `TrainingFolds`, `EtfRotation` |
| `BacktesterProofs` | `PointInTime`, `Backtester`, `FactorDesk`, `DailyPipeline` |
| `ModelRegistryProofs` | `ModelRegistry`, `ResearchDesk`, `MechanismStudy` |

## 3. What the runs check

| Run | Question and answer |
|---|---|
| `parquet_crashes` | The archive implements `WriteOnce`; what `write_bars` reported, of success or of failure, is on disk; what a reader collected stays. Any file operation may fail or be the last one. |
| `backfill_reruns` | `ArchiveHoldsMarked`: every closed day a run has marked is archived whole, through crashes, failed saves and re-runs, in any tier. `EverySymbolReported`: when a run over two symbols reports, each has a result, whichever of them failed, and one that is called clean is in the checkpoint file up to the end of the range. `RunEnds`, whatever fails. |
| `broker_session` | `SecretsSurvive` every death of a writer; `LoneCallIsFresh`: a call that no other overlaps is sent with a token as new as the store's; with the limiter, `RateBounded` for every pair of requests and `HeldBriefly` for every holder of the lock. |
| `live_recorders` | `VerifyTells`: a readable log verifies exactly while its history is untouched, unless a process wrote on behind a line whose append had raised; `ArchiveIsLatest`; `RecordsSettle`: a reaction on file is what the complete history gives; `EveryTickAccounted`, `NoFalseAlarm`, and `Recovers`: a connection that lasts ends up subscribed. |
| `bars_to_curve` | `LiveIsBatch`: the features of a row are those of the bars traded by its close; `PastIsFixed`: later bars change no settled row; `StopIsNotHidden`. Both engines make the same fills and the same curve; no position over night; the walk implements `MisTrader`, so no look-ahead. |
| `training_folds` | `NoLeak`, `PurgeIsExact` (nothing else is dropped), `PathsPartition` (each out-of-sample result is in exactly one path); `OutOfSampleIsHonest`: scores, calibrator and gate would say the same of a row had its outcome been another; `CalibrationIsIsotonic`; `LedgerIsTrue`: every trial is logged and the winner is the best of them. |
| `research_desk` | A load that succeeds returns card and artifact of one `register` call; a version only one call was writing is kept; the report on file has its verdict and every test of the battery in the tracker; a PASS is contradicted by no number the battery logged. |
| `scripted_studies` | `PurgeIsNeverLeakier` on the synthetic clock; for the factor desk `AdjustedIsContinuous`, `SettledBooks` (a job after a later split finds the books of past months as they were, given the same columns, sectors and past actions), `BookIsTradable`, `ExposureBounded`; `RotationHonest` and `BooksBalance` for the funds; `CommittedIsJudged` while the author keeps still. |
| `audit_torn_line` | *Violation*: see finding 1. |
| `backtest_gate_off` | *Violation*: see finding 2. |
| `pead_labels` | *Violation*: see finding 3. |
| `split_with_bonus` | *Violation*: see finding 4. |

Type invariants are stated beside the variables of the modules that have typed
logs or files.  Those of `ParquetArchive`, `Backfill`, `RateLimiter`, `BrokerSession`,
`AuditLog`, `DepthRecorder`, `TickStream`, `EventRecorder`, `PurgedSplits`,
`Backtester` and `ModelRegistry` are proved, alone or within an inductive invariant,
and no run is spent on them.

### Bounds

| Run | Instance | Why it is enough |
|---|---|---|
| `parquet_crashes` | 2 symbols, 2 days, 2 contents, 1 writer, 1 reader | two days show a half-written frame, two contents a refusal, two symbols a mix-up of keys |
| `backfill_reruns` | runs over 1 symbol into all tiers, or over 2 symbols into the cold tier; 2 days, chunks of 1 day, window of 1 day, starts 1 and 2 | two chunks, two overlapping ranges, a window that overflows; one symbol is refused, fails or loses its save before or after the other succeeds, and a re-run skips the one and repeats the other |
| `broker_session` | 2 calling threads, 1 writer, 2 tokens, a token of 3 parts, 1 a tick, room for 4, oversleep 1, 6 ticks, 3 requests | a token is replaced while one thread waits and another begins; the capacity is no multiple of a token, the burst is spent and earned again; a writer dies in every step; the environment holds a token from before the session or none |
| `live_recorders`, audit | 2 threads, 2 data, 3 lines | an edit before, at and behind the last line; a torn write between two appends; a line whose append raised at the end of the file, adopted by a restart or written on behind |
| `live_recorders`, depth | 2 partitions, 2 times, 2 books, batch of 2, 3 snapshots, 1 restart | a flush of two files that fails between them, a repeat across batches and processes |
| `live_recorders`, events | 2 symbols of 7 and 5 bars with a weekend, a suspension and a broken close; windows of 1, 1 and 2 sessions; 4 calendars | announcements in and between sessions, windows that are complete, cut and never complete, an announcement corrected later |
| `live_recorders`, feed | 1 token and an unknown one, queue of 2, 3 ticks in batches of up to 2, timeout 1 s, 2 s | overflow by one, a batch cut short, a reconnection between |
| `bars_to_curve`, rows | up to 9 slots in days of 4, windows of 2, 1 slot missing, 3 shapes of bars, 3 configurations, 3 symbols | every window fills, slides over a session and over a gap; both barriers in one bar; fine bars of half a decision bar |
| `bars_to_curve`, curve | 5 bars cut into sessions in every way, delay 2, positions -1, 0, 2 | a session longer than delay and forward fill, sessions of one bar, reversals; prices all differ |
| `training_folds` | 10 rows, 4 groups, 2 of them tested, embargo 1, label ends up to 2 instants on, with and without pauses; 2 tables, 2 members, 2 grids of 2 | groups of unequal size, test runs that touch and that do not, labels that meet an event exactly; a rare class that leaves folds of one class |
| `research_desk` | 2 trainers, 2 validators, 2 artifacts, 2 versions, 3 commands, 2 states of the archive; symmetry of the processes | two calls on one number and one after them; a report overwritten by a second command; evidence and batteries on both sides of each threshold, one whose baseline loses in its own pool, one with a symbol without a Sharpe ratio |
| `scripted_studies`, pipeline | 9 sessions over a weekend and a holiday, every sequence of 4 moves of 3 sizes, broken prints, 3 symbols of 2 sectors, 1 or 2 arms, 2 runs | trades over the weekend, events without features, symbols that are dropped, an archive cut by the bad-tick filter; an order that leaves too little to test or to keep, a column that is constant once differenced |
| `scripted_studies`, factors | 5 names, 10 days, jobs on days 6 to 10, months of 2 days, 2 groups for the gate, 3 panels; the sector list good, failed or unreadable | a split and a bonus before the first job (day 5), a split between two jobs (day 8), an action without a drop, each of them fetched or missed; names suspended, listed late, delisted; caps that bind and weights within the band |
| `scripted_studies`, funds | 3 funds, 14 sessions of 3 months in 2 calendars and 6 in a third, 3 folds, 13 price panels of doublings and halvings, 2 plans | holding periods over a weekend and a holiday; risk-off months; a rotation that passes and that fails; fewer observations than folds |
| `scripted_studies`, mechanism | 4 texts, 3 edits, 2 commits, 2 variants of 2 scores, 2 seconds | an edit between any two looks of the gate; a commit in the second a run starts |

A run that composes components without shared state chooses one of them per
behaviour; the inputs of the others are fixed, which changes nothing for the one.

Deadlock is checked where the system can always go on (`parquet_crashes`,
`backfill_reruns`).  The other instances end by
themselves, at a bound or when the computation is finished.

### Fairness

* `Backfill`: `WF_vars(JobStep)`.  The job is one thread that runs until it has
  nothing to do; failing and crashing are never forced or forbidden.  `RunEnds`
  would be false if a step could repeat itself.
* `TickStream`: weak fairness of `Open`, `OnConnect` and the parse loop.  The SDK
  retries by itself until it gives up, and a callback that began is run
  to its end.  Nothing is assumed of the draining thread, the network or time.
  `MCRecorders` takes this fairness over (`StreamFairness`).
* All other specifications are safety only.

## 4. What is proved

Every proof is for all values of the constants, under the named assumptions of the
modules: sizes positive, markers different from data, data typed.  The assumptions
that say more than that are these.

| Assumption | Where | Why the code justifies it |
|---|---|---|
| `SingleWriter` (hypothesis) | archive | the CLI is one process; with two writers TLC refutes the refinement and `ReadsArePermanent` |
| `Capacity >= Unit` (hypothesis) | `HeldBriefly` | the constructor accepts less, and `acquire()` would then never return |
| `OneWriter` (hypothesis) | `SecretsSurvive` | the morning login; two writers share one temporary name |
| `HistoryAssumption` | reactions | the archive returns the bars of a symbol in order of time |
| `RotationAssumption` | funds | sessions are sorted, prices positive, and `horizon` sessions never take more than twice as many days, which is the estimate the purge rests on |
| `ArchiveAssumption` | rows | bars come back from the archive sorted (`data/store/serde.py:63`), one per slot since a day is written once; the pipeline has the two holding modes |
| `PipelineAssumption` | pools | an arm gets the bars of a symbol in order of time (`data/store/serde.py:63`), the yfinance arm one a day; the symbols are the sorted keys of `SECTORS`, so none occurs twice |
| `PriceAssumption` | factor books | adjusted closes are positive |

The invariants are conjunctions of named parts; each part is what one property
lacks to be inductive.

* **ParquetArchiveProofs.**  `TypeOK`, `ReportsAreTrue`, `ReadsArePermanent`,
  `Immutable` and the refinement of `WriteOnce`.  A rename overwrites unless
  the `exists()` three steps earlier still holds, and publishes a torn file
  unless the `.tmp` was filled.  `InFlight` says both, `Bookkeeping` ties the
  request to what is left of it, `Listing` what a reader saw to what is there.
* **BackfillProofs.**  `ArchiveHoldsMarked`, `EverySymbolReported`, and that into the
  cold tier the job implements `WriteOnce`, whatever it does with the others.  A run
  marks a symbol long after it looked at the clock: `Fetched` says what it got,
  `Archived` how far it is written, `MemoryLeads` that the copy of the checkpoint is
  ahead of the file by no more than the symbol at hand, `Accounts` what the results say of both.
* **BrokerProofs.**  `RateBounded` speaks of pairs of past requests; `Credit`
  links it to what is in the bucket.  `HeldBriefly` needs the sleeper to wake with its
  token earned (`OnTime`).  `SessionLimits`: whatever the session does besides, its calls
  take their tokens as the limiter says, so both bounds hold of it (a refinement,
  step by step).  `LoneCallIsFresh` needs that no token anywhere is ahead of the broker
  and that a call which was not overlapped is the only one; `SecretsSurvive` that the
  temporary file is whole when it is moved into place.
* **RecordersProofs.**  `VerifyTells`: a torn line puts sequence numbers ahead of
  positions and never back, so an untouched log is a chain (`IsChain`), to which a line whose
  append raised belongs until its process writes on behind it (`CloseFailsKeeps`), while an
  edit leaves a flaw at one position (`IsFlawed`) no append repairs.  `ArchiveIsLatest`:
  file, rows being merged and buffer, read in that order, give the last book offered, in whatever
  step a flush fails.  `EveryTickAccounted`, `NoFalseAlarm`.  `RecordsSettle`:
  a window that is complete when it is recorded has the first and last bar it will
  always have, because bars are only added behind.
* **PurgedSplitsProofs.**  `NoLeak`, `Embargoed`, `PurgeIsExact`: around each test
  observation there is a maximal run (`RunAround`), and a training observation lies
  before that run or after its latest label and the embargo.  `PathsPartition`:
  the splits that test a group are dealt to the paths by their rank, and there are as many
  of them as paths.  `StudiesFollowTheScheme`: a training, a search or an evaluation
  makes the splits of the scheme and no others.  `OutOfSampleIsHonest` quantifies over
  tables that were never the state: what is said of a row equals what the estimators give
  from its training rows (`HonestInv`), none of which overlaps it, and sums over
  rows that agree are equal.  `LedgerIsTrue`: the ranks of the positive rows count each
  row below one of them twice and each tie once (`RankSum`); among themselves the
  positive rows make a square of pairs whatever their scores, and what is left is
  the concordance (`RankStatistic`).  `LedgerInv` adds that the scores listed so far are those
  of the blocks that could be judged, and that finished trials and the tracker say the
  same.  `RotationHonest`: label ends are days, holding periods
  sessions, and the step between them needs sorted calendars.  `BooksBalance`: each leg
  loses less than a unit when a quotient is rounded, upwards in debt as well, so the
  legs together lose at most a unit each, whatever is drawn, charged or drifts.
* **BacktesterProofs.**  `TypeOK`, `FlatOvernight`, `EnginesReconcile`: the engines
  are compared when the first has forgotten its cash, so the invariant recovers
  it from the curve (`CashAt`) and keeps both logs equal to the one the
  holdings prescribe (`Logged`).  `ImplementsTrader`: the position of the walk is what the
  trader holds who reads each target on its own bar, so there is no look-ahead.
  `BookIsTradable`: a weight needs a volatility, and that a close on each day of
  the window.  `ExposureBounded`: the caps hold of each book after both rounds of
  scaling, and a held weight lags its target by no more than the band (`HeldInv`), name by
  name and hence in the sum of a sector.  Prices are integers: these theorems are
  about the algorithms, not about rounding of floats.
  `LiveIsBatch` and `StopIsNotHidden`: the invariant is only that the bars stay in the order
  of time (`RowsInv`); the rest is what the operators do to such bars.  Intervals are as
  ordered as the bars that open them (`FrameFacts`), the bars before a moment are the first
  ones (`TradedBefore`), and what had been traded by the close of a fine bar resamples to
  the frame up to that bar (`TradedFrame`), from which every feature is the same
  (`FeaturesLookBack`).  The CUSUM filter is a recursive function: that it asks only about
  bars of the frame, and about each from the bars up to it, is shown at the least bar where
  it would not (`EventsGrow`, `EventsLookBack`).  A first touch lies before its vertical barrier, which
  is in the session of its event because days are as ordered as times (`VerticalFacts`).
  `PastIsFixed`: one more bar leaves all of a frame but its last bar as it was (`FramesGrow`),
  so features of decision bars that are over stay (`FeaturesKept`); on two frames that agree before
  a position, a trade that is over before it is over in both or in neither, with the
  same event, barrier and exit (`TradeAlike`), which read in both directions makes the
  settled rows the same (`RowsAlike`).
  `PurgeIsNeverLeakier`: the invariant (`PipelineInv`) is that every frame of the arm at hand
  has a bar a day (`OneADay`) and that every row kept of a symbol speaks of bars of its frame,
  through both arms, the filter and the added columns.  Positions of a frame then never
  outrun its days, so the n-th event after another starts at least n days later
  (`SymbolIsSpaced`), n seconds later on the clock, where the label lasts a second for each
  of its days.  A symbol begins behind every label before it (`EpochIsLater`), and
  the filter's and the pool's recursive functions are shown to exist and followed turn
  by turn, at the least turn where the claim would fail (`CourseExists`, `PoolIsSpaced`).
* **ModelRegistryProofs.**  `LoadedIsOneRegistration`: every whole card on file was
  returned by the step that filled it (`CardsAreReturned`), so what a reader holds
  between its reads was (`ReadersKnow`).  `EveryVersionKept`: a number two calls
  did not share has one owner until the return and none after (`OneOwner`, `Fresh`, `Written`, `Kept`).  The
  commands keep that invariant (`Callers`); what a command has logged follows from where it
  stands (`Trail`), hence `ReportIsAudited` and `PassSurvivedTheBattery`.
  `CommittedIsJudged`: while the author keeps still, the text read is the one git
  calls clean (`Read`, `Agreed`), and commits stay what they are (`Admitted`).
* **FiniteOrder.**  The induction theorems of the library take an operator as a
  parameter, which the provers cannot instantiate.  Induction over finite sets
  is proved from the ordering by strict inclusion, which is well founded, and a sum from
  the recursive function the community modules define it by: `SumInsert` (one element
  more), `SumSame` (equal terms), `SumBound` (bounds on the terms add up).  `CountedByRow`
  and `OrderedPairs` count pairs with them.

What the attempts to prove found in the models, and changed there: a battery whose baseline
loses (the old `PassSurvivedTheBattery` was false of it), the error
raised for an empty list of noise levels, `record()` as one look per announcement, the
order of archived bars, an inverse volatility rounded to nothing, and the sign
of a rounded debt.  The runs now contain the first of these cases; the
properties that were false are stated as they hold.

### What is only model-checked

* `RunEnds` and `Recovers`: liveness under fairness needs ENABLED.
* `CalibrationIsIsotonic`: what pooling adjacent violators leaves of scores of any number, an
  induction over a stack of blocks whose length changes at each turn.
* `SettledBooks`: what a shorter and a longer job compute for the same month, through
  every fold from the raw closes to the weights held, an induction over all of them at once.
* `AdjustedIsContinuous`: an adjusted series has no step on an ex-date only where the
  divisions by the factors are exact, as they are for the prices of the run; over all
  integers the quotients round and the equation does not hold, so this is the run's claim
  and not a theorem.

## 5. Where code and documentation differ

Shown by a run:

1. A write that stops half-way leaves a log that `core/audit.py:118` cannot open
   (`audit_torn_line`), though opening is said to continue the chain.
2. `_sample_targets` drops targets that are zero, so a position the regime gate
   has switched off is held on (`backtest_gate_off`).
3. The label of an earnings event ends 20 calendar days after it, the drift it is
   judged by 21 sessions after the reaction (`pead_labels`), so the purge clears too little.
4. A split and a bonus issue of one ex-date are two rows of the feed, each of
   each of which applies the whole observed drop (`split_with_bonus`).

Behaviours of the models that no property calls wrong, for a reader of the code.

Stores, sessions and jobs:

* two processes that archive one day both find no file, and the later rename replaces the earlier;
* `data/ingest/backfill.py:307` skips by comparing only the end of the range: a run
  with an earlier start, or for a second tier, archives nothing and reports success;
* a session archived while it was open is refused in full for ever after;
* lines removed from the end of the audit log leave a chain that verifies; a line that is in
  the file when closing it raises (`core/audit.py:151`) is not counted by its process, whose
  next append repeats its number, so that a log nobody touched no longer verifies
  (`VerifyTells` excludes it);
* two registrations may take one version number, and both commands exit with
  success; after a crash `latest()` may fail on a directory without a card;
* while flushes fail the depth buffer grows beyond `batch_size`; `recorded`
  counts the rows of earlier flushes again; a torn rewrite loses earlier rows;
* `on_connect` counts as activity, so a connection that flaps without a tick
  keeps the heartbeat silent; one unreadable timestamp cuts off its batch;
* a burst and the rate together exceed a limit that is meant per second;
* an access token in the environment shadows the one the morning login has just
  persisted; a second login voids the token of a running process; with two overlapping calls
  the shared client may send the older token (`data/brokers/kite.py:134-136`);
* daily bars are stamped at the start of their session, so the anchor of an
  announcement within it is a close after the announcement.

Research commands:

* the battery pools and loads again, so one report may speak of two artifacts;
  `data_version()` names interval, symbols and window, not the bars;
* noise is asked for nothing of a baseline that loses, so a PASS may stand beside a
  battery that found no edge in its own pool;
* the walk-forward figures are in-sample; the honest trial count of the battery is
  its own panel of configurations; a calibrated score is in-sample for its calibrator;
* carried labels end at the last bar of the data while their trade is open, so they
  change as data arrives (`PastIsFixed` speaks of trades that are over).

Scripts:

* `min_ffd` picks its order on the whole sample; events of two symbols at one time
  are not purged against each other; the trial count falls back to 5 when the tracker
  fails; after a real jump beyond the threshold the bad-tick filter removes every later bar;
* re-fetching corporate actions rewrites the file and drops windows that failed
  twice; held weights exceed the caps by up to 1/(1 - band); scores of past dates use
  the columns of the whole sample, and the sectors as the job at hand could load them, so
  books of past months move with both (`SettledBooks` compares jobs with the same
  columns, sectors and past actions); no action is applied across a halt, so a jump there
  stays (`AdjustedIsContinuous` says nothing of such days);
  the factor gate cannot pass as called, since three of its inputs are never given;
  a name delisted within the horizon earns nothing in the book and is skipped in the benchmark;
* k-fold probabilities of a fund are learnt from the future too, clear of the month's
  own holding period but not causal; the last horizon's month ends are all cash;
* the gate of a mechanism admits a text that was edited and committed while it looked
  (`CommittedIsJudged` assumes an author who keeps still); a pre-registration
  rewritten after one run passes for the next; the trial counter starts again in each
  process; a variant without pairs ends the script and its trials are lost.

## 6. What is not modelled, and the plan

Floating-point formulas (moments, the Deflated Sharpe Ratio, technical indicators,
hierarchical risk parity, estimators, the regime mixture) are out of
TLC's reach except for their discrete skeletons.  Configuration, logging,
calendars, downloads, parsers and reports are I/O or tables.  Left out of modelled components, as the
notes in `PROJECT.json` say: version history and expiry of the Arctic and Redis
stores, the sequential bootstrap, stack combiner and importances, index rebalances,
liquidity and spreads of funds, and the cleaning of downloaded panels.

Next: the induction that `CalibrationIsIsotonic` rests on; then Redis windows with
expiry and two writers, and a live chain from `TickStream` to `DepthRecorder`.
