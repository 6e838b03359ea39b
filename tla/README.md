# risingwave-tests: models, checks and proofs

The repository is a test rig for RisingWave's `MATCH_RECOGNIZE`: a Rust workload
generator (`web/bench-core`, `web/bench`), a web console that drives it
(`web/bench-web`), and SQL scenarios. This directory models it in TLA+,
checks the models with TLC and proves theorems about them with TLAPS.

```
tlc -workers 2 -config MCRunLoop.cfg MCRunLoop     # any of the runs below
tlapm RunLoopProofs.tla                            # any of the *Proofs modules
```

`PROJECT.json` lists the components, the runs, for every checked property a
faulty variant of the code that breaks it, the source lines of every
definition, the findings, the hazards and the theorems.

## 1. Inventory

Paths are below `web/`.

| component | state | operations | talks to | hard about it | what makes it right |
|---|---|---|---|---|---|
| Run loop, pacer, `RunHandle` (`bench-core/src/run.rs`, `pace.rs`) | the loop index, buffer, tick and tie group, rate in force, pacer epoch; shared with its handle: requested rate, cancellation token, `Progress` | `start`, the loop, `set_rate`, `stop`, `join`, `is_finished` | sink (one INSERT per batch), whoever holds the handle | a handle used at any moment, timed waits, failing INSERTs, a partial last batch | rows stored once and in order, honest progress, a stop and a rate that take effect within a batch, pacing that never runs ahead of the clock |
| Sink (`sink.rs`) | a connection or a file | `write`, `finish` | the database | lost answers, a limit of bound parameters | an INSERT is all or nothing and within the limit |
| Generator (`gen.rs`) | one chain per partition | `next_event`, `open_chains` | the run loop | interleaved chains, abandoned ones | a withdraw completes a match, chains run their bets |
| Seal (`pipeline.rs`) | a streak of equal counts, a number of polls | `settle`, `seal` | the engine, through a count | nothing says when the engine has caught up | the sentinel discards nothing, the counts are complete |
| Control API (`bench-web/src/api.rs`, `state.rs`) | the run slot and its lock, the header's status, the probe flag | `load/start`, `load/stop`, `load/rate`, `pipeline/rebuild`, `probe/start` | run loop, reaper, probe, database | handlers interleave at every await, clients go away | one load, always stoppable; a rebuild undisturbed; a truthful header |
| Reaper, aggregator, WebSockets (`ws.rs`, `event.rs`, `state.rs`) | latencies, rate windows, epoch, the last statistics, recent alerts; per client a sampler and a lag counter | ticks, events, snapshots | the broadcast channel, the run slot | lag, resets racing ticks, snapshots racing events | statistics of this run only, clients that converge |
| Browser store (`static/js/state.js`, `socket.js`) | feed, statistics history, epoch, status | one reducer per event, reconnect | a WebSocket | stale and missed events | what is shown belongs to the current run |
| Alert reader (`stream.rs`) | phase, failures, last report; a cursor | connect, prepare, fetch | the database, the channel | a rebuild drops what it reads | it always recovers, and says so once |
| Status poller (`status.rs`) | none of its own | a probe every five seconds | cluster, database, header | answers that are old when written | the header follows what is there |
| Cluster driver (`podman.rs`) | none of its own; a container and a volume | `up`, `down`, `clean`, `is_running` | podman | commands fail, some silently; sessions die with the server | the header follows what is there |
| Probe (`probe.rs`) | a flag; samples | rounds of two INSERTs and polls | database, events | timeouts, sentinels that disturb a load | one at a time, sentinels only without a load |
| Measurement helpers (`measure.rs`) | samples, a window | `push`, `percentiles`, `record`, `per_sec` | aggregator | indices and window edges | nearest rank; pruning never loses a sample that counts |
| Pinning, scenario runner, metrics, wiring, command line, scripts | little or none | | operating system, podman, HTTP | text and I/O | see section 7 |

## 2. Modules

| module | models | extends |
|---|---|---|
| `Feed` | what a load promises: rows stored, reports that never run ahead of them, one final outcome | |
| `Run` | a run as those who hold its handle see it: live, done, returned or failed; at its target; told to stop | |
| `RunLoop` | `run.rs`, `pace.rs` and the sink; implements `Feed` and `Run` | |
| `Custody` | what the console promises of the loads it starts: one slot, filled when empty, that a load which writes leaves only to be told to stop | |
| `LoadControl` | the handlers of `api.rs`, the reaper of `ws.rs`, the flag of `probe.rs`; implements `Custody` | |
| `Seal` | `pipeline.rs` and an external engine | |
| `Generator` | `gen.rs`, observed by the pattern (deposit bet+ withdraw) | |
| `Board` | what the console promises of the alerts it shows: it keeps recent ones, each once and in order; a page is shown what is kept and then newer ones on top | |
| `Measurement` | the broadcast channel, aggregator, sockets and snapshots (`ws.rs`, `state.rs`), epochs begun by handlers (`api.rs`), the poller's writes (`status.rs`), the browser's store (`state.js`); implements `Board` | |
| `Pipeline` | the objects in the database, `pipeline/rebuild` statement by statement with `setup_realtime.sql`, the cluster handlers and driver, the alert reader, the status poller | |
| `Probe` | `execute()` and `run_probe()` of `probe.rs` | |
| `Meters` | `RateWindow`, `Latencies` (`measure.rs`), `Sampler`, `LagBackoff` (`ws.rs`) | |
| `MC*` | values of the constants for TLC | the module of that name |
| `*Proofs` | theorems of one module | that module, `TLAPS` |

**How they fit together.** The generator produces the stream that the run loop
writes; the run loop needs nothing of it but the order, so a row there is its
position. A run in `LoadControl` is reduced to a phase (live, done, returned,
failed), whether it reached its target and whether it was told to stop. `Run` is
that interface, and it is shown from both sides: the run loop implements it
(`RunSpec`, `ImplementsRun`), and every run of `LoadControl` is one
(`RunsSpec`, `RunsAreRuns`). That a stopped run ends (`StopEnds`) justifies the
fairness `LoadControl` asks of a cancelled run.

**RunLoop.** One action for each stretch of the task that other parties can tell
apart: the head of an iteration (`NextRow`, `LeaveLoop`, `Panic`), the wait
(`Interrupt`, or being due in `Emit`), the row (`Emit`), the INSERT (`Write`,
`Flush`, `WriteError`), the end (`Finish`, `Return`). `SetRate`, `Stop` and the
clock's `Tick` may come between any two. `sent` is the loop index as well as the
counter, which the loop advances together. A rate is its inverse, whole ticks
per row; 0 stands for every rate that is not positive. `WriteError` may have
stored its rows: the answer of an INSERT can be lost. The history variables
`stopMark`, `rateMark`, `held` and `heldFrom` exist for the bounds.

**LoadControl.** Each client has one request open; `pc` says before which await
its handler is, `hold` which handle it took out of the slot. A step is what the
code does between two awaits, cut in two where another thread can see the
difference: releasing the run lock and setting the status (`Started` /
`StartAnswers`), taking the handle and cancelling it (`StopTakes` /
`StopCancels`), claiming the probe flag and reading the slot. The server is
axum, which drops a handler when its client closes the connection; `Disconnect`
does that at any await, releasing what the handler owned. A dropped `RunHandle`
does not stop its task, so a load can outlive every reference to it; that is
what `NoOrphanLoad` is about. `AsCustody` is the refinement mapping: the loads
started and live are read off the phases, the one kept is the slot's, those taken
are the ones in the hands of a `load/stop` that has not cancelled them yet, and
those told to stop are the cancelled ones. What the status poller reads is unconstrained
(`Poll`). Events, statistics and `load/rate`, which changes nothing here but the
run's own rate (`RunLoop!SetRate`), are left out.

**Seal.** The engine is external and is what the comments of `pipeline.rs` report
of it: it gets to the rows of a feed in its own time, some matches show at once,
others when the watermark passes them, and a sentinel makes it discard what it
has not got to. `MaxStall` bounds the reads over which the count stands still
while the engine has work.

**Measurement.** One action per event taken off the channel and per write that
another thread can see: a handler sets the status, clears the statistics, takes
the time and publishes its `StatsReset` in four steps; the aggregator's tick
sets `last_stats` and publishes in two; the poller writes, reads back and
publishes in three. The channel is tokio's: bounded per receiver, never waiting
for one, the oldest event is lost and the next `recv` says `Lagged`. A socket is
sent a snapshot first and subscribes afterwards, and after `Lagged` it is sent
another one before the events it still had. An alert is its number and the time
its row was ingested; percentiles are the set of samples they are made of. What
a browser shows is its feed and its status. The histories `sent`, `missed` and
`resynced` exist for the properties. `AsBoard` maps the ring buffer to what `Board`
keeps, a feed to its page, and the clients that lagged to the pages that fell behind.

**Pipeline.** The database is external: a set of objects, a relation of needing
one another, and sessions that die with the server. `Script` is what a rebuild
sends, the handler's own drop and the statements of `setup_realtime.sql`, each
committed on its own. `RebuildStarts` is the connection (whatever is done to the
load before it is `LoadControl`'s); several rebuilds can be in flight, for the run
lock is not held. The reader is its phase, whether its cursor lives, and what it
last reported; the poller's round is cut at each of its queries. A cluster
handler is its command and, later, its `set_status`. `Loops` chooses which of
the two loops runs in a behaviour; see the bounds. No lock keeps the cluster handlers
apart, so `ops` counts, per command, those that have sent it and not yet written
the header. A `podman rm` or `volume rm` that fails is ignored by the driver, and by
`ClusterDown` and `ClusterClean`. The poller's question to podman has three outcomes
(`PollsCluster`): it is answered; podman cannot be run, which reads as unknown; or
podman exits with an error, which reads as a container that does not run.

**Probe.** Statements take no time and a poll takes a tick; `elapsed` and
`quiet` are kept only as far as the time-out tells them apart. The watermark is
external: a chain shows once a row arrives that is `Lateness` newer than its last
one, with the engine's own delay counted in `Lateness`. `left` are the chains
earlier rounds left in the table, whose match may show later; `mine` tells those of
the run in progress from those of earlier runs. The load and a rebuild come between any
two steps.

**Meters.** Three state machines that share a clock; a behaviour exercises one.
`log` and `written` record every sample and the time of every row, to compare
the pruned window with. The window is pruned as the deque is, from its front up to the
first sample that stays (`From`), and summed sample by sample (`Totals`). The
sorted vector is given by what is at each place of it (`InOrder`), not by a way of
sorting. Tokens are counted in parts, `Unit` to a token, so that
filling is exact.

**Generator.** A draw is any of its outcomes, a probability is 0, 1 or between.
The removal of an abandoned chain and the deposit that follows it happen in one
call, so they are one action (`Deposit`). `event` is the Event returned; what the
engine's pattern makes of the stream of events (`Extend`, `Retain`, `CountBets`) is an
observer that knows nothing of the chains: `prefix` is what the partition's rows since its
last deposit make, and `retained` are the partitions in which a prefix from before that
deposit is still buffered. Nothing expires: the stream is taken to be within one WITHIN
bound.

## 3. Runs

| run | instance | distinct states | what it shows |
|---|---|---|---|
| `run_loop` | eight configurations, five of them run (below); rates of 0, 1 and 2 ticks; `MaxBindParams` 10; clock up to 10 | 29,154 | rows once and in order, honest progress, stop and rate bounds, pacing, tie groups, a stop that ends the run, refinement of `Feed` and of `Run` |
| `load_control` | 2 clients that may go away at any await, 2 runs | 481,968 | no load out of reach, finished means target, every load is being stopped when a rebuild turns to the database, nobody waits in vain, one probe, refinement of `Custody` |
| `load_control_live` | 2 clients that may go away, 1 run | 23,680 | every request is answered, a dead run leaves the slot |
| `seal` | feed of 4, 2 stable reads, at most 6 reads, stalls of 2 | 1,661 | nothing discarded, complete counts |
| `generator` | up to 3 partitions, chains of 0 to 2 bets, seven configurations | 95,442 | withdraws match, chains run their bets |
| `measurement` | 1 browser, 1 handler, a channel of 2, a feed of 2, 2 alerts, 2 instants | 1,242,423 | percentiles of one epoch, feeds newest first, refinement of `Board`, for whatever is lost and late |
| `status` | the same with 2 statuses of the world, 1 alert, 1 instant | 310,452 | every open page comes to show the status |
| `pipeline` | 2 rebuilds, 2 rebuilds/cluster operations/crashes in all, a report repeated every 2 failures, one of the loops at a time | 175,876 | rebuilds from any leftovers, a true strip, a true "present", a reader that recovers, a header that follows |
| `probe` | 2 ids a second, 2 seconds until they come again, 2 ticks a second, lateness 1, time-out 3, a sentinel every 2 polls, up to 2 rounds | 534,304 | rounds timed by their own match, time-outs only when starved, a probe that ends |
| `meters` | a window of 1 tick, 3 ticks a second, 2 alerts a second, time up to 6, 8 events | 1,860,392 | an honest rate, percentiles in order, a bounded feed |
| `one_load` | 2 clients that stay, 2 runs | | violated: section 4 |
| `stats_of_run` | as `measurement` | | violated: section 4 |

**Bounds.** *run_loop*: the configurations have a partial last batch, tie groups
that straddle batches (3 in batches of 2), realtime with one row every tick and
every two, payload columns, no rows at all, a batch larger than half the run,
the batch of 0 that `validate()` accepts (the task panics), and ones it refuses
(ties in realtime, a rate that is not positive). Two batches are enough for
every carry-over from one batch to the next; the clock stops at `Horizon`, by
when every row is due at every rate offered, an assumption TLC evaluates.
*load_control*: two clients are the least that interfere; two runs let one be
started while another is live, done or being joined. Requests are not counted:
a client sends as many as it likes. *load_control_live* has one run so that
liveness is cheap; the reaper, the lock and the rebuilds all take part.
*seal*: `MaxStall = StablePolls` is the sharpest the assumption allows; six
reads let a settle give up. *generator*: a hot partition, none, and a negative
`hot_count`; `bets_min` of 0 is among the configurations, and the matching
property excludes it since a chain of no bets is no match.

*measurement*: an event that is lost needs a channel of two to be the reset or
an alert; a feed of two shows order and trimming; two instants tell an old alert
from a new one. One handler is enough for an old epoch and a new one; the
theorems cover any number. *status* keeps the poller and the statuses and drops
the alerts. *pipeline*: the reader writes `sub_alerts` and the strip, the poller
the status, and neither reads what the other writes, so a behaviour with one of
them loses nothing a property tells apart. Both together (2,661,217 states) and
three rebuilds and three events with one loop (10,905,046) were checked once, the
safety and action properties only, and take too long to keep. *probe*: a block of two ids and up to two rounds use all
of it, two seconds until ids come again let a run meet its own leftovers; three
rounds with one tick a second (4,857,504 states), where a run outgrows its
block, were checked once in the same way. `TimeoutAssumption` says the lateness and one
sentinel's period fit in the time-out: 5 s and 0.2 s in 60 s. A rebuild may ask
for up to 600 s, and then every round times out. *meters*: a window of one tick
is pruned at two, and six ticks are two seconds of filling and emptying.

`seal` switches the deadlock check off: `seal()` ends, and the engine with it.
So does `meters`, whose clock and events are bounded.

**Fairness.** `RunLoop` asks weak fairness of the task: the runtime polls it and
the database answers, with success or error. Nothing is asked of the clock or of
the handle's owner. In `LoadControl` every handler step that is enabled is
eventually taken (weak); the steps that need the run lock get strong fairness,
because tokio's mutex hands the lock to waiters first come first served; a
cancelled run ends (`StopEnds` of `RunLoop`) and a done one returns; the
aggregator's tick comes again and again. Nobody is assumed to send or to drop a
request. `Measurement` asks that the poller goes on
and that a connected socket goes on handling its events (weak); nothing of
alerts, handlers or the aggregator. `Pipeline` asks that a container that starts
comes up, that a handler that has sent its command writes the header, that a rebuild in
flight sends its next statement, and that the loops of the reader and of the
poller go on; nobody need rebuild, stop or crash anything. `Probe` asks that
statements are answered and that time passes, and nothing of the load: it may
stop and never write a row. A database that hangs for ever would break the premise that a
connection attempt or an INSERT is answered: then the lock is kept, and every
other handler and the aggregator wait with it.

**Faulty variants.** Beside an action stand variants marked "Fault", which only
the list `mutants` uses: the property must fail when the variant replaces the
action. They are not part of any specification.

## 4. What the code does not keep

Two runs check a sentence of the repository that the code breaks; each gives a
short trace.

* `OneLoadAtATime`. `load_stop` takes the handle, releases the lock, and only then
  stops and joins the run (`api.rs:229-234`). A `load_start` in that window finds
  an empty slot: two runs write. The comment in `load_start` (`api.rs:197-198`)
  says a run still writing its last rows counts as running. The first run is
  at least always stoppable (`NoOrphanLoad` holds).
* `StatsOfRun`. A handler clears `last_stats` and then publishes `StatsReset`; a
  tick of the aggregator before it receives that puts the old run's percentiles
  back (`ws.rs:223`), and a snapshot hands them to new clients, which
  `state.rs:147-148` says must not happen. `SamplesOfEpoch` holds: the
  percentiles made after the reset are of the new run.

The models reach more states that contradict a comment or a doc. No run is kept for
these; beside each stands the property or theorem that says what does hold.

* A rebuild frees the run lock (`api.rs:310`) before it
  connects, drops the subscription and runs the setup SQL; `api.rs:271` says it stops
  the load "so nothing is writing to `t_rt` mid-rebuild". A load started, or taken by a
  `load/stop` and still draining, does write then. `RebuildBeginsQuiet` holds: when the
  rebuild lets go of the lock, every load that still writes was told to stop or is in the
  hands of a `load/stop` about to tell it, so nobody started one while it waited.
* `open_chains()` is the number of chains the generator tracks
  (`gen.rs:131-133`); `gen.rs:130` says it counts chains "holding a buffered `d b+`
  prefix". An abandoned chain is forgotten when its partition starts afresh, though its
  prefix stays buffered (`gen.rs:4-6`, `gen.rs:166`), so after the next chain there is over
  it is counted no more. The count is off the other way, too: a chain that is a deposit so
  far has no bet and no such prefix, and is counted. What holds is
  `MissesOnlyAbandoned`: with `abandon_prob` at 0 no prefix is left out.
* The channel may drop a `StatsReset` before the aggregator receives it,
  and `Lagged` is ignored there (`ws.rs:196-198`): old samples and old epoch stay for the
  whole run, against the repository's `README.md:215-216` ("Percentiles describe the current run").
  `SamplesOfEpoch` excepts this case (`missed`) and no other.
* After `Lagged` a client is sent a snapshot and then the older events
  the channel still held for it, although `ws.rs:101` says what it sees next is current:
  its feed shows alerts twice and out of order until the next snapshot. Hence `resynced`
  in `FeedInOrder` and `behind` in `Board`.
* `podman inspect` may exit with an error for any reason of its own, and
  `podman.rs:173-177` takes each for a missing container: the header then says down and
  absent of a cluster that serves. `status.rs:76-78` calls podman not answering the one
  case that is not a real, checked answer. `HeaderFollows` therefore asks that podman
  answers from some time on (`PodmanTells`), and then holds: a wrong answer is corrected.
* The alert reader may create the subscription again between the
  drop of it and the drop of its table, and the script then fails half way, as does a
  rebuild; `setup_realtime.sql:49-50` says it is "safe to run whether or not the console
  is up". `RebuildFailsOnlyDisturbed` says that this and a second rebuild are the only
  ways, and that repeating it works.
* `Status::load` is written outside the lock (`api.rs:215`, `232-235`): with all
  requests answered the header can say "stopped" over a running load until that
  ends; `status.rs:71-72` says the handlers keep it correct. For the rest of the
  header see `HeaderFollows`.
* A probe decides once whether to emit sentinels (`api.rs:401-405`): a load started
  later runs beside them (`probe.rs:22`), and if the load it counted on stops, its
  round times out, which `TimedOutMeansStarved` has as the only cause beside a rebuild.
* `probe_start` sets the flag and then awaits the run lock (`api.rs:395-402`); a client
  that goes away there leaves it set for good (`probe.rs:36-37`). This rests on
  axum dropping the handler.
* Two rebuilds that overlap can both succeed as far as they get while the table
  declares the other one's lateness; with `--setup-sql` the lateness asked for is
  not used at all, and the log says it was (`api.rs:354-361`). The header shows
  what the table declares.
* A snapshot without statistics leaves the old chart (`state.js:111`, against
  `state.js:101`), and it carries neither the epoch nor, in `_applySnapshot`, the
  lateness.
* The comment at `ws.rs:241` speaks of a carry-forward when no load runs; the code
  returns 0. A run replaced between two ticks loses rows from the rate; none are
  ever made up (`RateHonest`).
* Two probes begun in the same second, or more than ten rounds, share ids; and a load
  of more than a million partitions would meet the probe's (`probe.rs:71-80`).
* `validate()` accepts a batch of 0 (`run.rs:173` then panics in the task; modelled,
  `Panic`), a rate too small for the period's `Duration` (`pace.rs:35`, not modelled) and a
  negative `hot_count` (`gen.rs:90`), with which partitions fall below 1.

## 5. What is proved

For every value of the constants under the named assumptions of each module
(types of the constants; `HorizonAssumption`; `HeuristicAssumption` in `Seal`; `TimeoutAssumption` in `Probe`;
the clients finite where they are counted).

* **`RunLoopProofs`.** `TypeCorrect`; then a chain of invariants, each used by the
  next. `SizeInv` (the buffer holds at most a batch, less than one except before
  its INSERT) gives `StatementLimit`: the check made once in `validate()` is
  enough because `Valid(cfg)` and the buffer's size are invariant and products
  are monotone. `RowsInv` (table and buffer together are an initial piece of the
  stream, ids 1 to `sent`) gives `NoRowLost`. `ProgressInv` relates the report to
  the table and adds that a run that left the loop early was cancelled; with
  `RowsInv` it gives `ProgressIsHonest`, and both give the step simulations of
  `ImplementsFeed` and `ImplementsRun`. `BoundaryInv` (`sent` modulo the batch is the buffer's
  length while the loop runs), with the arithmetic of `ModUnique` and `ModStep`,
  and `RequestInv` (rows since the request are bounded by what is buffered
  until the next boundary) give `StopWithinABatch` and `RateWithinABatch`.
  `PaceInv` gives `PacedByClock`. `StampInv` ties the tick and the rows already in
  its group to `sent`; with lemmas that a division goes up by one exactly when its
  remainder is used up it gives `TicksAreShared`, for a group size that need not
  divide the batch nor be divided by it.
* **`LoadControlProofs`.** `TypeInvariant` carries `CancelsARun`. `HandleInv` is the
  ownership of a handle: a handler that still holds the lock past an await has
  emptied the slot; the run in the slot is started and not cancelled, the one
  being reaped is not cancelled either; a handler about to cancel shares its run
  with neither the slot nor the reaper; and a live, uncancelled run is always
  within somebody's reach. It is
  inductive with disconnects at any await, and gives `NoLoadOutOfReach`,
  `FinishedIsTrue` and, since a handler keeps the lock until the run it found has
  ended, `RebuildBegins`. `ProbeInv` (a probe or a claim implies the
  flag, and there is at most one) gives `OneProbeAtATime`. `WaitInv` adds to
  `WaitsEnd` that a start that joins has a run to join, and that a handler about to
  cancel a run is the only one and the first (`TakenOnce`); it gives
  `NobodyWaitsInVain`. `ImplementsCustody` is the step simulation: by `HandleInv`
  the slot is empty when a handler fills it and what the reaper takes has ended,
  and by `TakenOnce` a load that was told to stop is in no other handler's hands.
  `RunsAreRuns`: what is cancelled was started.
* **`SealProofs`.** `SealInv`: a streak of equal reads is bounded by `stalled` while
  the engine has work, so a settled count means an idle engine
  (`SettledIsIdle`), hence `NoMatchLost` and `OutcomeIsComplete` for feeds of any
  size. `StreakFromStart` (without a move the streak is as long as the polls)
  gives `StillMovingIsTrue`. The assumption on stalls is the heuristic the code
  comments call a heuristic; the proof says what it buys.
* **`GeneratorProofs`.** `GenInv` ties the bets still to make to the bets made and
  the prefix the pattern has buffered; from it `InRange`,
  `EveryWithdrawMatches`, `EveryChainRunsItsBets` and, since no chain of such a
  configuration is abandoned and none leaves a prefix, `MissesOnlyAbandoned`.

* **`MeasurementProofs`.** `TypeCorrect` carries that a reset's time is an instant and
  that queues are within the capacity. `EpochInv`: no sample is older than the
  aggregator's epoch, and unless it lost it, the last reset in its queue, or
  else its epoch, is the last one sent (`EpochPending`); appending to a full queue
  drops its head, which `missed` records when that was the last reset. That gives
  `PercentilesOfOneEpoch` for any number of handlers and any capacity. `OrderInv`
  orders by number the recent alerts, what the aggregator and each client has
  still to receive, and each feed below what its socket has left, as long as
  the client has not lagged; it needs that the snapshot is taken before the
  subscription. That gives `FeedNewestFirst`. `ImplementsBoard` is the step simulation
  by the same invariant: what the aggregator takes off its queue is newer than all
  it keeps, what a socket takes newer than all its page shows, and both are out.
* **`PipelineProofs`.** `TypeOK` is inductive and carries that what exists has what it
  needs; from that alone `PresentIsTrue`, since the sink that the last query finds
  needs the view and the table the first two asked for. `StripInv` adds that a
  ready reader has forgotten its last report; it gives `StripTells`. `Alone`:
  a rebuild that no other has joined and that has come to a statement has left
  of the pipeline only what its script has still to drop, or just made; it
  gives `FailsOnlyDisturbed`, from any leftovers and for any number of rebuilds.
* **`ProbeProofs`.** Blocks of different seconds are disjoint (`BlocksDisjoint`, integer
  arithmetic), and the chains a run has left are of lower ids than the one it waits for
  (`MineLower`), hence `TimedByItsOwn`. `Waiting` bounds the age of an unseen chain:
  with sentinels, by the lateness and one period of sentinels; without, by the
  lateness and the time since the last row; with `TimeoutAssumption` it gives
  `TimeoutsAreStarved`.
* **`MetersProofs`.** `Balanced`: for each alert forwarded, what was forwarded from it
  on and what is in the bucket is at most a full bucket and what the target filled in since.
  It is the strengthening of `SamplerBound`, which looks at alerts only, by the
  tokens of the moment; `ForwardsWithinTarget` follows for every target.
  `RateInv` gives `RateIsHonest`: no sample is stamped later than now (`Stamped`); a
  window that ends now or later sums the same over what was pruned and over the
  whole log (`NoneLost`); and for every tick so far, and the time before all of
  them, what later ticks have counted and the next one would count is no more
  than the rows written since (`Covered`), which a run that is replaced between
  two ticks can only make smaller.
  `Typed` gives `TypeCorrect`: every place of a sorted vector has its value
  (`OrderStatistic`), the values rise with the places (`InOrderIs`), and so do the
  indices of the percentiles (`Indexes`); the window is in order of time (`InTime`),
  so that popping its front leaves nothing old behind.

Induction over the natural numbers is out of the prover's reach as a schema, but
not for a set: `NatInductionOnSets` of `MetersProofs` takes the least element that is
missing, from the well-foundedness of < and a set as its parameter. The sums of a
recursive function (`Totals`) and the least and greatest elements that `CHOOSE`
names are reasoned about by it.

**Model-checked only.** Liveness (`StopEnds`, `RequestsAnswered`, `DeadLoadLeaves`,
`StatusConverges`, `ReaderRecovers`, `HeaderFollows`, `ProbeFinishes`), which needs
fairness and ENABLED, out of the prover's reach; and the counterexamples of
section 4. Every invariant that a run checks is a theorem too.

**Proved only.** `StatementLimit`, `StillMovingIsTrue`, `InRange` and `MissesOnlyAbandoned`, and the type
invariants of `RunLoop`, `LoadControl`, `Seal` and `Generator`, which are little but
types, and `RunsSpec`, are theorems that no run repeats.

## 6. Plan

What is left, in this order.

1. The composition of `LoadControl` with `Pipeline`: one rebuild step by step with the
   load it stops, instead of each half in its module.
2. `Pinning` and the scenario runner, for their few rules that are not text.

## 7. Not modelled, and why

*Scenario and SQL runner*: splitting, classifying and printing SQL is text; each
request opens a connection, sends its blocks in order and stops at an error.
*CPU pinning*: one plan made of the host's core lists at start; the rest is
system calls. *Engine metrics*: one HTTP read and a text parser, passed on
unread. *Server wiring, command line, scripts*: routing, argument parsing and
embedded files, without state. *Browser rendering and controls*: drawing. A
slider that is dragged sends its rate requests without waiting for one another;
in which order they arrive is HTTP's. *Within modelled parts*: statement text,
amounts and payloads, the chart's history and the log strip beyond the reader's
lines, rejected (non-finite) samples, the rate of alerts (the same
`RateWindow`), the arguments of podman. Floating-point ranges (a rate so small
that its period overflows a duration) and the width of the `ts` column, which a
feed of 2^31 rows would reach, are outside the models, as is the engine beyond
what section 2 says.
