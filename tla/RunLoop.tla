-------------------------------- MODULE RunLoop ---------------------------------
(***************************************************************************)
(* The load generator's run loop (web/bench-core/src/run.rs) with its      *)
(* pacer (pace.rs) and its sink (sink.rs): one task that generates rows,   *)
(* batches them, writes them and reports progress, and the RunHandle       *)
(* through which a caller changes the rate or stops it at any moment.      *)
(*                                                                         *)
(* A row is its position in the generator's stream and, in bulk mode, its  *)
(* event-time tick.  A rate is the number of clock ticks between two rows  *)
(* (its inverse), and 0 stands for a rate that is not positive.  The       *)
(* variable `sent' is also the index i of the for loop: the loop advances  *)
(* both for every row.                                                     *)
(***************************************************************************)
EXTENDS Integers, Sequences

CONSTANTS
  Configs,        \* RunConfigs offered to start(), valid or not
  Periods,        \* rates offered to RunHandle::set_rate
  MaxBindParams,  \* MAX_BIND_PARAMS
  Horizon         \* the clock saturates here: every row is due by then

Config == [rows: Nat, batch: Nat, cols: Nat, ties: Nat, realtime: BOOLEAN, period: Nat]

ASSUME ConfigsAssumption == Configs \subseteq Config
ASSUME PeriodsAssumption == Periods \subseteq Nat
ASSUME LimitAssumption == MaxBindParams \in Nat
ASSUME HorizonAssumption ==
  /\ Horizon \in Nat
  /\ \A c \in Configs : \A p \in Periods \cup {c.period} : c.rows * p <= Horizon

VARIABLES
  cfg,       \* the RunConfig of this run
  pc,        \* where the task is
  sent,      \* rows generated so far, and the loop index
  buf,       \* rows generated and not yet written
  tick,      \* bulk mode: next event-time tick
  inGroup,   \* bulk mode: rows already stamped with this tick
  period,    \* current_rate: the rate the pacer runs at
  epochRow,  \* Pacer::epoch_row
  elapsed,   \* clock time since Pacer::epoch
  table,     \* rows in the target table, in insertion order
  progress,  \* what the watch channel holds
  rate,      \* RunHandle::rate, the requested rate
  cancelled, \* the CancellationToken
  stopMark,  \* history: value of `sent' when stop() was called
  rateMark,  \* history: value of `sent' when `rate' last changed
  held,      \* history: how long the rate in force has been in force
  heldFrom   \* history: value of `sent' when it came into force

clockVars == <<elapsed, held>>
pacerVars == <<period, epochRow, heldFrom, clockVars>>
stampVars == <<tick, inGroup>>
handleVars == <<rate, cancelled, stopMark, rateMark>>
loopVars == <<cfg, pc, sent, buf, stampVars, period, epochRow, heldFrom, table, progress>>
vars == <<loopVars, clockVars, handleVars>>

-----------------------------------------------------------------------------
(* RunConfig::validate.  A batch of 0 passes it.                           *)
Valid(c) ==
  /\ c.period > 0
  /\ c.batch * (4 + c.cols) <= MaxBindParams
  /\ c.ties >= 1
  /\ ~(c.realtime /\ c.ties > 1)

Progress(n, done) == [rowsSent |-> n, period |-> period, done |-> done]

Init ==
  /\ cfg \in {c \in Configs : Valid(c)}
  /\ pc = "row"
  /\ sent = 0
  /\ buf = <<>>
  /\ tick = 10
  /\ inGroup = 0
  /\ period = cfg.period
  /\ epochRow = 0
  /\ elapsed = 0
  /\ table = <<>>
  /\ progress = [rowsSent |-> 0, period |-> cfg.period, done |-> FALSE]
  /\ rate = cfg.period
  /\ cancelled = FALSE
  /\ stopMark = 0
  /\ rateMark = 0
  /\ held = 0
  /\ heldFrom = 0

-----------------------------------------------------------------------------
(* The task.                                                               *)

AtBoundary == sent % cfg.batch = 0

(* Pacer::due(i) is in the past.                                           *)
Due == (sent - epochRow) * period <= elapsed

(* Fault: the new rate is taken without moving the epoch.                  *)
RebaseKeepsEpoch ==
  /\ period' = rate
  /\ epochRow' = sent
  /\ UNCHANGED elapsed

(* Pacer::set_rate: the row about to be generated is the new origin.       *)
Rebase ==
  /\ period' = rate
  /\ epochRow' = sent
  /\ elapsed' = 0

(* The row about to be generated is the first at a new rate.               *)
NewRate ==
  /\ Rebase
  /\ held' = 0
  /\ heldFrom' = sent

(* Fault: the last, partial batch is dropped.                              *)
AfterLoopNoFlush == "finish"

(* After the loop only a non-empty buffer is written.                      *)
AfterLoop == IF buf = <<>> THEN "finish" ELSE "flush"

(* Fault: the token is not looked at between batches.                      *)
NextRowIgnoresToken ==
  /\ pc = "row"
  /\ sent < cfg.rows
  /\ cfg.batch > 0
  /\ IF AtBoundary /\ rate # period
     THEN NewRate
     ELSE UNCHANGED pacerVars
  /\ pc' = "due"
  /\ UNCHANGED <<cfg, sent, buf, stampVars, table, progress, handleVars>>

(* Fault: the requested rate is compared with the configured one, not with *)
(* the one in force.                                                       *)
NextRowMissesRate ==
  /\ pc = "row"
  /\ sent < cfg.rows
  /\ cfg.batch > 0
  /\ ~(AtBoundary /\ cancelled)
  /\ IF AtBoundary /\ rate # cfg.period
     THEN NewRate
     ELSE UNCHANGED pacerVars
  /\ pc' = "due"
  /\ UNCHANGED <<cfg, sent, buf, stampVars, table, progress, handleVars>>

(* The head of an iteration: at a batch boundary the task looks at the     *)
(* token and picks up a changed rate.                                      *)
NextRow ==
  /\ pc = "row"
  /\ sent < cfg.rows
  /\ cfg.batch > 0
  /\ ~(AtBoundary /\ cancelled)
  /\ IF AtBoundary /\ rate # period
     THEN NewRate
     ELSE UNCHANGED pacerVars
  /\ pc' = "due"
  /\ UNCHANGED <<cfg, sent, buf, stampVars, table, progress, handleVars>>

(* `i % batch' with a batch of 0 panics and ends the task.                 *)
Panic ==
  /\ pc = "row"
  /\ sent < cfg.rows
  /\ cfg.batch = 0
  /\ pc' = "panic"
  /\ UNCHANGED <<cfg, sent, buf, stampVars, pacerVars, table, progress, handleVars>>

LeaveLoop ==
  /\ pc = "row"
  /\ \/ sent >= cfg.rows
     \/ cfg.batch > 0 /\ AtBoundary /\ cancelled
  /\ pc' = AfterLoop
  /\ UNCHANGED <<cfg, sent, buf, stampVars, pacerVars, table, progress, handleVars>>

(* Fault: the token is looked at between batches only.                     *)
InterruptAtBoundary ==
  /\ pc = "due"
  /\ cfg.realtime
  /\ cancelled
  /\ AtBoundary
  /\ pc' = AfterLoop
  /\ UNCHANGED <<cfg, sent, buf, stampVars, pacerVars, table, progress, handleVars>>

(* Cancellation wins the select! of wait_until.                            *)
Interrupt ==
  /\ pc = "due"
  /\ cfg.realtime
  /\ cancelled
  /\ pc' = AfterLoop
  /\ UNCHANGED <<cfg, sent, buf, stampVars, pacerVars, table, progress, handleVars>>

Stamp == IF cfg.realtime THEN 0 ELSE tick

(* Fault: a group takes one row too many.                                  *)
AdvanceTickLate ==
  LET full == inGroup + 1 > cfg.ties IN
  IF cfg.realtime
  THEN UNCHANGED stampVars
  ELSE /\ inGroup' = IF full THEN 0 ELSE inGroup + 1
       /\ tick' = IF full THEN tick + 1 ELSE tick

(* The bulk clock: `ties' consecutive rows share a tick.                   *)
AdvanceTick ==
  LET full == inGroup + 1 >= cfg.ties IN
  IF cfg.realtime
  THEN UNCHANGED stampVars
  ELSE /\ inGroup' = IF full THEN 0 ELSE inGroup + 1
       /\ tick' = IF full THEN tick + 1 ELSE tick

(* A row is generated: in realtime mode only when it is due.               *)
Emit ==
  /\ pc = "due"
  /\ cfg.realtime => Due
  /\ sent' = sent + 1
  /\ buf' = Append(buf, [id |-> sent + 1, ts |-> Stamp])
  /\ AdvanceTick
  /\ pc' = IF Len(buf) + 1 >= cfg.batch THEN "write" ELSE "row"
  /\ UNCHANGED <<cfg, pacerVars, table, progress, handleVars>>

(* Fault: the buffer is not cleared.                                       *)
WriteKeepsBuffer ==
  /\ pc = "write"
  /\ table' = table \o buf
  /\ progress' = Progress(sent, FALSE)
  /\ pc' = "row"
  /\ UNCHANGED <<cfg, sent, buf, stampVars, pacerVars, handleVars>>

(* The INSERT of a full batch succeeds.                                    *)
Write ==
  /\ pc = "write"
  /\ table' = table \o buf
  /\ buf' = <<>>
  /\ progress' = Progress(sent, FALSE)
  /\ pc' = "row"
  /\ UNCHANGED <<cfg, sent, stampVars, pacerVars, handleVars>>

(* The INSERT of the last, partial batch succeeds; nothing is reported and *)
(* the buffer, not used again, is left as it is.                           *)
Flush ==
  /\ pc = "flush"
  /\ table' = table \o buf
  /\ pc' = "finish"
  /\ UNCHANGED <<cfg, sent, buf, stampVars, pacerVars, progress, handleVars>>

(* Fault: a batch is reported before its INSERT is known to have succeeded. *)
WriteErrorReports ==
  /\ pc \in {"write", "flush"}
  /\ table' \in {table, table \o buf}
  /\ progress' = IF pc = "write" THEN Progress(sent, FALSE) ELSE progress
  /\ pc' = "err"
  /\ UNCHANGED <<cfg, sent, buf, stampVars, pacerVars, handleVars>>

(* Fault: the error ends the loop, and the run as if it had been stopped.  *)
WriteErrorBreaks ==
  /\ pc \in {"write", "flush"}
  /\ table' \in {table, table \o buf}
  /\ pc' = "finish"
  /\ UNCHANGED <<cfg, sent, buf, stampVars, pacerVars, progress, handleVars>>

(* An INSERT reports an error: the task returns it, and the rows may have  *)
(* been stored all the same (the answer was lost).                         *)
WriteError ==
  /\ pc \in {"write", "flush"}
  /\ table' \in {table, table \o buf}
  /\ pc' = "err"
  /\ UNCHANGED <<cfg, sent, buf, stampVars, pacerVars, progress, handleVars>>

(* The last Progress says done.  sink.finish, which has nothing to do for a *)
(* connection, does not fail.                                              *)
Finish ==
  /\ pc = "finish"
  /\ progress' = Progress(sent, TRUE)
  /\ pc' = "done"
  /\ UNCHANGED <<cfg, sent, buf, stampVars, pacerVars, table, handleVars>>

(* The task returns: only now is_finished() is true.                       *)
Return ==
  /\ pc = "done"
  /\ pc' = "ok"
  /\ UNCHANGED <<cfg, sent, buf, stampVars, pacerVars, table, progress, handleVars>>

Ended == pc \in {"ok", "err", "panic"}

-----------------------------------------------------------------------------
(* The handle, and the clock.  The handle can be used after the task ended. *)

SetRate(p) ==
  /\ p > 0
  /\ rate' = p
  /\ rateMark' = IF p = rate THEN rateMark ELSE sent
  /\ UNCHANGED <<loopVars, clockVars, cancelled, stopMark>>

Stop ==
  /\ ~cancelled
  /\ cancelled' = TRUE
  /\ stopMark' = sent
  /\ UNCHANGED <<loopVars, clockVars, rate, rateMark>>

Saturate(t) == IF t > Horizon THEN Horizon ELSE t

(* Only realtime mode reads the clock.                                     *)
Tick ==
  /\ cfg.realtime
  /\ elapsed' = Saturate(elapsed + 1)
  /\ held' = Saturate(held + 1)
  /\ UNCHANGED <<loopVars, handleVars>>

-----------------------------------------------------------------------------
Task ==
  \/ NextRow \/ Panic \/ LeaveLoop \/ Interrupt \/ Emit
  \/ Write \/ Flush \/ WriteError \/ Finish \/ Return

Next ==
  \/ Task
  \/ \E p \in Periods : SetRate(p)
  \/ Stop
  \/ Tick

(* The runtime keeps polling the task and the database answers every       *)
(* statement.  Nobody has to call the handle, and no fairness is asked of  *)
(* the clock.                                                              *)
Spec == Init /\ [][Next]_vars /\ WF_vars(Task)

-----------------------------------------------------------------------------
(* Properties.                                                             *)

Row == [id: Nat, ts: Nat]

(* Type invariant.                                                         *)
TypeOK ==
  /\ cfg \in Configs
  /\ pc \in {"row", "due", "write", "flush", "finish", "done", "ok", "err", "panic"}
  /\ sent \in Nat
  /\ buf \in Seq(Row)
  /\ tick \in Nat
  /\ inGroup \in Nat
  /\ period \in Nat \ {0}
  /\ epochRow \in Nat
  /\ elapsed \in Nat
  /\ table \in Seq(Row)
  /\ progress \in [rowsSent: Nat, period: Nat, done: BOOLEAN]
  /\ rate \in Nat \ {0}
  /\ cancelled \in BOOLEAN
  /\ stopMark \in Nat
  /\ rateMark \in Nat
  /\ held \in Nat
  /\ heldFrom \in Nat

(* The rows still to be written.                                           *)
Pending == IF pc \in {"row", "due", "write", "flush"} THEN buf ELSE <<>>

(* However the run goes - full batches, a stop in mid-batch, an INSERT that *)
(* fails - the table holds the generator's stream from its start, each row  *)
(* once and in order, and unless an INSERT failed every generated row is    *)
(* either stored or still to be written.                                    *)
NoRowLostOrRepeated ==
  /\ \A k \in DOMAIN table : table[k].id = k
  /\ pc # "err" => Len(table) + Len(Pending) = sent

(* The progress a driver sees never counts a row that is not stored.  `done' *)
(* is said only by a run that ends well, it then gives the exact count, and *)
(* for a run nobody stopped that count is the row target: the console's      *)
(* "finished (row target reached)" rests on this.                            *)
ProgressHonest ==
  /\ progress.rowsSent <= Len(table)
  /\ progress.done => /\ pc \in {"done", "ok"}
                      /\ progress.rowsSent = Len(table)
                      /\ cancelled \/ progress.rowsSent = cfg.rows

(* No INSERT binds more parameters than PostgreSQL takes: the check made    *)
(* once in validate() holds for whatever the loop lets the buffer grow to.  *)
StatementWithinLimit == Len(buf) * (4 + cfg.cols) <= MaxBindParams

(* After stop() the run generates at most one more batch of rows: the token *)
(* may be set just after a batch boundary was passed, and in realtime mode  *)
(* the sleep may win the select! against it for every row of that batch.    *)
StopBound == cancelled => sent - stopMark <= cfg.batch

(* A changed rate is in force after at most one batch of rows.             *)
RateBound == rate # period => sent - rateMark <= cfg.batch

(* Realtime rows never run ahead of the clock, across any number of rate    *)
(* changes: since the rate in force came into force, no more rows were      *)
(* generated than it allows for that time, so no backlog or credit of an    *)
(* earlier rate is carried over (Pacer::set_rate rebases).                  *)
NeverAheadOfClock ==
  cfg.realtime /\ sent > heldFrom => (sent - 1 - heldFrom) * period <= held

(* Bulk mode: groups of exactly `ties' consecutive rows share a timestamp,  *)
(* also across the boundary between two batches.                            *)
TieGroups ==
  ~cfg.realtime => \A k \in DOMAIN table : table[k].ts = 10 + (k - 1) \div cfg.ties

(* A stopped run ends, whatever the clock does: in realtime mode the stop    *)
(* interrupts the wait for a row that may be due much later, or never.       *)
StopEnds == cancelled ~> Ended

Outcome ==
  IF progress.done THEN "done" ELSE IF pc \in {"err", "panic"} THEN "failed" ELSE "running"

AsFeed == INSTANCE Feed WITH
  stored <- Len(table), reported <- progress.rowsSent, outcome <- Outcome

(* The run loop keeps the promise of Feed: reports follow what is stored,   *)
(* and nothing is written or reported after the end.                        *)
FeedSpec == AsFeed!Spec

Phase ==
  IF pc \in {"done", "ok"} THEN pc ELSE IF pc \in {"err", "panic"} THEN "err" ELSE "live"

AsRun == INSTANCE Run WITH
  phase <- Phase, full <- progress.done /\ progress.rowsSent = cfg.rows, cancelled <- cancelled

(* What LoadControl takes of its runs: a run says done before it returns,   *)
(* short of its target only if it was told to stop, and one that fails     *)
(* never does; nothing follows the end.                                    *)
RunSpec == AsRun!Spec
=================================================================================
