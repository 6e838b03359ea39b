-------------------------------- MODULE Meters --------------------------------
(***************************************************************************)
(* The arithmetic behind the numbers and the thinned feed of the console:  *)
(* the rate of rows over a sliding window (RateWindow in measure.rs, fed   *)
(* by the aggregator's tick in ws.rs), the percentiles over a vector that  *)
(* is sorted when needed (Latencies in measure.rs), and what a client's    *)
(* socket lets through (Sampler and LagBackoff in ws.rs).                  *)
(*                                                                         *)
(* They share nothing but the clock, so a behaviour exercises one of them. *)
(* A second has Unit ticks of the clock, and Sampler's floating-point      *)
(* tokens are counted in parts of which a token has Unit.  Which event     *)
(* reaches which of them is in Measurement.                                *)
(***************************************************************************)
EXTENDS Integers, SequencesExt

CONSTANTS
  Window,    \* RATE_WINDOW, in ticks of the clock
  Unit,      \* ticks in a second
  Target,    \* DISPLAY_ALERTS_PER_SEC
  BackoffBase, BackoffMax,  \* LAG_BACKOFF_BASE and LAG_BACKOFF_MAX, in ticks
  None,      \* no run in the slot, or no call of the sampler yet
  MaxTime,   \* bounds the clock,
  MaxEvents  \* and the rows, ticks, samples and events of a behaviour

ASSUME SizesAssumption ==
  /\ Window \in Nat /\ Unit \in Nat \ {0} /\ Target \in Nat
  /\ BackoffBase \in Nat /\ BackoffMax \in Nat
  /\ MaxTime \in Nat /\ MaxEvents \in Nat
ASSUME NoneAssumption == None \notin Nat

VARIABLES
  meter,      \* the one that is exercised
  now,        \* the clock
  events,     \* events so far
  rows,       \* rows_sent of the run in the slot
  lastRows,   \* last_rows_sent
  window,     \* RateWindow::samples
  log,        \* history: every sample ever recorded
  written,    \* history: when each row was written
  samples,    \* Latencies::samples
  dirty,      \* Latencies::dirty
  shown,      \* the percentiles last read: min, p50, p95, p99, max
  tokens,     \* Sampler::tokens, Unit parts each
  lastT,      \* Sampler::last_t
  forwarded,  \* history: when each alert was forwarded
  lags        \* LagBackoff::consecutive

rateVars == <<rows, lastRows, window, log, written>>
latencyVars == <<samples, dirty, shown>>
samplerVars == <<tokens, lastT, forwarded>>
vars == <<meter, now, events, rateVars, latencyVars, samplerVars, lags>>

Init ==
  /\ meter \in {"rate", "latencies", "socket"}
  /\ now = 0
  /\ events = 0
  /\ rows = None
  /\ lastRows = 0
  /\ window = <<>>
  /\ log = <<>>
  /\ written = <<>>
  /\ samples = <<>>
  /\ dirty = FALSE
  /\ shown = <<>>
  /\ tokens = Unit
  /\ lastT = None
  /\ forwarded = <<>>
  /\ lags = 0

Advance ==
  /\ now < MaxTime
  /\ now' = now + 1
  /\ UNCHANGED <<meter, events, rateVars, latencyVars, samplerVars, lags>>

(* An event that concerns meter m.                                         *)
Event(m) ==
  /\ meter = m
  /\ events < MaxEvents
  /\ events' = events + 1
  /\ UNCHANGED <<meter, now>>

-----------------------------------------------------------------------------
(* The rate of rows.                                                       *)

RateEvent == Event("rate") /\ UNCHANGED <<latencyVars, samplerVars, lags>>

(* A run takes the slot, or leaves it: reaped, stopped, replaced.          *)
RunChanges ==
  /\ RateEvent
  /\ rows' \in {None, 0} /\ rows' # rows
  /\ UNCHANGED <<lastRows, window, log, written>>

RunWrites ==
  /\ RateEvent
  /\ rows # None
  /\ rows' = rows + 1
  /\ written' = Append(written, now)
  /\ UNCHANGED <<lastRows, window, log>>

(* current_progress.                                                       *)
RowsSent == IF rows = None THEN 0 ELSE rows

(* What is left of w when samples of before the cutoff are popped off its  *)
(* front, up to the first that is not.                                     *)
From(w, cutoff) ==
  LET fresh == {i \in DOMAIN w : w[i].at >= cutoff}
  IN IF fresh = {} THEN <<>>
     ELSE SubSeq(w, CHOOSE i \in fresh : \A j \in fresh : i <= j, Len(w))

(* Fault: what is older than the window goes, its edge included.           *)
PrunedToWindow(w, at) == From(w, at - Window + 1)

(* RateWindow::record: what is older than twice the window goes.           *)
Pruned(w, at) == From(w, at - 2 * Window)

Delta == IF RowsSent > lastRows THEN RowsSent - lastRows ELSE 0

AggTick ==
  /\ RateEvent
  /\ LET s == [at |-> now, n |-> Delta] IN
       /\ window' = Pruned(Append(window, s), now)
       /\ log' = Append(log, s)
  /\ lastRows' = RowsSent
  /\ UNCHANGED <<rows, written>>

(* The sums of the samples not before the cutoff, up to each sample of w.  *)
Totals(w, cutoff) ==
  LET upTo[i \in 0 .. Len(w)] ==
        IF i = 0 THEN 0 ELSE upTo[i - 1] + (IF w[i].at >= cutoff THEN w[i].n ELSE 0)
  IN upTo

(* RateWindow::per_sec, times the length of the window.                    *)
Counted(w) == Totals(w, now - Window)[Len(w)]

-----------------------------------------------------------------------------
(* The percentiles.                                                        *)

LatencyEvent == Event("latencies") /\ UNCHANGED <<rateVars, samplerVars, lags>>

(* Fault: a sample does not make the vector dirty.                         *)
PushStaysClean(ms) ==
  /\ LatencyEvent
  /\ samples' = Append(samples, ms)
  /\ UNCHANGED <<dirty, shown>>

(* Latencies::push of a finite sample; any other is not stored.            *)
Push(ms) ==
  /\ LatencyEvent
  /\ samples' = Append(samples, ms)
  /\ dirty' = TRUE
  /\ UNCHANGED shown

(* The index of a percentile of n samples: (n - 1) * q, rounded.           *)
Index(n, percent) == ((n - 1) * percent * 2 + 100) \div 200

(* The vector sorted: at place k is the value that fewer than k are below  *)
(* and at least k are not above.                                           *)
InOrder(s) ==
  [k \in DOMAIN s |->
     CHOOSE x \in Range(s) : /\ Cardinality({i \in DOMAIN s : s[i] < x}) < k
                             /\ Cardinality({i \in DOMAIN s : s[i] <= x}) >= k]

Percentiles ==
  /\ LatencyEvent
  /\ samples # <<>>
  /\ samples' = IF dirty THEN InOrder(samples) ELSE samples
  /\ dirty' = FALSE
  /\ shown' = [i \in 1 .. 5 |->
                 samples'[Index(Len(samples), <<0, 50, 95, 99, 100>>[i]) + 1]]

(* A StatsReset.                                                           *)
NewLatencies ==
  /\ LatencyEvent
  /\ samples' = <<>>
  /\ dirty' = FALSE
  /\ UNCHANGED shown

-----------------------------------------------------------------------------
(* A socket.                                                               *)

SocketEvent == Event("socket") /\ UNCHANGED <<rateVars, latencyVars>>

Capacity == (IF Target > 1 THEN Target ELSE 1) * Unit

(* Fault: the bucket holds whatever a quiet time brings.                   *)
FilledUnbounded == IF lastT = None THEN tokens ELSE tokens + (now - lastT) * Target

(* The tokens at this time.                                                *)
Filled ==
  LET t == IF lastT = None THEN tokens ELSE tokens + (now - lastT) * Target
  IN IF lastT # None /\ t > Capacity THEN Capacity ELSE t

(* Sampler::should_forward; the alert ends a streak of lags either way.    *)
Alert ==
  /\ SocketEvent
  /\ lastT' = now
  /\ IF Filled >= Unit
     THEN tokens' = Filled - Unit /\ forwarded' = Append(forwarded, now)
     ELSE tokens' = Filled /\ UNCHANGED forwarded
  /\ lags' = 0

OtherEvent ==
  /\ SocketEvent
  /\ lags' = 0
  /\ UNCHANGED samplerVars

Least(a, b) == IF a < b THEN a ELSE b

(* LagBackoff::next_delay.                                                 *)
Delay == IF lags = 0 THEN 0 ELSE Least(BackoffBase * Least(lags, 64), BackoffMax)

(* The socket sleeps before it is sent its snapshot.                       *)
Lagged ==
  /\ meter = "socket" /\ events < MaxEvents
  /\ now + Delay <= MaxTime
  /\ events' = events + 1
  /\ now' = now + Delay
  /\ lags' = lags + 1
  /\ UNCHANGED <<meter, rateVars, latencyVars, samplerVars>>

-----------------------------------------------------------------------------
Next ==
  \/ Advance
  \/ RunChanges \/ RunWrites \/ AggTick
  \/ (\E ms \in 1 .. 3 : Push(ms)) \/ Percentiles \/ NewLatencies
  \/ Alert \/ OtherEvent \/ Lagged

Spec == Init /\ [][Next]_vars

-----------------------------------------------------------------------------
(* Properties.                                                             *)

Sample == [at : Nat, n : Nat]
Sorted(s) == \A i, j \in DOMAIN s : i < j => s[i] <= s[j]

(* Type invariant.  A vector that is not dirty is sorted, percentiles are   *)
(* in order, and the window keeps nothing of before twice its length.      *)
TypeOK ==
  /\ meter \in {"rate", "latencies", "socket"}
  /\ now \in 0 .. MaxTime /\ events \in 0 .. MaxEvents
  /\ rows \in Nat \cup {None} /\ lastRows \in Nat
  /\ window \in Seq(Sample) /\ log \in Seq(Sample) /\ written \in Seq(Nat)
  /\ \A i, j \in DOMAIN window : window[i].at >= window[j].at - 2 * Window
  /\ samples \in Seq(Nat) /\ dirty \in BOOLEAN
  /\ ~dirty => Sorted(samples)
  /\ shown \in Seq(Nat) /\ Sorted(shown)
  /\ tokens \in 0 .. Capacity
  /\ lastT \in 0 .. now \cup {None}
  /\ forwarded \in Seq(0 .. now)
  /\ lags \in 0 .. MaxEvents

(* The time of the last tick before the window, from which the first one   *)
(* in it counts.                                                           *)
CountsFrom ==
  LET before == {log[i].at : i \in {k \in DOMAIN log : log[k].at < now - Window}}
  IN IF before = {} THEN 0 ELSE CHOOSE t \in before : \A u \in before : u <= t

WrittenSince(t) == Cardinality({i \in DOMAIN written : written[i] >= t})

(* The rate shown is that of every sample of the window, pruned or not,    *)
(* and never of more rows than were written from the tick before the       *)
(* window on - though runs come and go between ticks, and each counts its  *)
(* rows from 0.                                                            *)
RateHonest ==
  /\ Counted(window) = Counted(log)
  /\ Counted(window) <= WrittenSince(CountsFrom)

(* However alerts come in bursts and gaps, between any two that were       *)
(* forwarded no more were than a full bucket and the target allow.         *)
SamplerBound ==
  \A i, j \in DOMAIN forwarded :
    i <= j => (j - i + 1) * Unit <= Capacity + (forwarded[j] - forwarded[i]) * Target
=============================================================================
