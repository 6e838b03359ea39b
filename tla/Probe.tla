--------------------------------- MODULE Probe ---------------------------------
(***************************************************************************)
(* The latency probe (web/bench-web/src/probe.rs): round after round it    *)
(* writes a chain of its own into t_rt, and polls mv_rt until the match is *)
(* there or the round times out.  Without a load it moves the watermark    *)
(* itself, by writing sentinel rows.                                       *)
(*                                                                         *)
(* Time passes in ticks, one per poll: statements take none.  The database *)
(* is external: a chain shows as a match once a row is written that is     *)
(* Lateness newer than its last one, and the delay of the engine is part   *)
(* of Lateness.  Ids count from the probe's 1_000_000, and of the wall     *)
(* clock only what they depend on is kept.  That there is one probe at a   *)
(* time is shown in LoadControl.                                           *)
(***************************************************************************)
EXTENDS Naturals

CONSTANTS
  Block,          \* 10: ids per second of the clock
  Wrap,           \* 100_000: seconds until the ids come again
  PerSecond,      \* ticks per second
  Lateness,       \* of the watermark, in ticks
  Timeout,        \* ROUND_TIMEOUT, in ticks
  SentinelEvery,  \* 10: polls per sentinel
  MaxRounds       \* bounds the rounds a request may ask for

ASSUME ScaleAssumption ==
  /\ Block \in Nat \ {0} /\ Wrap \in Nat \ {0} /\ PerSecond \in Nat \ {0}
  /\ SentinelEvery \in Nat \ {0} /\ Lateness \in Nat /\ Timeout \in Nat
  /\ MaxRounds \in Nat \ {0}

(* 5 s and 0.2 s against 60 s.  A rebuild may ask for a lateness that does *)
(* not satisfy this.                                                       *)
ASSUME TimeoutAssumption == Lateness + SentinelEvery <= Timeout

VARIABLES
  clock,    \* ticks, modulo Wrap seconds
  load,     \* a load is running
  quiet,    \* in a round, ticks since the last row was written, up to Late
  left,     \* chains of earlier rounds in t_rt: their id, their run's base,
            \* whether their match is in mv_rt, and whether the run is
            \* still the last one begun
  pc,       \* where the probe is
  sentinel, \* it emits sentinels
  rounds, round, base,
  polls,    \* polls since the last that was a multiple of SentinelEvery
  elapsed,  \* ticks since the round `started', up to Late
  own       \* the chain of this round

runVars == <<sentinel, rounds, base>>
roundVars == <<round, polls, elapsed>>
vars == <<clock, load, quiet, left, pc, runVars, roundVars, own>>

Late == Timeout + 1
Capped(n) == IF n > Late THEN Late ELSE n

Init ==
  /\ clock \in 0 .. Wrap * PerSecond - 1
  /\ load \in BOOLEAN
  /\ quiet = 0
  /\ left = {}
  /\ pc = "off"
  /\ sentinel = FALSE
  /\ rounds = 0
  /\ round = 0
  /\ base = 0
  /\ polls = 0
  /\ elapsed = 0
  /\ own = "none"

-----------------------------------------------------------------------------
(* The database, the load and the clock.                                   *)

(* A row with the time of now: the watermark is Lateness behind it.        *)
RowAt(age) ==
  /\ quiet' = 0
  /\ own' = IF own = "written" /\ age > Lateness THEN "visible" ELSE own

LoadRow ==
  /\ load
  /\ RowAt(elapsed)
  /\ UNCHANGED <<clock, load, left, pc, runVars, roundVars>>

LoadChanges ==
  /\ load' = ~load
  /\ UNCHANGED <<clock, quiet, left, pc, runVars, roundVars, own>>

(* A chain of an earlier round shows late: after the round that wrote it   *)
(* timed out, or failed.                                                   *)
ShowsLate ==
  /\ \E c \in left :
       ~c.shown /\ left' = (left \ {c}) \cup {[c EXCEPT !.shown = TRUE]}
  /\ UNCHANGED <<clock, load, quiet, pc, runVars, roundVars, own>>

(* A pipeline/rebuild stops the load and drops the tables.                 *)
Rebuilt ==
  /\ load' = FALSE
  /\ left' = {}
  /\ own' = IF own = "none" THEN "none" ELSE "gone"
  /\ UNCHANGED <<clock, quiet, pc, runVars, roundVars>>

(* Time passes while the probe sleeps between two polls, or is not there.  *)
Tick ==
  /\ pc \in {"off", "sleep"}
  /\ clock' = (clock + 1) % (Wrap * PerSecond)
  /\ IF pc = "sleep"
     THEN pc' = "poll" /\ elapsed' = Capped(elapsed + 1) /\ quiet' = Capped(quiet + 1)
     ELSE UNCHANGED <<pc, elapsed, quiet>>
  /\ UNCHANGED <<load, left, runVars, round, polls, own>>

-----------------------------------------------------------------------------
(* The probe.                                                              *)

(* sentinel_for.                                                           *)
SentinelFor(running) == ~running

Start ==
  /\ pc = "off"
  /\ pc' = "connect"
  /\ rounds' \in 1 .. MaxRounds
  /\ sentinel' = SentinelFor(load)
  /\ left' = {[c EXCEPT !.mine = FALSE] : c \in left}
  /\ UNCHANGED <<clock, load, quiet, base, roundVars, own>>

Second == clock \div PerSecond

(* Fault: one id per second.                                               *)
BaseOfOne == Second % Wrap

Base == (Second % Wrap) * Block

Pid == base + round

Connect ==
  /\ pc = "connect"
  /\ pc' = "open"
  /\ base' = Base
  /\ round' = 0
  /\ UNCHANGED <<clock, load, quiet, left, sentinel, rounds, polls, elapsed, own>>

(* The deposit and the bet.                                                *)
Open ==
  /\ pc = "open"
  /\ pc' = "write"
  /\ quiet' = 0
  /\ own' = "opened"
  /\ UNCHANGED <<clock, load, left, runVars, roundVars>>

(* Fault: the rounds of a run are timed from its first withdraw.           *)
WriteKeepsStarted ==
  /\ pc = "write"
  /\ pc' = "poll"
  /\ quiet' = 0
  /\ own' = IF own = "opened" THEN "written" ELSE "gone"
  /\ polls' = 0
  /\ UNCHANGED <<clock, load, left, runVars, round, elapsed>>

(* The withdraw, which completes the chain if the rest of it is there.     *)
Write ==
  /\ pc = "write"
  /\ pc' = "poll"
  /\ quiet' = 0
  /\ own' = IF own = "opened" THEN "written" ELSE "gone"
  /\ polls' = 0
  /\ elapsed' = 0
  /\ UNCHANGED <<clock, load, left, runVars, round>>

Seen == own = "visible" \/ \E c \in left : c.id = Pid /\ c.shown

(* Fault: a round never times out.                                         *)
TimesOutNever == FALSE

TimesOut == elapsed > Timeout

Poll ==
  /\ pc = "poll"
  /\ IF Seen THEN pc' = "sample" /\ UNCHANGED polls
     ELSE IF TimesOut THEN pc' = "timedout" /\ UNCHANGED polls
     ELSE /\ polls' = (polls + 1) % SentinelEvery
          /\ pc' = IF sentinel /\ polls' = 0 THEN "sentinel" ELSE "sleep"
  /\ UNCHANGED <<clock, load, quiet, left, runVars, round, elapsed, own>>

WriteSentinel ==
  /\ pc = "sentinel"
  /\ pc' = "sleep"
  /\ RowAt(elapsed)
  /\ UNCHANGED <<clock, load, left, runVars, roundVars>>

(* The chain of a round that is over stays in the table.                   *)
LeaveChain ==
  /\ left' = IF own \in {"written", "visible"}
             THEN left \cup {[id |-> Pid, base |-> base, shown |-> own = "visible",
                            mine |-> TRUE]}
             ELSE left
  /\ own' = "none"

(* Nothing of the run is left.                                             *)
Over ==
  /\ pc' = "off"
  /\ sentinel' = FALSE
  /\ rounds' = 0 /\ base' = 0
  /\ round' = 0 /\ polls' = 0 /\ elapsed' = 0
  /\ quiet' = 0

(* Fault: one round more than was asked for.                               *)
SampleOneMore ==
  /\ pc = "sample"
  /\ LeaveChain
  /\ IF round = rounds THEN Over
     ELSE /\ pc' = "open"
          /\ round' = round + 1
          /\ UNCHANGED <<runVars, polls, elapsed, quiet>>
  /\ UNCHANGED <<clock, load>>

Sample ==
  /\ pc = "sample"
  /\ LeaveChain
  /\ IF round + 1 = rounds THEN Over
     ELSE /\ pc' = "open"
          /\ round' = round + 1
          /\ UNCHANGED <<runVars, polls, elapsed, quiet>>
  /\ UNCHANGED <<clock, load>>

(* A statement that fails ends the run; an INSERT may have landed.         *)
Fails ==
  /\ pc \in {"connect", "open", "write", "poll", "sentinel"}
  /\ pc' = "failed"
  /\ own' \in {own} \cup (IF pc = "write" /\ own = "opened" THEN {"written"} ELSE {})
  /\ UNCHANGED <<clock, load, quiet, left, runVars, roundVars>>

(* run_probe clears probe_running whichever way the run ended.             *)
End ==
  /\ pc \in {"failed", "timedout"}
  /\ LeaveChain
  /\ Over
  /\ UNCHANGED <<clock, load>>

ProbeStep ==
  \/ Connect \/ Open \/ Write \/ Poll \/ WriteSentinel \/ Sample
  \/ Fails \/ End

Next == Start \/ ProbeStep \/ Tick \/ LoadRow \/ LoadChanges \/ ShowsLate \/ Rebuilt

(* Statements are answered, and time goes on.                              *)
Fairness == WF_vars(ProbeStep) /\ WF_vars(Tick)

Spec == Init /\ [][Next]_vars /\ Fairness

-----------------------------------------------------------------------------
(* Properties.                                                             *)

Bases == {s * Block : s \in 0 .. Wrap - 1}
Chains == [id : Nat, base : Bases, shown : BOOLEAN, mine : BOOLEAN]
Polling == {"poll", "sentinel", "sleep", "sample", "timedout"}

(* Type invariant.                                                         *)
TypeOK ==
  /\ clock \in 0 .. Wrap * PerSecond - 1
  /\ load \in BOOLEAN /\ sentinel \in BOOLEAN
  /\ quiet \in 0 .. Late /\ elapsed \in 0 .. Late
  /\ left \subseteq Chains
  /\ pc \in {"off", "connect", "open", "write", "failed"} \cup Polling
  /\ rounds \in 0 .. MaxRounds
  /\ pc = "off" => own = "none" /\ rounds = 0 /\ round = 0
  /\ pc # "off" => round \in 0 .. rounds - 1
  /\ base \in Bases
  /\ polls \in 0 .. SentinelEvery - 1
  /\ own \in {"none", "opened", "written", "visible", "gone"}

InBlock(id, b) == id \in b .. b + Block - 1

(* A round is timed by the match of its own chain, never by that of an     *)
(* earlier round of its run nor by what an earlier run left ("a reused key *)
(* lets an old row satisfy the poll instantly and fake a fast round") -    *)
(* unless that run began in the same second or a multiple of Wrap seconds  *)
(* before, or one of the two made more rounds than its block has ids.      *)
OwnMatch ==
  [][pc = "poll" /\ pc' = "sample" /\ own # "visible"
       => \E c \in left :
            /\ c.id = Pid /\ c.shown /\ ~c.mine
            /\ c.base = base \/ ~InBlock(Pid, base) \/ ~InBlock(Pid, c.base)]_vars

(* A round that times out was starved: the tables were dropped under it,   *)
(* or it was left without sentinels for a load that ran when the probe     *)
(* started, and that has written nothing since the withdraw was Lateness   *)
(* old.  With sentinels no round times out.                                *)
TimedOutMeansStarved ==
  [][pc = "poll" /\ pc' = "timedout"
       => own = "gone" \/ (~sentinel /\ elapsed - quiet <= Lateness)]_vars

(* However a round is starved or a statement fails, the probe ends and     *)
(* another one can be started.                                             *)
ProbeFinishes == pc # "off" ~> pc = "off"
=================================================================================
