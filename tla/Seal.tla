---------------------------------- MODULE Seal ----------------------------------
(***************************************************************************)
(* Sealing a finished bulk feed (web/bench-core/src/pipeline.rs): settle,  *)
(* insert a far-future sentinel, settle again.  Settling polls the number  *)
(* of matches in the materialized view until it has not changed for        *)
(* stable_polls reads, because nothing tells when the engine has caught    *)
(* up, and the sentinel makes it discard what it has not got to yet.       *)
(*                                                                         *)
(* The engine is external: it is what the comments of pipeline.rs say was  *)
(* measured.  Each unit of the feed is one match; some become visible when *)
(* the engine gets to them, the others only when the sentinel's timestamp  *)
(* has passed their watermark.  The one thing assumed of its speed is that *)
(* while it has work, the count does not stand still for more than         *)
(* MaxStall reads.                                                         *)
(***************************************************************************)
EXTENDS Integers

CONSTANTS
  Feed,         \* matches in the feed
  StablePolls,  \* SealConfig::stable_polls
  MaxPolls,     \* SealConfig::max_polls
  MaxStall      \* reads between two changes of the count, as long as it moves

ASSUME CountsAssumption ==
  /\ Feed \in Nat
  /\ StablePolls \in Nat
  /\ MaxPolls \in Nat
  /\ MaxStall \in Nat

(* What the defaults (5 of at most 600) and the rig are meant to satisfy.  *)
ASSUME HeuristicAssumption ==
  /\ StablePolls > 0
  /\ MaxStall <= StablePolls
  /\ StablePolls < MaxPolls

(* No count yet: counts are never negative.                                *)
None == -1

VARIABLES
  inflight,  \* matches the engine has not got to
  waiting,   \* matches that wait for the watermark
  matches,   \* the count of the materialized view
  lost,      \* matches discarded by the watermark
  sentinel,  \* "none", "inserted" or "applied"
  stalled,   \* reads since the count last changed
  pc,        \* where seal() is
  what,      \* which settle() it is in: "feed" or "seal"
  last,      \* Settle::last
  stable,    \* Settle::stable
  polls,     \* reads made by this settle()
  before,    \* SealOutcome::settled_before
  after,     \* SealOutcome::settled_after
  moves      \* history: how often this settle() saw the count change

engineVars == <<inflight, waiting, matches, lost>>
settleVars == <<last, stable, polls, moves>>
outcomeVars == <<before, after>>
vars == <<engineVars, sentinel, stalled, pc, what, settleVars, outcomeVars>>

Init ==
  /\ inflight = Feed
  /\ waiting = 0
  /\ matches = 0
  /\ lost = 0
  /\ sentinel = "none"
  /\ stalled = 0
  /\ pc = "read"
  /\ what = "feed"
  /\ last = None
  /\ stable = 0
  /\ polls = 0
  /\ before = None
  /\ after = None
  /\ moves = 0

-----------------------------------------------------------------------------
(* The engine.                                                             *)

Show == matches' = matches + 1 /\ stalled' = 0
sealVars == <<pc, what, settleVars, outcomeVars>>

(* It gets to a match, which shows at once or waits for the watermark.     *)
Absorb ==
  /\ inflight > 0
  /\ inflight' = inflight - 1
  /\ \/ Show /\ UNCHANGED waiting
     \/ waiting' = waiting + 1 /\ UNCHANGED <<matches, stalled>>
  /\ UNCHANGED <<lost, sentinel, sealVars>>

(* The sentinel moves the watermark past everything.                       *)
Apply ==
  /\ sentinel = "inserted"
  /\ sentinel' = "applied"
  /\ lost' = lost + inflight
  /\ inflight' = 0
  /\ UNCHANGED <<waiting, matches, stalled, sealVars>>

Release ==
  /\ sentinel = "applied"
  /\ waiting > 0
  /\ waiting' = waiting - 1
  /\ Show
  /\ UNCHANGED <<inflight, lost, sentinel, sealVars>>

(* The count is still to change.                                           *)
Busy == inflight > 0 \/ sentinel = "inserted" \/ (sentinel = "applied" /\ waiting > 0)

-----------------------------------------------------------------------------
(* seal().                                                                 *)

(* Settle::observe: how many reads in a row have not changed.              *)
Streak(n) == IF last = n THEN stable + 1 ELSE 0

(* Fault: the first read counts as one that did not change.                *)
SettledOneEarly(n) == Streak(n) + 1 >= StablePolls

Settled(n) == Streak(n) >= StablePolls

OutOfPolls(k) == k >= MaxPolls

Read ==
  /\ pc = "read"
  /\ Busy => stalled < MaxStall
  /\ stalled' = IF Busy THEN stalled + 1 ELSE 0
  /\ last' = matches
  /\ stable' = Streak(matches)
  /\ moves' = IF last \in {None, matches} THEN moves ELSE moves + 1
  /\ IF Settled(matches)
     THEN /\ UNCHANGED polls
          /\ IF what = "feed"
             THEN before' = matches /\ pc' = "insert" /\ UNCHANGED after
             ELSE after' = matches /\ pc' = "done" /\ UNCHANGED before
     ELSE /\ polls' = polls + 1
          /\ pc' = IF OutOfPolls(polls + 1) THEN "stuck" ELSE "sleep"
          /\ UNCHANGED outcomeVars
  /\ UNCHANGED <<engineVars, sentinel, what>>

Sleep ==
  /\ pc = "sleep"
  /\ pc' = "read"
  /\ UNCHANGED <<engineVars, sentinel, stalled, what, settleVars, outcomeVars>>

(* Fault: the second settle() goes on from the state of the first.         *)
InsertKeepsSettle ==
  /\ pc = "insert"
  /\ sentinel' = "inserted"
  /\ pc' = "read"
  /\ what' = "seal"
  /\ UNCHANGED <<engineVars, stalled, settleVars, outcomeVars>>

(* The sentinel is inserted, and settling starts afresh.                   *)
Insert ==
  /\ pc = "insert"
  /\ sentinel' = "inserted"
  /\ pc' = "read"
  /\ what' = "seal"
  /\ last' = None
  /\ stable' = 0
  /\ polls' = 0
  /\ moves' = 0
  /\ UNCHANGED <<engineVars, stalled, outcomeVars>>

(* A statement reports an error; the sentinel may be in the table anyway.  *)
Fails ==
  /\ pc \in {"read", "insert"}
  /\ pc' = "failed"
  /\ sentinel' \in {sentinel} \cup (IF pc = "insert" THEN {"inserted"} ELSE {})
  /\ UNCHANGED <<engineVars, stalled, what, settleVars, outcomeVars>>

-----------------------------------------------------------------------------
Next ==
  \/ Absorb \/ Apply \/ Release
  \/ Read \/ Sleep \/ Insert \/ Fails

Spec == Init /\ [][Next]_vars

-----------------------------------------------------------------------------
(* Properties.                                                             *)

Count == Nat \cup {None}

(* Type invariant.                                                         *)
TypeOK ==
  /\ inflight \in Nat
  /\ waiting \in Nat
  /\ matches \in Nat
  /\ lost \in Nat
  /\ sentinel \in {"none", "inserted", "applied"}
  /\ stalled \in 0 .. MaxStall
  /\ pc \in {"read", "sleep", "insert", "done", "stuck", "failed"}
  /\ what \in {"feed", "seal"}
  /\ last \in Count
  /\ stable \in Nat
  /\ polls \in 0 .. MaxPolls
  /\ before \in Count
  /\ after \in Count
  /\ moves \in Nat

(* The sentinel never costs a match: it is inserted only when the engine    *)
(* has got to the whole feed ("settle, seal, settle").                      *)
NothingDiscarded == lost = 0

(* The two counts seal() returns are of an engine that had caught up: the   *)
(* second is the whole feed, and the first lacks only what had to wait.     *)
OutcomeComplete ==
  pc = "done" => before <= after /\ after = Feed

(* When seal() gives up and says the count is "still moving", it did see    *)
(* the count move in the very settle() that gave up.                        *)
StillMovingMoved == pc = "stuck" => moves > 0
=================================================================================
