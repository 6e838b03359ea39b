------------------------------- MODULE SealProofs -------------------------------
(***************************************************************************)
(* Proofs about Seal, for a feed of any length and any number of polls, as *)
(* long as the engine is never still for longer than stable_polls reads.   *)
(***************************************************************************)
EXTENDS Seal, TLAPS

(* A settle() that has not given up may read once more.                    *)
PollsLeft == pc \in {"read", "sleep"} => polls < MaxPolls

LEMMA TypeInvariant == Spec => [](TypeOK /\ PollsLeft)
<1> USE CountsAssumption, HeuristicAssumption DEF None
<1>1. Init => TypeOK /\ PollsLeft
  BY DEF Init, TypeOK, PollsLeft, Count
<1>2. TypeOK /\ PollsLeft /\ [Next]_vars => TypeOK' /\ PollsLeft'
  <2> SUFFICES ASSUME TypeOK, PollsLeft, [Next]_vars PROVE TypeOK' /\ PollsLeft'
    OBVIOUS
  <2> USE DEF TypeOK, PollsLeft, Count, engineVars, settleVars, outcomeVars, sealVars
  <2>1. CASE Absorb
    BY <2>1 DEF Absorb, Show
  <2>2. CASE Apply
    BY <2>2 DEF Apply
  <2>3. CASE Release
    BY <2>3 DEF Release, Show
  <2>4. CASE Read
    <3>1. /\ stalled' \in 0 .. MaxStall /\ last' \in Count
          /\ stable' \in Nat /\ moves' \in Nat
      BY <2>4 DEF Read, Streak
    <3>2. /\ before' \in Count /\ after' \in Count
          /\ polls' \in 0 .. MaxPolls /\ PollsLeft'
          /\ pc' \in {"insert", "done", "stuck", "sleep"}
      BY <2>4 DEF Read, OutOfPolls
    <3> QED
      BY <2>4, <3>1, <3>2 DEF Read
  <2>5. CASE Sleep
    BY <2>5 DEF Sleep
  <2>6. CASE Insert
    BY <2>6 DEF Insert
  <2>7. CASE Fails
    BY <2>7 DEF Fails
  <2>8. CASE UNCHANGED vars
    BY <2>8 DEF vars
  <2> QED
    BY <2>1, <2>2, <2>3, <2>4, <2>5, <2>6, <2>7, <2>8 DEF Next
<1> QED
  BY <1>1, <1>2, PTL DEF Spec

(* The types of all variables are preserved by the engine and by seal().   *)
THEOREM TypeCorrect == Spec => []TypeOK
BY TypeInvariant, PTL

-----------------------------------------------------------------------------
(***************************************************************************)
(* While the engine has work, the reads that found the count unchanged are *)
(* fewer than the reads since it changed, and those are bounded by         *)
(* MaxStall: a settle() that ends ends on an idle engine.                  *)
(***************************************************************************)

Polling == pc \in {"read", "sleep"}

StreakIsStall == Polling /\ Busy /\ last = matches => stable < stalled

CountOnlyGrows == last \in Nat => last <= matches

Conserved == inflight + waiting + matches + lost = Feed

SentinelWaits ==
  /\ lost = 0
  /\ sentinel # "none" => inflight = 0
  /\ Polling /\ what = "feed" => sentinel = "none"
  /\ pc = "insert" => what = "feed" /\ sentinel = "none" /\ inflight = 0

Outcome ==
  /\ Polling /\ what = "seal" => sentinel # "none"
  /\ pc = "insert" \/ (Polling /\ what = "seal") => before \in Nat /\ before <= matches
  /\ pc = "done" => /\ before \in Nat /\ before <= after
                    /\ after = matches /\ ~Busy /\ sentinel # "none"

SealInv == StreakIsStall /\ CountOnlyGrows /\ Conserved /\ SentinelWaits /\ Outcome

(* A read that settles finds the engine idle.                              *)
LEMMA SettledIsIdle ==
  ASSUME TypeOK, StreakIsStall, Read, Settled(matches)
  PROVE  ~Busy
<1> USE CountsAssumption, HeuristicAssumption DEF None
<1> SUFFICES ASSUME Busy PROVE FALSE
  OBVIOUS
<1>1. stalled < MaxStall /\ Polling /\ stable \in Nat /\ stalled \in Nat
  BY DEF Read, Polling, TypeOK
<1>2. last = matches /\ stable + 1 >= StablePolls
  BY DEF Settled, Streak
<1>3. stable < stalled
  BY <1>1, <1>2 DEF StreakIsStall
<1> QED
  BY <1>1, <1>2, <1>3

LEMMA Sealing == Spec => []SealInv
<1> USE CountsAssumption, HeuristicAssumption DEF None
<1>1. Init => SealInv
  BY DEF Init, SealInv, StreakIsStall, CountOnlyGrows, Conserved, SentinelWaits, Outcome,
         Polling, Busy
<1>2. TypeOK /\ SealInv /\ [Next]_vars => SealInv'
  <2> SUFFICES ASSUME TypeOK, SealInv, [Next]_vars PROVE SealInv'
    OBVIOUS
  <2> USE DEF TypeOK, Count, SealInv, StreakIsStall, CountOnlyGrows, Conserved, SentinelWaits,
              Outcome, Polling, Busy, engineVars, settleVars, outcomeVars, sealVars
  <2>1. CASE Absorb
    BY <2>1 DEF Absorb, Show
  <2>2. CASE Apply
    BY <2>2 DEF Apply
  <2>3. CASE Release
    BY <2>3 DEF Release, Show
  <2>4. CASE Read
    <3>1. UNCHANGED <<inflight, waiting, matches, lost, sentinel, what>> /\ last' = matches
      BY <2>4 DEF Read
    <3>2. CountOnlyGrows' /\ Conserved'
      BY <3>1
    <3>3. CASE Settled(matches)
      <4>1. ~Busy
        BY <2>4, <3>3, SettledIsIdle
      <4>2. CASE what = "feed"
        BY <2>4, <3>1, <3>3, <4>1, <4>2 DEF Read
      <4>3. CASE what = "seal"
        BY <2>4, <3>1, <3>3, <4>1, <4>3 DEF Read
      <4> QED
        BY <4>2, <4>3
    <3>4. CASE ~Settled(matches)
      <4>1. pc' \in {"stuck", "sleep"} /\ UNCHANGED <<before, after>>
        BY <2>4, <3>4 DEF Read
      <4>2. Busy' => stalled' = stalled + 1 /\ stable' \in {0, stable + 1}
        BY <2>4, <3>1 DEF Read, Streak
      <4>3. Busy' /\ stable' # 0 => last = matches
        BY <2>4, <3>1 DEF Read, Streak
      <4>4. StreakIsStall'
        BY <2>4, <3>1, <4>1, <4>2, <4>3 DEF Read
      <4>5. SentinelWaits' /\ Outcome'
        BY <2>4, <3>1, <4>1 DEF Read
      <4> QED
        BY <3>2, <4>4, <4>5
    <3> QED
      BY <3>3, <3>4
  <2>5. CASE Sleep
    BY <2>5 DEF Sleep
  <2>6. CASE Insert
    BY <2>6 DEF Insert
  <2>7. CASE Fails
    BY <2>7 DEF Fails
  <2>8. CASE UNCHANGED vars
    BY <2>8 DEF vars
  <2> QED
    BY <2>1, <2>2, <2>3, <2>4, <2>5, <2>6, <2>7, <2>8 DEF Next
<1> QED
  BY <1>1, <1>2, TypeCorrect, PTL DEF Spec

(* The sentinel, inserted after the first settle(), discards nothing.      *)
THEOREM NoMatchLost == Spec => []NothingDiscarded
<1>1. SealInv => NothingDiscarded
  BY DEF SealInv, SentinelWaits, NothingDiscarded
<1> QED
  BY <1>1, Sealing, PTL

(* What seal() returns describes an engine that had caught up.             *)
THEOREM OutcomeIsComplete == Spec => []OutcomeComplete
<1>1. TypeOK /\ SealInv => OutcomeComplete
  <2> SUFFICES ASSUME TypeOK, SealInv, pc = "done" PROVE before <= after /\ after = Feed
    BY DEF OutcomeComplete
  <2>1. /\ before <= after /\ after = matches
        /\ inflight = 0 /\ lost = 0 /\ sentinel = "applied" /\ ~(waiting > 0)
    BY DEF SealInv, SentinelWaits, Outcome, Busy, TypeOK
  <2> QED
    BY <2>1, CountsAssumption DEF SealInv, Conserved, TypeOK
<1> QED
  BY <1>1, TypeCorrect, Sealing, PTL

-----------------------------------------------------------------------------
(* Until a settle() has seen the count change, its streak grows with every *)
(* read but the first.                                                     *)
StreakFromStart ==
  /\ pc \in {"read", "sleep"} /\ moves = 0 => stable < StablePolls
  /\ pc \in {"read", "sleep"} /\ moves = 0 /\ polls = 0 => last = None
  /\ pc \in {"read", "sleep"} /\ moves = 0 /\ polls > 0 => last # None /\ stable = polls - 1
  /\ pc = "stuck" => moves > 0

LEMMA Streaks == Spec => []StreakFromStart
<1> USE CountsAssumption, HeuristicAssumption DEF None
<1>1. Init => StreakFromStart
  BY DEF Init, StreakFromStart
<1>2. TypeOK /\ StreakFromStart /\ [Next]_vars => StreakFromStart'
  <2> SUFFICES ASSUME TypeOK, StreakFromStart, [Next]_vars PROVE StreakFromStart'
    OBVIOUS
  <2> USE DEF TypeOK, Count, StreakFromStart, engineVars, settleVars, outcomeVars, sealVars
  <2>1. CASE Absorb
    BY <2>1 DEF Absorb
  <2>2. CASE Apply
    BY <2>2 DEF Apply
  <2>3. CASE Release
    BY <2>3 DEF Release
  <2>4. CASE Read
    <3>1. CASE Settled(matches)
      BY <2>4, <3>1 DEF Read
    <3>2. CASE ~Settled(matches)
      <4>1. /\ polls' = polls + 1 /\ last' = matches
            /\ stable' = Streak(matches) /\ stable' < StablePolls
            /\ pc' = "stuck" => polls + 1 >= MaxPolls
            /\ pc' \in {"stuck", "sleep"}
        BY <2>4, <3>2 DEF Read, Settled, Streak, OutOfPolls
      <4>2. moves' = 0 => stable' = polls
        <5>1. CASE polls = 0
          <6>1. moves' = 0 => last = None
            BY <2>4, <5>1 DEF Read
          <6>2. last = None => Streak(matches) = 0
            BY DEF Streak
          <6> QED
            BY <4>1, <5>1, <6>1, <6>2
        <5>2. CASE polls > 0
          <6>1. moves' = 0 => last = matches /\ stable = polls - 1
            BY <2>4, <5>2 DEF Read
          <6>2. last = matches => Streak(matches) = stable + 1
            BY DEF Streak
          <6> QED
            BY <4>1, <6>1, <6>2
        <5> QED
          BY <5>1, <5>2
      <4>3. moves' \in Nat
        BY <2>4 DEF Read
      <4> QED
        BY <4>1, <4>2, <4>3
    <3> QED
      BY <3>1, <3>2
  <2>5. CASE Sleep
    BY <2>5 DEF Sleep
  <2>6. CASE Insert
    BY <2>6 DEF Insert
  <2>7. CASE Fails
    BY <2>7 DEF Fails
  <2>8. CASE UNCHANGED vars
    BY <2>8 DEF vars
  <2> QED
    BY <2>1, <2>2, <2>3, <2>4, <2>5, <2>6, <2>7, <2>8 DEF Next
<1> QED
  BY <1>1, <1>2, TypeCorrect, PTL DEF Spec

(* "Still moving" is said only of a count that moved.                      *)
THEOREM StillMovingIsTrue == Spec => []StillMovingMoved
<1>1. StreakFromStart => StillMovingMoved
  BY DEF StreakFromStart, StillMovingMoved
<1> QED
  BY <1>1, Streaks, PTL
=================================================================================
