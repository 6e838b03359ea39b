------------------------------ MODULE ProbeProofs ------------------------------
(***************************************************************************)
(* What holds of Probe for any size of its id blocks, any lateness and any *)
(* timeout that is longer by the time between two sentinels.               *)
(***************************************************************************)
EXTENDS Probe, TLAPS

(* The arithmetic of ids and counters.                                     *)
LEMMA ModInRange ==
  ASSUME NEW n \in Nat, NEW d \in Nat \ {0}
  PROVE  n % d \in 0 .. d - 1
OBVIOUS

LEMMA ModOfNext ==
  ASSUME NEW d \in Nat \ {0}, NEW p \in 0 .. d - 1
  PROVE  (p + 1) % d = IF p + 1 = d THEN 0 ELSE p + 1
<1>1. CASE p + 1 = d
  BY <1>1
<1>2. CASE p + 1 # d
  BY <1>2
<1> QED
  BY <1>1, <1>2

LEMMA ClockRange == Wrap * PerSecond \in Nat \ {0}
BY ScaleAssumption

LEMMA BasesNat == Bases \subseteq Nat
BY ScaleAssumption DEF Bases

LEMMA BaseInBases ==
  ASSUME clock \in Nat
  PROVE  Base \in Bases
<1>1. Second \in Nat
  BY ScaleAssumption DEF Second
<1>2. Second % Wrap \in 0 .. Wrap - 1
  BY <1>1, ModInRange, ScaleAssumption
<1> QED
  BY <1>2 DEF Base, Bases

(* Two blocks that have an id in common are the same.                      *)
LEMMA BlocksDisjoint ==
  ASSUME NEW b \in Bases, NEW c \in Bases, NEW id \in Nat, InBlock(id, b), InBlock(id, c)
  PROVE  b = c
<1>1. PICK x \in 0 .. Wrap - 1 : b = x * Block
  BY DEF Bases
<1>2. PICK y \in 0 .. Wrap - 1 : c = y * Block
  BY DEF Bases
<1>b. /\ x \in Nat /\ y \in Nat /\ Block \in Nat \ {0}
      /\ x * Block <= id /\ id < x * Block + Block
      /\ y * Block <= id /\ id < y * Block + Block
  BY <1>1, <1>2, ScaleAssumption DEF InBlock
<1>3. ASSUME NEW u \in Nat, NEW v \in Nat, u < v
      PROVE  u * Block + Block <= v * Block
  <2>1. PICK k \in Nat : v = u + 1 + k
    <3>1. v - u - 1 \in Nat /\ v = u + 1 + (v - u - 1)
      BY <1>3
    <3> QED
      BY <3>1
  <2>2. v * Block = u * Block + Block + k * Block
    BY <2>1, <1>b
  <2>3. u * Block \in Nat /\ k * Block \in Nat
    BY <2>1, <1>b
  <2> QED
    BY <2>2, <2>3, <1>b
<1>4. x * Block \in Nat /\ y * Block \in Nat
  BY <1>b
<1>5. ~(x < y) /\ ~(y < x)
  BY <1>3, <1>4, <1>b
<1> QED
  BY <1>1, <1>2, <1>5, <1>b

-----------------------------------------------------------------------------
(* The type invariant.                                                     *)

LEMMA TypeInit == Init => TypeOK
<1> SUFFICES ASSUME Init PROVE TypeOK
  OBVIOUS
<1>1. 0 \in Bases
  <2>1. 0 \in 0 .. Wrap - 1 /\ 0 * Block = 0
    BY ScaleAssumption
  <2> QED
    BY <2>1 DEF Bases
<1>2. Timeout \in Nat /\ SentinelEvery \in Nat \ {0} /\ MaxRounds \in Nat
  BY ScaleAssumption
<1>3. 0 \in 0 .. Late /\ 0 \in 0 .. SentinelEvery - 1 /\ 0 \in 0 .. MaxRounds
  BY <1>2 DEF Late
<1> QED
  BY <1>1, <1>3 DEF Init, TypeOK

LEMMA ChainLeft ==
  ASSUME TypeOK, pc # "off", LeaveChain
  PROVE  left' \subseteq Chains /\ own' = "none"
<1>1. Pid \in Nat
  BY BasesNat DEF TypeOK, Pid
<1>2. own' = "none"
  BY DEF LeaveChain
<1>3. [id |-> Pid, base |-> base, shown |-> own = "visible", mine |-> TRUE] \in Chains
  <2>1. (own = "visible") \in BOOLEAN
    OBVIOUS
  <2> QED
    BY <1>1, <2>1 DEF Chains, TypeOK
<1> QED
  BY <1>2, <1>3 DEF LeaveChain, TypeOK

LEMMA OverTypes ==
  ASSUME TypeOK, Over, left' \subseteq Chains, own' = "none", UNCHANGED <<clock, load>>
  PROVE  TypeOK'
<1>1. 0 \in Bases
  <2>1. 0 \in 0 .. Wrap - 1 /\ 0 * Block = 0
    BY ScaleAssumption
  <2> QED
    BY <2>1 DEF Bases
<1>2. Timeout \in Nat /\ SentinelEvery \in Nat \ {0} /\ MaxRounds \in Nat
  BY ScaleAssumption
<1>3. 0 \in 0 .. Late /\ 0 \in 0 .. SentinelEvery - 1 /\ 0 \in 0 .. MaxRounds
  BY <1>2 DEF Late
<1> QED
  BY <1>1, <1>3 DEF Over, TypeOK

LEMMA TypeStep == TypeOK /\ [Next]_vars => TypeOK'
<1> SUFFICES ASSUME TypeOK, [Next]_vars PROVE TypeOK'
  OBVIOUS
<1> USE DEF TypeOK, runVars, roundVars
<1>1. CASE Start
  <2>1. (~load) \in BOOLEAN
    OBVIOUS
  <2>2. rounds' \in 1 .. MaxRounds /\ round' = 0 /\ pc' = "connect"
    BY <1>1 DEF Start
  <2>3. \A n \in 1 .. MaxRounds : 0 \in 0 .. n - 1 /\ n \in 0 .. MaxRounds
    BY ScaleAssumption
  <2>4. left' \subseteq Chains
    BY <1>1 DEF Start, Chains
  <2> QED
    BY <1>1, <2>1, <2>2, <2>3, <2>4 DEF Start, SentinelFor
<1>2. CASE Connect
  <2>1. base' \in Bases
    BY <1>2, BaseInBases DEF Connect
  <2> QED
    BY <1>2, <2>1, ScaleAssumption DEF Connect
<1>3. CASE Open \/ Write
  BY <1>3, ScaleAssumption DEF Open, Write, Polling, Late
<1>4. CASE Poll
  <2>1. polls' \in 0 .. SentinelEvery - 1
    BY <1>4, ModInRange, ScaleAssumption DEF Poll
  <2>2. pc' \in {"sample", "timedout", "sentinel", "sleep"}
    BY <1>4 DEF Poll
  <2> QED
    BY <1>4, <2>1, <2>2 DEF Poll, Polling
<1>5. CASE WriteSentinel \/ LoadRow
  BY <1>5, ScaleAssumption DEF WriteSentinel, LoadRow, RowAt, Polling, Late
<1>6. CASE Sample
  <2>1. left' \subseteq Chains /\ own' = "none"
    BY <1>6, ChainLeft DEF Sample
  <2>2. CASE round + 1 = rounds
    BY <1>6, <2>1, <2>2, OverTypes DEF Sample
  <2>3. CASE round + 1 # rounds
    BY <1>6, <2>1, <2>3, ScaleAssumption DEF Sample
  <2> QED
    BY <2>2, <2>3
<1>7. CASE Fails
  BY <1>7 DEF Fails, Polling
<1>8. CASE End
  BY <1>8, ChainLeft, OverTypes DEF End
<1>9. CASE Tick
  <2>1. clock' \in 0 .. Wrap * PerSecond - 1
    <3>1. clock + 1 \in Nat
      BY ClockRange
    <3>2. (clock + 1) % (Wrap * PerSecond) \in 0 .. Wrap * PerSecond - 1
      BY <3>1, ModInRange, ClockRange
    <3> QED
      BY <1>9, <3>2 DEF Tick
  <2>2. /\ elapsed' \in 0 .. Late /\ quiet' \in 0 .. Late
        /\ pc' = IF pc = "sleep" THEN "poll" ELSE pc
    BY <1>9, ScaleAssumption DEF Tick, Capped, Late
  <2> QED
    BY <1>9, <2>1, <2>2 DEF Tick, Polling
<1>10. CASE LoadChanges \/ Rebuilt
  BY <1>10 DEF LoadChanges, Rebuilt
<1>11. CASE ShowsLate
  BY <1>11 DEF ShowsLate, Chains
<1>12. CASE UNCHANGED vars
  BY <1>12 DEF vars
<1> QED
  BY <1>1, <1>2, <1>3, <1>4, <1>5, <1>6, <1>7, <1>8, <1>9, <1>10, <1>11, <1>12
     DEF Next, ProbeStep

(* The probe's variables keep their types, and in particular a run makes   *)
(* no more rounds than it was asked for.                                   *)
THEOREM TypeCorrect == Spec => []TypeOK
BY TypeInit, TypeStep, PTL DEF Spec

-----------------------------------------------------------------------------
(* Whose match.                                                            *)

(* The chains that the run in progress has left are of lower ids.          *)
MineLower ==
  \A c \in left : c.mine => pc # "connect" /\ (pc # "off" => c.id < Pid)

LEMMA MineStep == TypeOK /\ MineLower /\ [Next]_vars => MineLower'
<1> SUFFICES ASSUME TypeOK, MineLower, [Next]_vars PROVE MineLower'
  OBVIOUS
<1>t. base \in Nat /\ (pc # "off" => round \in Nat)
  BY BasesNat DEF TypeOK
<1>1. CASE Start
  <2>1. \A c \in left' : ~c.mine
    BY <1>1 DEF Start, TypeOK, Chains
  <2> QED
    BY <2>1 DEF MineLower
<1>2. CASE Connect
  BY <1>2 DEF Connect, MineLower
<1>3. CASE Sample
  <2>1. CASE round + 1 = rounds
    BY <1>3, <2>1 DEF Sample, Over, MineLower
  <2>2. CASE round + 1 # rounds
    <3>1. /\ pc = "sample" /\ pc' = "open" /\ round' = round + 1 /\ base' = base
          /\ LeaveChain
      BY <1>3, <2>2 DEF Sample, runVars
    <3>2. \A c \in left' : c \in left \/ c.id = Pid
      BY <3>1 DEF LeaveChain
    <3>3. Pid \in Nat /\ Pid' = Pid + 1
      BY <1>t, <3>1 DEF Pid
    <3>4. \A c \in left : c.id \in Nat
      BY DEF TypeOK, Chains
    <3> QED
      BY <3>1, <3>2, <3>3, <3>4 DEF MineLower
  <2> QED
    BY <2>1, <2>2
<1>4. CASE End
  BY <1>4 DEF End, Over, MineLower
<1>5. CASE ShowsLate
  <2>1. UNCHANGED <<pc, base, round>>
    BY <1>5 DEF ShowsLate, runVars, roundVars
  <2>2. \A c \in left' : \E d \in left : d.id = c.id /\ d.mine = c.mine
    BY <1>5 DEF ShowsLate, TypeOK, Chains
  <2> QED
    BY <2>1, <2>2 DEF MineLower, Pid
<1>6. CASE Rebuilt
  BY <1>6 DEF Rebuilt, MineLower
<1>7. CASE Open \/ Write \/ Poll \/ WriteSentinel \/ Fails \/ Tick \/ LoadRow \/ LoadChanges
           \/ UNCHANGED vars
  <2>1. UNCHANGED <<left, base, round>>
    BY <1>7 DEF Open, Write, Poll, WriteSentinel, Fails, Tick, LoadRow, LoadChanges, vars, runVars,
                roundVars
  <2>2. pc' # "connect" \/ pc' = pc
    BY <1>7 DEF Open, Write, Poll, WriteSentinel, Fails, Tick, LoadRow, LoadChanges, vars
  <2>3. pc' = "off" \/ pc # "off"
    BY <1>7 DEF Open, Write, Poll, WriteSentinel, Fails, Tick, LoadRow, LoadChanges, vars
  <2> QED
    BY <2>1, <2>2, <2>3 DEF MineLower, Pid
<1> QED
  BY <1>1, <1>2, <1>3, <1>4, <1>5, <1>6, <1>7 DEF Next, ProbeStep

LEMMA OwnMatchStep ==
  ASSUME TypeOK, MineLower, [Next]_vars, pc = "poll", pc' = "sample", own # "visible"
  PROVE  \E c \in left :
           /\ c.id = Pid /\ c.shown /\ ~c.mine
           /\ c.base = base \/ ~InBlock(Pid, base) \/ ~InBlock(Pid, c.base)
<1>1. Poll
  BY DEF Next, ProbeStep, vars, Start, Connect, Open, Write, WriteSentinel, Sample, Fails, End,
         Tick, LoadRow, LoadChanges, ShowsLate, Rebuilt
<1>2. Seen
  BY <1>1 DEF Poll
<1>3. PICK c \in left : c.id = Pid /\ c.shown
  BY <1>2 DEF Seen
<1>4. c.base \in Bases /\ base \in Bases /\ Pid \in Nat
  BY BasesNat DEF TypeOK, Chains, Pid
<1>5. ~c.mine
  BY <1>3, <1>4 DEF MineLower
<1> QED
  BY <1>3, <1>4, <1>5, BlocksDisjoint

(* A round is timed by its own match unless its run shares a second with   *)
(* an earlier one or a run outgrew its block.                              *)
THEOREM TimedByItsOwn == Spec => OwnMatch
<1>1. Init => MineLower
  BY DEF Init, MineLower
<1>2. TypeOK /\ MineLower /\ [Next]_vars => MineLower'
  BY MineStep
<1>3. TypeOK /\ MineLower /\ [Next]_vars
        => (pc = "poll" /\ pc' = "sample" /\ own # "visible"
              => \E c \in left :
                   /\ c.id = Pid /\ c.shown /\ ~c.mine
                   /\ c.base = base \/ ~InBlock(Pid, base) \/ ~InBlock(Pid, c.base))
  BY OwnMatchStep
<1> QED
  BY <1>1, <1>2, <1>3, TypeCorrect, PTL DEF Spec, OwnMatch

-----------------------------------------------------------------------------
(* The timeout.                                                            *)

(* A chain that waits for the watermark waits because no row written since *)
(* is Lateness newer, and with sentinels there was one not long ago.       *)
Waiting ==
  /\ pc \in Polling => own \in {"written", "visible", "gone"}
  /\ pc \in {"poll", "sentinel", "sleep"} /\ own = "written" =>
       /\ elapsed <= Lateness + quiet
       /\ sentinel =>
            /\ pc = "sleep" => quiet <= polls
            /\ pc = "poll" => quiet <= polls + 1
            /\ pc = "sentinel" => quiet <= SentinelEvery

LEMMA WaitingStep == TypeOK /\ Waiting /\ [Next]_vars => Waiting'
<1> SUFFICES ASSUME TypeOK, Waiting, [Next]_vars PROVE Waiting'
  OBVIOUS
<1> USE DEF TypeOK, runVars, roundVars
<1>t. /\ SentinelEvery \in Nat \ {0} /\ Lateness \in Nat /\ Timeout \in Nat
      /\ quiet \in Nat /\ elapsed \in Nat /\ polls \in Nat
  BY ScaleAssumption DEF Late
<1>1. CASE Start \/ Connect \/ Open \/ Fails \/ End \/ Sample
  BY <1>1 DEF Start, Connect, Open, Fails, End, Sample, Over, Waiting, Polling
<1>2. CASE Write
  BY <1>2, <1>t DEF Write, Waiting, Polling
<1>3. CASE Poll
  <2>1. CASE Seen \/ TimesOut
    BY <1>3, <2>1 DEF Poll, Waiting, Polling
  <2>2. CASE ~Seen /\ ~TimesOut
    <3>1. polls' = IF polls + 1 = SentinelEvery THEN 0 ELSE polls + 1
      BY <1>3, <2>2, ModOfNext, <1>t DEF Poll
    <3>2. pc' = IF sentinel /\ polls' = 0 THEN "sentinel" ELSE "sleep"
      BY <1>3, <2>2 DEF Poll
    <3>3. UNCHANGED <<quiet, elapsed, own, sentinel>> /\ pc = "poll"
      BY <1>3 DEF Poll
    <3>4. own = "written" /\ sentinel => quiet <= polls + 1 /\ polls + 1 <= SentinelEvery
      BY <3>3, <1>t DEF Waiting
    <3> QED
      BY <3>1, <3>2, <3>3, <3>4, <1>t DEF Waiting, Polling
  <2> QED
    BY <2>1, <2>2
<1>4. CASE WriteSentinel
  BY <1>4, <1>t DEF WriteSentinel, RowAt, Waiting, Polling
<1>5. CASE LoadRow
  BY <1>5, <1>t DEF LoadRow, RowAt, Waiting, Polling
<1>6. CASE Tick
  <2>1. CASE pc = "sleep"
    <3>1. /\ pc' = "poll" /\ UNCHANGED <<polls, own, sentinel>>
          /\ elapsed' = Capped(elapsed + 1) /\ quiet' = Capped(quiet + 1)
      BY <1>6, <2>1 DEF Tick
    <3>2. own = "written" => elapsed' <= Lateness + quiet' /\ (sentinel => quiet' <= polls + 1)
      BY <2>1, <3>1, <1>t DEF Capped, Late, Waiting
    <3> QED
      BY <2>1, <3>1, <3>2 DEF Waiting, Polling
  <2>2. CASE pc # "sleep"
    BY <1>6, <2>2 DEF Tick, Waiting, Polling
  <2> QED
    BY <2>1, <2>2
<1>7. CASE LoadChanges \/ ShowsLate \/ UNCHANGED vars
  BY <1>7 DEF LoadChanges, ShowsLate, vars, Waiting, Polling
<1>8. CASE Rebuilt
  BY <1>8 DEF Rebuilt, Waiting, Polling
<1> QED
  BY <1>1, <1>2, <1>3, <1>4, <1>5, <1>6, <1>7, <1>8 DEF Next, ProbeStep

LEMMA StarvedStep ==
  ASSUME TypeOK, Waiting, [Next]_vars, pc = "poll", pc' = "timedout"
  PROVE  own = "gone" \/ (~sentinel /\ elapsed - quiet <= Lateness)
<1>1. Poll
  BY DEF Next, ProbeStep, vars, Start, Connect, Open, Write, WriteSentinel, Sample, Fails, End,
         Tick, LoadRow, LoadChanges, ShowsLate, Rebuilt
<1>2. ~Seen /\ TimesOut
  BY <1>1 DEF Poll
<1>3. SUFFICES ASSUME own # "gone" PROVE ~sentinel /\ elapsed - quiet <= Lateness
  OBVIOUS
<1>4. own = "written"
  BY <1>2, <1>3 DEF Seen, Waiting, Polling
<1>t. /\ SentinelEvery \in Nat \ {0} /\ Lateness \in Nat /\ Timeout \in Nat
      /\ quiet \in Nat /\ elapsed \in Nat /\ polls \in 0 .. SentinelEvery - 1
  BY ScaleAssumption DEF Late, TypeOK
<1>5. elapsed <= Lateness + quiet /\ (sentinel => quiet <= polls + 1)
  BY <1>4 DEF Waiting
<1> QED
  BY <1>2, <1>5, <1>t, TimeoutAssumption DEF TimesOut

(* With sentinels no round times out, and without them only one that was   *)
(* starved of rows, unless the tables were dropped under it.               *)
THEOREM TimeoutsAreStarved == Spec => TimedOutMeansStarved
<1>1. Init => Waiting
  BY DEF Init, Waiting, Polling
<1>2. TypeOK /\ Waiting /\ [Next]_vars => Waiting'
  BY WaitingStep
<1>3. TypeOK /\ Waiting /\ [Next]_vars
        => (pc = "poll" /\ pc' = "timedout"
              => own = "gone" \/ (~sentinel /\ elapsed - quiet <= Lateness))
  BY StarvedStep
<1> QED
  BY <1>1, <1>2, <1>3, TypeCorrect, PTL DEF Spec, TimedOutMeansStarved
=================================================================================
