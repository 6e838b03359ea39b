----------------------------- MODULE MetersProofs -----------------------------
(***************************************************************************)
(* What holds of the meters for any window, target rate and resolution of  *)
(* the clock, and any number of rows, ticks, samples and alerts.           *)
(*                                                                         *)
(* The sampler's bound needs no sums; the rate's honesty needs the sums of *)
(* samples that Totals computes by recursion, and the percentiles' order   *)
(* the values that InOrder chooses.  Both rest on the first lemmas, which  *)
(* get induction out of the fact that < is well-founded on the naturals.   *)
(***************************************************************************)
EXTENDS Meters, SequenceTheorems, FiniteSetTheorems, WellFoundedInduction, TLAPS

(* The naturals.                                                           *)

(* A set of naturals that is not empty has a least one.                    *)
LEMMA LeastNatural ==
  ASSUME NEW T, T \subseteq Nat, T # {}
  PROVE  \E x \in T : \A y \in T : x <= y
<1>1. PICK x \in T : \A y \in T : <<y, x>> \notin OpToRel(<, Nat)
  BY NatLessThanWellFounded, WFMin
<1>2. ASSUME NEW y \in T PROVE x <= y
  <2>1. x \in Nat /\ y \in Nat
    OBVIOUS
  <2>2. y < x => <<y, x>> \in OpToRel(<, Nat)
    BY <2>1 DEF OpToRel
  <2>3. ~(y < x)
    BY <1>1, <2>2
  <2> QED
    BY <2>1, <2>3
<1> QED
  BY <1>2

(* Induction: a set that has 0 and every successor has the naturals.       *)
LEMMA NatInductionOnSets ==
  ASSUME NEW S, 0 \in S, \A n \in Nat : n \in S => n + 1 \in S
  PROVE  Nat \subseteq S
<1> SUFFICES ASSUME Nat \ S # {} PROVE FALSE
  OBVIOUS
<1>1. PICK x \in Nat \ S : \A y \in Nat \ S : x <= y
  BY LeastNatural
<1>2. x - 1 \in Nat /\ x = (x - 1) + 1 /\ ~(x <= x - 1)
  BY <1>1
<1> QED
  BY <1>1, <1>2

(* And a greatest one, when something bounds them.                         *)
LEMMA GreatestNatural ==
  ASSUME NEW T, T \subseteq Nat, T # {}, NEW b \in Nat, \A y \in T : y <= b
  PROVE  \E x \in T : \A y \in T : y <= x
<1> DEFINE U == {u \in Nat : \A y \in T : y <= u}
<1>1. PICK u \in U : \A v \in U : u <= v
  <2>1. U \subseteq Nat /\ b \in U
    OBVIOUS
  <2> HIDE DEF U
  <2> QED
    BY <2>1, LeastNatural
<1>2. ASSUME u \notin T PROVE FALSE
  <2>1. PICK y \in T : TRUE
    OBVIOUS
  <2>2. y \in Nat /\ u \in Nat /\ y <= u /\ y # u
    BY <1>1, <1>2
  <2>3. u - 1 \in Nat
    BY <2>2
  <2>4. \A z \in T : z <= u - 1
    BY <1>1, <1>2, <2>2
  <2> QED
    BY <1>1, <2>2, <2>3, <2>4
<1> QED
  BY <1>1, <1>2

-----------------------------------------------------------------------------
(* The sampler.                                                            *)

LEMMA Distributes ==
  ASSUME NEW a \in Int, NEW b \in Int, NEW k \in Int
  PROVE  (a + b) * k = a * k + b * k /\ a * k \in Int
OBVIOUS

LEMMA Sizes ==
  /\ Unit \in Nat \ {0} /\ Target \in Nat
  /\ Capacity \in Nat /\ Unit <= Capacity
<1>1. Unit \in Nat \ {0} /\ Target \in Nat
  BY SizesAssumption
<1>2. CASE Target > 1
  <2>1. PICK k \in Nat : Target = 1 + k
    <3>1. Target - 1 \in Nat /\ Target = 1 + (Target - 1)
      BY <1>1, <1>2
    <3> QED
      BY <3>1
  <2>2. Target * Unit = Unit + k * Unit /\ k * Unit \in Nat
    BY <1>1, <2>1
  <2> QED
    BY <1>1, <1>2, <2>2 DEF Capacity
<1>3. CASE ~(Target > 1)
  BY <1>1, <1>3 DEF Capacity
<1> QED
  BY <1>1, <1>2, <1>3

-----------------------------------------------------------------------------
(* The invariant: what was forwarded from the i-th on and what is in the   *)
(* bucket came out of a full bucket and what was filled in since.          *)
SamplerTypes ==
  /\ now \in Nat
  /\ tokens \in Nat /\ tokens <= Capacity
  /\ lastT \in Nat \cup {None}
  /\ lastT # None => lastT <= now
  /\ forwarded \in Seq(Nat)
  /\ forwarded # <<>> => lastT # None
  /\ lags \in Nat

Spent(i) ==
  (Len(forwarded) - i + 1) * Unit + tokens <= Capacity + (lastT - forwarded[i]) * Target

Balanced == SamplerTypes /\ (\A i \in DOMAIN forwarded : Spent(i)) /\ SamplerBound

LEMMA BalancedInit == Init => Balanced
<1> SUFFICES ASSUME Init PROVE Balanced
  OBVIOUS
<1>1. forwarded = <<>> /\ DOMAIN forwarded = {}
  BY DEF Init
<1> QED
  BY <1>1, Sizes DEF Init, Balanced, SamplerTypes, SamplerBound

(* What the bucket holds when an alert comes.                              *)
LEMMA FilledBounded ==
  ASSUME SamplerTypes
  PROVE  /\ Filled \in Nat /\ Filled <= Capacity
         /\ lastT # None => Filled <= tokens + (now - lastT) * Target
<1>1. CASE lastT = None
  BY <1>1 DEF Filled, SamplerTypes
<1>2. CASE lastT # None
  <2>1. now - lastT \in Nat
    BY <1>2, NoneAssumption DEF SamplerTypes
  <2>2. (now - lastT) * Target \in Nat
    BY <2>1, Sizes
  <2> QED
    BY <1>2, <2>2, Sizes DEF Filled, SamplerTypes
<1> QED
  BY <1>1, <1>2

LEMMA FilledSpent ==
  ASSUME SamplerTypes, NEW i \in DOMAIN forwarded, Spent(i)
  PROVE  /\ forwarded[i] \in Nat /\ Len(forwarded) \in Nat /\ i \in 1 .. Len(forwarded)
         /\ (Len(forwarded) - i + 1) * Unit \in Int
         /\ (now - forwarded[i]) * Target \in Int
         /\ (Len(forwarded) - i + 1) * Unit + Filled <= Capacity + (now - forwarded[i]) * Target
<1>1. /\ forwarded[i] \in Nat /\ Len(forwarded) \in Nat /\ i \in 1 .. Len(forwarded)
      /\ lastT \in Nat /\ now \in Nat /\ tokens \in Nat
  BY DEF SamplerTypes
<1>2. (now - forwarded[i]) * Target = (now - lastT) * Target + (lastT - forwarded[i]) * Target
  <2>1. now - forwarded[i] = (now - lastT) + (lastT - forwarded[i])
    BY <1>1
  <2>2. now - lastT \in Int /\ lastT - forwarded[i] \in Int
    BY <1>1
  <2> QED
    BY <2>1, <2>2, Distributes, Sizes
<1>3. /\ (Len(forwarded) - i + 1) * Unit \in Int
      /\ (now - lastT) * Target \in Int /\ (lastT - forwarded[i]) * Target \in Int
      /\ (now - forwarded[i]) * Target \in Int
  BY <1>1, Sizes
<1>4. Filled \in Nat /\ Filled <= tokens + (now - lastT) * Target
  BY FilledBounded, <1>1, NoneAssumption
<1> DEFINE owed == (Len(forwarded) - i + 1) * Unit
           before == (lastT - forwarded[i]) * Target
           since == (now - lastT) * Target
<1>5. owed \in Int /\ before \in Int /\ since \in Int /\ owed + tokens <= Capacity + before
  BY <1>3 DEF Spent
<1>6. owed + Filled <= Capacity + (since + before)
  <2>1. Filled <= tokens + since
    BY <1>4
  <2> HIDE DEF owed, before, since
  <2> QED
    BY <1>1, <1>4, <1>5, <2>1, Sizes
<1> QED
  BY <1>1, <1>2, <1>3, <1>6

LEMMA AlertBalanced ==
  ASSUME Balanced, Alert
  PROVE  Balanced'
<1> DEFINE n == Len(forwarded)
<1>1. /\ SamplerTypes /\ forwarded \in Seq(Nat) /\ now \in Nat /\ n \in Nat
      /\ DOMAIN forwarded = 1 .. n
      /\ Filled \in Nat /\ Filled <= Capacity
  BY FilledBounded DEF Balanced, SamplerTypes
<1>2. lastT' = now /\ now' = now /\ lags' = 0
  BY DEF Alert, SocketEvent, Event
<1>3. \A i \in 1 .. n :
        /\ forwarded[i] \in Nat
        /\ (n - i + 1) * Unit \in Int /\ (now - forwarded[i]) * Target \in Int
        /\ (n - i + 1) * Unit + Filled <= Capacity + (now - forwarded[i]) * Target
  BY <1>1, FilledSpent DEF Balanced
<1>n. now # None
  BY <1>1, NoneAssumption
<1>4. CASE Filled >= Unit
  <2>1. tokens' = Filled - Unit /\ forwarded' = Append(forwarded, now)
    BY <1>4 DEF Alert
  <2>2. /\ forwarded' \in Seq(Nat) /\ Len(forwarded') = n + 1
        /\ DOMAIN forwarded' = 1 .. n + 1
        /\ forwarded'[n + 1] = now
        /\ \A i \in 1 .. n : forwarded'[i] = forwarded[i]
    BY <1>1, <2>1
  <2>3. SamplerTypes'
    BY <1>1, <1>2, <1>n, <1>4, <2>1, <2>2, Sizes DEF SamplerTypes
  <2>4. \A i \in 1 .. n : (n + 1 - i + 1) * Unit = (n - i + 1) * Unit + Unit
    <3>1. TAKE i \in 1 .. n
    <3>2. n - i + 1 \in Int /\ n + 1 - i + 1 = (n - i + 1) + 1
      BY <1>1
    <3>3. 1 * Unit = Unit
      BY Sizes
    <3> QED
      BY <3>2, <3>3, Distributes, Sizes
  <2>5. ASSUME NEW i \in DOMAIN forwarded' PROVE Spent(i)'
    <3>1. CASE i \in 1 .. n
      BY <1>1, <1>2, <1>3, <1>4, <2>1, <2>2, <2>4, <3>1, Sizes DEF Spent
    <3>2. CASE i = n + 1
      <4>1. (n + 1 - i + 1) * Unit = Unit /\ (now - now) * Target = 0
        BY <1>1, <3>2, Sizes
      <4> QED
        BY <1>1, <1>2, <1>4, <2>1, <2>2, <3>2, <4>1, Sizes DEF Spent
    <3> QED
      BY <1>1, <2>2, <3>1, <3>2
  <2>6. SamplerBound'
    <3>1. SUFFICES ASSUME NEW i \in 1 .. n + 1, NEW j \in 1 .. n + 1, i <= j
                   PROVE  (j - i + 1) * Unit
                            <= Capacity + (forwarded'[j] - forwarded'[i]) * Target
      BY <2>2 DEF SamplerBound, Capacity
    <3>2. CASE j \in 1 .. n
      <4>1. i \in 1 .. n
        BY <1>1, <3>1, <3>2
      <4> QED
        BY <1>1, <2>2, <3>1, <3>2, <4>1 DEF Balanced, SamplerBound
    <3>3. CASE j = n + 1
      <4>1. Spent(i)'
        BY <2>2, <2>5
      <4>2. (n + 1 - i + 1) * Unit + (Filled - Unit)
              <= Capacity + (now - forwarded'[i]) * Target
        BY <1>2, <2>1, <2>2, <4>1 DEF Spent, Capacity
      <4>3. forwarded'[i] \in Nat
        BY <2>2
      <4>4. (n + 1 - i + 1) * Unit \in Int /\ (now - forwarded'[i]) * Target \in Int
        BY <1>1, <4>3, Sizes
      <4> QED
        BY <1>1, <1>4, <2>2, <3>3, <4>2, <4>4, Sizes
    <3> QED
      BY <1>1, <3>2, <3>3
  <2> QED
    BY <2>3, <2>5, <2>6 DEF Balanced
<1>5. CASE ~(Filled >= Unit)
  <2>1. tokens' = Filled /\ forwarded' = forwarded
    BY <1>5 DEF Alert
  <2>2. SamplerTypes'
    BY <1>1, <1>2, <1>n, <2>1 DEF SamplerTypes, Capacity
  <2>3. ASSUME NEW i \in DOMAIN forwarded' PROVE Spent(i)'
    BY <1>1, <1>2, <1>3, <2>1 DEF Spent, Capacity
  <2>4. SamplerBound'
    BY <2>1 DEF Balanced, SamplerBound, Capacity
  <2> QED
    BY <2>2, <2>3, <2>4 DEF Balanced
<1> QED
  BY <1>4, <1>5

LEMMA BalancedStep == Balanced /\ [Next]_vars => Balanced'
<1> SUFFICES ASSUME Balanced, [Next]_vars PROVE Balanced'
  OBVIOUS
<1>1. CASE Alert
  BY <1>1, AlertBalanced
<1>2. ASSUME UNCHANGED samplerVars, now' \in Nat, now' >= now, lags' \in Nat
      PROVE  Balanced'
  BY <1>2, NoneAssumption
     DEF samplerVars, Balanced, SamplerTypes, Spent, SamplerBound, Capacity
<1>3. CASE Advance \/ Lagged
  <2>1. Delay \in Nat
    BY SizesAssumption DEF Balanced, SamplerTypes, Delay, Least
  <2> QED
    BY <1>2, <1>3, <2>1 DEF Advance, Lagged, Balanced, SamplerTypes
<1>4. CASE \/ RunChanges \/ RunWrites \/ AggTick
           \/ (\E ms \in 1 .. 3 : Push(ms)) \/ Percentiles \/ NewLatencies
           \/ OtherEvent \/ UNCHANGED vars
  <2>1. UNCHANGED samplerVars /\ now' = now /\ lags' \in {lags, 0}
    BY <1>4 DEF RunChanges, RunWrites, AggTick, Push, Percentiles, NewLatencies, OtherEvent,
         RateEvent, LatencyEvent, SocketEvent, Event, vars
  <2> QED
    BY <1>2, <2>1 DEF Balanced, SamplerTypes
<1> QED
  BY <1>1, <1>3, <1>4 DEF Next

(* For any target rate: between any two alerts a socket forwards, it       *)
(* forwards no more than a full bucket and the target allow.               *)
THEOREM ForwardsWithinTarget == Spec => []SamplerBound
<1>1. Balanced => SamplerBound
  BY DEF Balanced
<1> QED
  BY <1>1, BalancedInit, BalancedStep, PTL DEF Spec

-----------------------------------------------------------------------------
(* What a sample adds to the sum.                                          *)
Weight(s, cutoff) == IF s.at >= cutoff THEN s.n ELSE 0

(* The recursion of Totals defines a function.                             *)
LEMMA TotalsExist ==
  ASSUME NEW w \in Seq(Sample), NEW c \in Int
  PROVE  \E f : f = [i \in 0 .. Len(w) |-> IF i = 0 THEN 0
                        ELSE f[i - 1] + (IF w[i].at >= c THEN w[i].n ELSE 0)]
<1> DEFINE Step(f, i) == IF i = 0 THEN 0 ELSE f[i - 1] + (IF w[i].at >= c THEN w[i].n ELSE 0)
           S == {n \in Nat : \E f : f = [i \in 0 .. n |-> Step(f, i)]}
<1>1. 0 \in S
  <2>1. [i \in 0 .. 0 |-> 0] = [i \in 0 .. 0 |-> Step([j \in 0 .. 0 |-> 0], i)]
    OBVIOUS
  <2> QED
    BY <2>1
<1>2. ASSUME NEW n \in Nat, n \in S PROVE n + 1 \in S
  <2>1. PICK f : f = [i \in 0 .. n |-> Step(f, i)]
    BY <1>2
  <2> DEFINE g == [i \in 0 .. n + 1 |-> IF i = n + 1 THEN Step(f, n + 1) ELSE f[i]]
  <2>2. ASSUME NEW i \in 0 .. n + 1 PROVE g[i] = Step(g, i)
    <3>1. CASE i = n + 1
      BY <3>1
    <3>2. CASE i = 0
      BY <2>1, <3>2
    <3>3. CASE i \in 1 .. n
      <4>1. g[i] = f[i] /\ g[i - 1] = f[i - 1]
        BY <3>3
      <4>2. f[i] = Step(f, i)
        BY <2>1, <3>3
      <4> QED
        BY <3>3, <4>1, <4>2
    <3> QED
      BY <3>1, <3>2, <3>3
  <2>3. g = [i \in 0 .. n + 1 |-> Step(g, i)]
    BY <2>2
  <2> HIDE DEF g
  <2> QED
    BY <2>3
<1>3. Nat \subseteq S
  <2> HIDE DEF S
  <2> QED
    BY <1>1, <1>2, NatInductionOnSets
<1> QED
  BY <1>3

(* The sum of the first k samples, of those not before the cutoff.         *)
SumTo(w, cutoff, k) == Totals(w, cutoff)[k]

(* So its sums start from nothing and grow by each sample.                 *)
LEMMA TotalsDef ==
  ASSUME NEW w \in Seq(Sample), NEW c \in Int
  PROVE  /\ SumTo(w, c, 0) = 0
         /\ \A i \in 1 .. Len(w) : SumTo(w, c, i) = SumTo(w, c, i - 1) + Weight(w[i], c)
<1> DEFINE t == Totals(w, c)
<1>1. t = [i \in 0 .. Len(w) |-> IF i = 0 THEN 0
                        ELSE t[i - 1] + (IF w[i].at >= c THEN w[i].n ELSE 0)]
  BY TotalsExist DEF Totals
<1>2. Len(w) \in Nat
  OBVIOUS
<1> QED
  BY <1>1, <1>2 DEF Weight, SumTo

LEMMA Samples ==
  ASSUME NEW w \in Seq(Sample)
  PROVE  /\ Len(w) \in Nat /\ DOMAIN w = 1 .. Len(w)
         /\ \A i \in 1 .. Len(w) : w[i] \in Sample /\ w[i].at \in Nat /\ w[i].n \in Nat
<1>1. Len(w) \in Nat /\ DOMAIN w = 1 .. Len(w)
  BY LenProperties
<1>2. ASSUME NEW i \in 1 .. Len(w)
      PROVE  w[i] \in Sample /\ w[i].at \in Nat /\ w[i].n \in Nat
  <2>1. w[i] \in Sample
    BY ElementOfSeq
  <2> QED
    BY <2>1 DEF Sample
<1> QED
  BY <1>1, <1>2

LEMMA Weights ==
  ASSUME NEW w \in Seq(Sample), NEW c \in Int
  PROVE  \A i \in 1 .. Len(w) : Weight(w[i], c) \in Nat
BY Samples DEF Weight

LEMMA TotalsType ==
  ASSUME NEW w \in Seq(Sample), NEW c \in Int
  PROVE  \A i \in 0 .. Len(w) : SumTo(w, c, i) \in Nat
<1> DEFINE t(i) == SumTo(w, c, i)
           S == {n \in Nat : n <= Len(w) => t(n) \in Nat}
<1>1. Len(w) \in Nat /\ \A i \in 1 .. Len(w) : Weight(w[i], c) \in Nat
  BY Samples, Weights
<1>2. t(0) = 0 /\ \A i \in 1 .. Len(w) : t(i) = t(i - 1) + Weight(w[i], c)
  BY TotalsDef
<1> HIDE DEF t
<1>3. 0 \in S
  BY <1>2
<1>4. ASSUME NEW n \in Nat, n \in S PROVE n + 1 \in S
  <2> SUFFICES ASSUME n + 1 <= Len(w) PROVE t(n + 1) \in Nat
    OBVIOUS
  <2>1. t(n) \in Nat /\ n + 1 \in 1 .. Len(w) /\ (n + 1) - 1 = n
    BY <1>1, <1>4
  <2> QED
    BY <1>1, <1>2, <2>1
<1>5. Nat \subseteq S
  <2> HIDE DEF S
  <2> QED
    BY <1>3, <1>4, NatInductionOnSets
<1> QED
  BY <1>1, <1>5 DEF t

(* The k samples of w after the m-th weigh what the first k of v do.       *)
Alike(w, c, m, v, d, k) ==
  /\ m + k <= Len(w) /\ k <= Len(v)
  /\ \A i \in 1 .. k : Weight(w[m + i], c) = Weight(v[i], d)

(* Stretches of samples that weigh the same add the same.                  *)
LEMMA SameTotals ==
  ASSUME NEW w \in Seq(Sample), NEW v \in Seq(Sample), NEW c \in Int, NEW d \in Int,
         NEW m \in Nat, NEW k \in Nat, Alike(w, c, m, v, d, k), NEW e \in Nat, e = m + k
  PROVE  SumTo(w, c, e) = SumTo(w, c, m) + SumTo(v, d, k)
<1> DEFINE t(i) == SumTo(w, c, i)
           u(i) == SumTo(v, d, i)
           S == {n \in Nat : n <= k => t(m + n) = t(m) + u(n)}
<1>1. /\ Len(w) \in Nat /\ Len(v) \in Nat
      /\ \A i \in 1 .. Len(v) : Weight(v[i], d) \in Nat
  BY Samples, Weights
<1>2. /\ \A i \in 1 .. Len(w) : t(i) = t(i - 1) + Weight(w[i], c)
      /\ u(0) = 0 /\ \A i \in 1 .. Len(v) : u(i) = u(i - 1) + Weight(v[i], d)
      /\ \A i \in 0 .. Len(w) : t(i) \in Nat
      /\ \A i \in 0 .. Len(v) : u(i) \in Nat
  BY TotalsDef, TotalsType
<1>a. /\ m + k <= Len(w) /\ k <= Len(v)
      /\ \A i \in 1 .. k : Weight(w[m + i], c) = Weight(v[i], d)
  BY DEF Alike
<1> HIDE DEF t, u
<1>3. 0 \in S
  <2>1. m \in 0 .. Len(w) /\ m + 0 = m /\ t(m) \in Nat
    BY <1>1, <1>2, <1>a
  <2> QED
    BY <1>2, <2>1
<1>4. ASSUME NEW n \in Nat, n \in S PROVE n + 1 \in S
  <2> SUFFICES ASSUME n + 1 <= k PROVE t(m + (n + 1)) = t(m) + u(n + 1)
    OBVIOUS
  <2>1. t(m + n) = t(m) + u(n)
    BY <1>4
  <2>2. /\ m + (n + 1) \in 1 .. Len(w) /\ m + (n + 1) - 1 = m + n
        /\ n + 1 \in 1 .. Len(v) /\ n + 1 - 1 = n /\ n + 1 \in 1 .. k
        /\ m \in 0 .. Len(w) /\ n \in 0 .. Len(v)
    BY <1>1, <1>a
  <2>3. /\ t(m + (n + 1)) = t(m + n) + Weight(w[m + (n + 1)], c)
        /\ u(n + 1) = u(n) + Weight(v[n + 1], d)
        /\ Weight(w[m + (n + 1)], c) = Weight(v[n + 1], d)
        /\ Weight(v[n + 1], d) \in Nat /\ t(m) \in Nat /\ u(n) \in Nat
    BY <1>1, <1>2, <1>a, <2>2
  <2> QED
    BY <2>1, <2>3
<1>5. Nat \subseteq S
  <2> HIDE DEF S
  <2> QED
    BY <1>3, <1>4, NatInductionOnSets
<1> QED
  BY <1>5 DEF t, u

(* Samples of before the cutoff add nothing.                               *)
LEMMA NoTotals ==
  ASSUME NEW w \in Seq(Sample), NEW c \in Int, NEW k \in 0 .. Len(w),
         \A i \in 1 .. k : w[i].at < c
  PROVE  SumTo(w, c, k) = 0
<1> DEFINE t(i) == SumTo(w, c, i)
           S == {n \in Nat : n <= k => t(n) = 0}
<1>1. /\ Len(w) \in Nat /\ k \in Nat
      /\ \A i \in 1 .. Len(w) : w[i].at \in Nat
  BY Samples
<1>2. t(0) = 0 /\ \A i \in 1 .. Len(w) : t(i) = t(i - 1) + Weight(w[i], c)
  BY TotalsDef
<1> HIDE DEF t
<1>3. 0 \in S
  BY <1>2
<1>4. ASSUME NEW n \in Nat, n \in S PROVE n + 1 \in S
  <2> SUFFICES ASSUME n + 1 <= k PROVE t(n + 1) = 0
    OBVIOUS
  <2>1. t(n) = 0 /\ n + 1 \in 1 .. Len(w) /\ n + 1 \in 1 .. k /\ (n + 1) - 1 = n
    BY <1>1, <1>4
  <2>2. Weight(w[n + 1], c) = 0
    BY <1>1, <2>1 DEF Weight
  <2> QED
    BY <1>2, <2>1, <2>2
<1>5. Nat \subseteq S
  <2> HIDE DEF S
  <2> QED
    BY <1>3, <1>4, NatInductionOnSets
<1> QED
  BY <1>1, <1>5 DEF t

-----------------------------------------------------------------------------
(* The sum of the samples not before the cutoff.                           *)
CountedSince(w, cutoff) == SumTo(w, cutoff, Len(w))

LEMMA CountNothing ==
  ASSUME NEW w \in Seq(Sample), NEW c \in Int, \A i \in DOMAIN w : w[i].at < c
  PROVE  CountedSince(w, c) = 0
BY NoTotals DEF CountedSince

(* RateWindow::record adds its sample to every sum that reaches it.        *)
LEMMA CountAppended ==
  ASSUME NEW w \in Seq(Sample), NEW s \in Sample, NEW c \in Int
  PROVE  /\ CountedSince(w, c) \in Nat
         /\ CountedSince(Append(w, s), c) = CountedSince(w, c) + Weight(s, c)
<1> DEFINE v == Append(w, s)
           n == Len(w)
<1>1. /\ v \in Seq(Sample) /\ n \in Nat /\ Len(v) = n + 1
      /\ v[n + 1] = s /\ \A i \in 1 .. n : v[i] = w[i]
  BY AppendProperties
<1> HIDE DEF v
<1>2. SumTo(v, c, n + 1) = SumTo(v, c, n) + Weight(s, c)
  <2>1. n + 1 \in 1 .. Len(v) /\ (n + 1) - 1 = n
    BY <1>1
  <2> QED
    BY <1>1, <2>1, TotalsDef
<1>3. SumTo(v, c, n) = SumTo(v, c, 0) + SumTo(w, c, n)
  <2>1. Alike(v, c, 0, w, c, n) /\ n = 0 + n /\ 0 \in Nat /\ n \in Nat /\ v \in Seq(Sample)
    BY <1>1 DEF Alike
  <2> HIDE DEF n
  <2> QED
    BY <2>1, SameTotals
<1>4. SumTo(v, c, 0) = 0 /\ SumTo(w, c, n) \in Nat
  BY <1>1, TotalsDef, TotalsType
<1> QED
  BY <1>1, <1>2, <1>3, <1>4 DEF CountedSince, v

(* Cutoffs with no sample between them sum the same.                       *)
LEMMA CountAlike ==
  ASSUME NEW w \in Seq(Sample), NEW c \in Int, NEW d \in Int,
         \A i \in DOMAIN w : w[i].at >= c <=> w[i].at >= d
  PROVE  CountedSince(w, c) = CountedSince(w, d)
<1> DEFINE n == Len(w)
<1>1. n \in Nat /\ \A i \in 1 .. n : Weight(w[0 + i], c) = Weight(w[i], d)
  BY DEF Weight
<1>2. SumTo(w, c, n) = SumTo(w, c, 0) + SumTo(w, d, n)
  <2>1. Alike(w, c, 0, w, d, n) /\ n = 0 + n /\ n \in Nat /\ 0 \in Nat
    BY <1>1 DEF Alike
  <2> HIDE DEF n
  <2> QED
    BY <2>1, SameTotals
<1>3. SumTo(w, c, 0) = 0 /\ SumTo(w, d, n) \in Nat
  BY <1>1, TotalsDef, TotalsType
<1> QED
  BY <1>1, <1>2, <1>3 DEF CountedSince

(* What is popped off the front is older than the cutoff, and what is left *)
(* begins with one that is not.                                            *)
LEMMA FromIs ==
  ASSUME NEW w \in Seq(Sample), NEW p \in Int
  PROVE  /\ From(w, p) \in Seq(Sample)
         /\ \E m \in 0 .. Len(w) :
              /\ Len(From(w, p)) = Len(w) - m
              /\ \A i \in 1 .. m : w[i].at < p
              /\ \A i \in 1 .. Len(w) - m : From(w, p)[i] = w[m + i]
              /\ m < Len(w) => w[m + 1].at >= p
<1> DEFINE fresh == {i \in DOMAIN w : w[i].at >= p}
<1>1. /\ Len(w) \in Nat /\ DOMAIN w = 1 .. Len(w)
      /\ \A i \in 1 .. Len(w) : w[i] \in Sample /\ w[i].at \in Nat
  BY Samples
<1>2. CASE fresh = {}
  <2>1. From(w, p) = <<>>
    BY <1>2 DEF From
  <2>2. \A i \in 1 .. Len(w) : w[i].at < p
    BY <1>1, <1>2
  <2>3. /\ From(w, p) \in Seq(Sample) /\ Len(w) \in 0 .. Len(w)
        /\ Len(From(w, p)) = Len(w) - Len(w)
        /\ \A i \in 1 .. Len(w) - Len(w) : From(w, p)[i] = w[Len(w) + i]
        /\ ~(Len(w) < Len(w))
    BY <1>1, <2>1
  <2> QED
    BY <2>2, <2>3
<1>3. CASE fresh # {}
  <2> DEFINE a == CHOOSE i \in fresh : \A j \in fresh : i <= j
  <2>1. a \in fresh /\ \A j \in fresh : a <= j
    <3>1. fresh \subseteq Nat
      BY <1>1
    <3> HIDE DEF fresh
    <3>2. \E i \in fresh : \A j \in fresh : i <= j
      BY <1>3, <3>1, LeastNatural
    <3> QED
      BY <3>2
  <2>2. From(w, p) = SubSeq(w, a, Len(w))
    BY <1>3 DEF From
  <2> HIDE DEF a
  <2>3. /\ a \in 1 .. Len(w) /\ w[a].at >= p
        /\ \A i \in 1 .. a - 1 : w[i].at < p
    BY <1>1, <2>1
  <2>4. /\ From(w, p) \in Seq(Sample)
        /\ Len(From(w, p)) = Len(w) - a + 1
        /\ \A i \in 1 .. Len(w) - a + 1 : From(w, p)[i] = w[a + i - 1]
    BY <1>1, <2>2, <2>3, SubSeqProperties
  <2> DEFINE m == a - 1
  <2>5. /\ m \in 0 .. Len(w) /\ Len(From(w, p)) = Len(w) - m
        /\ \A i \in 1 .. m : w[i].at < p
        /\ \A i \in 1 .. Len(w) - m : From(w, p)[i] = w[m + i]
        /\ m < Len(w) => w[m + 1].at >= p
    BY <1>1, <2>3, <2>4
  <2> HIDE DEF m
  <2> QED
    BY <2>4, <2>5
<1> QED
  BY <1>2, <1>3

(* Pruning loses nothing of a window that begins no earlier.               *)
LEMMA CountPruned ==
  ASSUME NEW w \in Seq(Sample), NEW p \in Int, NEW c \in Int, p <= c
  PROVE  CountedSince(From(w, p), c) = CountedSince(w, c)
<1> DEFINE v == From(w, p)
<1>1. PICK m \in 0 .. Len(w) :
        /\ Len(v) = Len(w) - m
        /\ \A i \in 1 .. m : w[i].at < p
        /\ \A i \in 1 .. Len(w) - m : v[i] = w[m + i]
  BY FromIs
<1>2. v \in Seq(Sample) /\ Len(w) \in Nat /\ \A i \in 1 .. Len(w) : w[i].at \in Nat
  BY FromIs, Samples
<1> HIDE DEF v
<1>3. SumTo(w, c, m) = 0
  BY <1>1, <1>2, NoTotals
<1>4. SumTo(w, c, Len(w)) = SumTo(w, c, m) + SumTo(v, c, Len(v))
  <2> DEFINE n == Len(w)
             k == Len(v)
  <2>1. /\ m \in Nat /\ k \in Nat /\ v \in Seq(Sample) /\ Alike(w, c, m, v, c, k)
        /\ n \in Nat /\ n = m + k
    BY <1>1, <1>2 DEF Alike
  <2> HIDE DEF n, k
  <2>2. SumTo(w, c, n) = SumTo(w, c, m) + SumTo(v, c, k)
    BY <2>1, SameTotals
  <2> QED
    BY <2>2 DEF n, k
<1>5. SumTo(v, c, Len(v)) \in Nat
  <2>1. Len(v) \in 0 .. Len(v)
    BY <1>2
  <2> QED
    BY <1>1, <1>2, <2>1, TotalsType
<1> QED
  BY <1>3, <1>4, <1>5 DEF CountedSince, v

-----------------------------------------------------------------------------
(* The invariant of the rate.  The window and the history are stamped with *)
(* times that have passed; a window that ends now or later sums the same   *)
(* in both; and what the ticks after one have counted, and what is yet to  *)
(* be counted, was written after it.                                       *)
RateTypes ==
  /\ now \in Nat /\ rows \in Nat \cup {None} /\ lastRows \in Nat /\ lags \in Nat
  /\ window \in Seq(Sample) /\ log \in Seq(Sample) /\ written \in Seq(Nat)

Stamped ==
  /\ \A i \in DOMAIN window : window[i].at <= now
  /\ \A i \in DOMAIN log : log[i].at <= now

NoneLost ==
  \A c \in Int : c + Window >= now => CountedSince(window, c) = CountedSince(log, c)

TickTimes == {-1} \cup {log[i].at : i \in DOMAIN log}

Covered == \A t \in TickTimes : CountedSince(log, t + 1) + Delta <= WrittenSince(t)

RateInv == RateTypes /\ Stamped /\ NoneLost /\ Covered

LEMMA RateSizes == Window \in Nat /\ None \notin Nat
BY SizesAssumption, NoneAssumption

(* The rows written since a time are finitely many,                        *)
LEMMA WrittenSinceIs ==
  ASSUME NEW s \in Seq(Nat), NEW t \in Int
  PROVE  /\ IsFiniteSet({i \in DOMAIN s : s[i] >= t})
         /\ Cardinality({i \in DOMAIN s : s[i] >= t}) \in Nat
<1>1. Len(s) \in Nat /\ DOMAIN s = 1 .. Len(s)
  BY LenProperties
<1>2. IsFiniteSet(1 .. Len(s))
  BY <1>1, FS_Interval
<1>3. IsFiniteSet({i \in DOMAIN s : s[i] >= t})
  BY <1>1, <1>2, FS_Subset
<1> QED
  BY <1>3, FS_CardinalityType

(* and one more when one is written after it.                              *)
LEMMA WrittenAppended ==
  ASSUME NEW s \in Seq(Nat), NEW t \in Int, NEW x \in Nat, x >= t
  PROVE  Cardinality({i \in DOMAIN Append(s, x) : Append(s, x)[i] >= t})
           = Cardinality({i \in DOMAIN s : s[i] >= t}) + 1
<1> DEFINE v == Append(s, x)
           n == Len(s)
           old == {i \in DOMAIN s : s[i] >= t}
<1>1. /\ n \in Nat /\ DOMAIN s = 1 .. n /\ DOMAIN v = 1 .. n + 1
      /\ v[n + 1] = x /\ \A i \in 1 .. n : v[i] = s[i]
  BY AppendProperties, LenProperties
<1> HIDE DEF v, n
<1>2. {i \in DOMAIN v : v[i] >= t} = old \cup {n + 1}
  BY <1>1
<1>3. IsFiniteSet(old) /\ n + 1 \notin old
  <2>1. IsFiniteSet(old)
    BY WrittenSinceIs
  <2> QED
    BY <1>1, <2>1
<1>4. Cardinality(old \cup {n + 1}) = Cardinality(old) + 1
  <2> HIDE DEF old
  <2> QED
    BY <1>3, FS_AddElement
<1> QED
  BY <1>2, <1>4 DEF v

LEMMA DeltaIs ==
  ASSUME rows \in Nat \cup {None}, lastRows \in Nat
  PROVE  RowsSent \in Nat /\ Delta \in Nat
BY RateSizes DEF RowsSent, Delta

LEMMA TickTimesAre ==
  ASSUME RateTypes, Stamped, NEW t \in TickTimes
  PROVE  t \in Int /\ t <= now /\ t >= -1 /\ CountedSince(log, t + 1) \in Nat
<1>1. t \in Int /\ t <= now /\ t >= -1
  <2>1. \A i \in DOMAIN log : log[i].at \in Nat /\ log[i].at <= now
    BY Samples DEF RateTypes, Stamped
  <2> QED
    BY <2>1 DEF TickTimes, RateTypes
<1>2. CountedSince(log, t + 1) \in Nat
  BY <1>1, TotalsType DEF CountedSince, RateTypes
<1> QED
  BY <1>1, <1>2

LEMMA RateInit == Init => RateInv
<1> SUFFICES ASSUME Init PROVE RateInv
  OBVIOUS
<1>1. /\ window = <<>> /\ log = <<>> /\ written = <<>> /\ rows = None /\ lastRows = 0
      /\ now = 0
  BY DEF Init
<1>2. RateTypes /\ Stamped /\ NoneLost
  BY <1>1 DEF Init, RateTypes, Stamped, NoneLost
<1>3. ASSUME NEW t \in TickTimes PROVE CountedSince(log, t + 1) + Delta <= WrittenSince(t)
  <2>1. /\ t = -1 /\ log \in Seq(Sample) /\ DOMAIN log = {} /\ 0 \in Int
        /\ written \in Seq(Nat) /\ t \in Int
    BY <1>1, <1>3 DEF TickTimes
  <2>2. CountedSince(log, 0) = 0
    BY <1>1, <2>1, CountNothing
  <2>3. Delta = 0
    BY <1>1 DEF Delta, RowsSent
  <2>4. WrittenSince(t) \in Nat
    BY <1>1, <2>1, WrittenSinceIs DEF WrittenSince
  <2> QED
    BY <2>1, <2>2, <2>3, <2>4
<1> QED
  BY <1>2, <1>3 DEF RateInv, Covered

(* A tick moves what was yet to be counted into its sample.                *)
LEMMA AggTickRate ==
  ASSUME RateInv, AggTick
  PROVE  RateInv'
<1> DEFINE s == [at |-> now, n |-> Delta]
           w == Append(window, s)
<1>1. /\ now' = now /\ lags' = lags /\ rows' = rows /\ written' = written /\ lastRows' = RowsSent
      /\ log' = Append(log, s) /\ window' = From(w, now - 2 * Window)
  BY DEF AggTick, RateEvent, Event, Pruned
<1>2. /\ now \in Nat /\ lags \in Nat /\ lastRows \in Nat /\ rows \in Nat \cup {None}
      /\ window \in Seq(Sample) /\ log \in Seq(Sample) /\ written \in Seq(Nat)
      /\ Window \in Nat
  BY RateSizes DEF RateInv, RateTypes
<1>3. RowsSent \in Nat /\ Delta \in Nat /\ s \in Sample /\ s.at = now /\ s.n = Delta
  <2>1. RowsSent \in Nat /\ Delta \in Nat
    BY <1>2, DeltaIs
  <2> QED
    BY <1>2, <2>1 DEF Sample
<1> HIDE DEF s
<1>4. /\ w \in Seq(Sample) /\ log' \in Seq(Sample)
      /\ Len(log) \in Nat /\ Len(window) \in Nat
      /\ Len(w) = Len(window) + 1 /\ w[Len(w)] = s
      /\ Len(log') = Len(log) + 1 /\ log'[Len(log')] = s
      /\ \A i \in 1 .. Len(window) : w[i] = window[i]
      /\ \A i \in 1 .. Len(log) : log'[i] = log[i]
  BY <1>1, <1>2, <1>3, AppendProperties
<1>5. /\ \A i \in 1 .. Len(w) : w[i].at \in Nat /\ w[i].at <= now
      /\ \A i \in 1 .. Len(log') : log'[i].at <= now
  <2>1. /\ \A i \in 1 .. Len(window) : window[i].at \in Nat /\ window[i].at <= now
        /\ \A i \in 1 .. Len(log) : log[i].at <= now
    BY <1>2, Samples DEF RateInv, Stamped
  <2>2. ASSUME NEW i \in 1 .. Len(w) PROVE w[i].at \in Nat /\ w[i].at <= now
    <3>1. CASE i \in 1 .. Len(window)
      BY <1>4, <2>1, <3>1
    <3>2. CASE i = Len(w)
      BY <1>2, <1>3, <1>4, <3>2
    <3> QED
      BY <1>4, <3>1, <3>2
  <2>3. ASSUME NEW i \in 1 .. Len(log') PROVE log'[i].at <= now
    <3>1. CASE i \in 1 .. Len(log)
      BY <1>4, <2>1, <3>1
    <3>2. CASE i = Len(log')
      BY <1>2, <1>3, <1>4, <3>2
    <3> QED
      BY <1>4, <3>1, <3>2
  <2> QED
    BY <2>2, <2>3
<1> HIDE DEF w
<1>p. now - 2 * Window \in Int
  BY <1>2
<1>6. RateTypes'
  <2>1. window' \in Seq(Sample)
    BY <1>1, <1>4, <1>p, FromIs
  <2> QED
    BY <1>1, <1>2, <1>3, <1>4, <2>1 DEF RateTypes
<1>7. Stamped'
  <2>1. \A i \in DOMAIN window' : window'[i].at <= now
    <3> DEFINE p == now - 2 * Window
    <3>p. p \in Int /\ window' = From(w, p)
      BY <1>1, <1>p
    <3> HIDE DEF p
    <3>1. PICK m \in 0 .. Len(w) :
            /\ Len(From(w, p)) = Len(w) - m
            /\ \A i \in 1 .. m : w[i].at < p
            /\ \A i \in 1 .. Len(w) - m : From(w, p)[i] = w[m + i]
            /\ m < Len(w) => w[m + 1].at >= p
      BY <1>4, <3>p, FromIs
    <3>2. Len(w) \in Nat /\ DOMAIN window' = 1 .. Len(window')
      BY <1>4, <1>6, LenProperties DEF RateTypes
    <3>3. TAKE i \in DOMAIN window'
    <3>4. window'[i] = w[m + i] /\ m + i \in 1 .. Len(w)
      BY <3>p, <3>1, <3>2
    <3> QED
      BY <1>5, <3>4
  <2>2. DOMAIN log' = 1 .. Len(log')
    BY <1>4, LenProperties
  <2> QED
    BY <1>1, <1>5, <2>1, <2>2 DEF Stamped
<1>8. \A c \in Int : c + Window >= now => CountedSince(window', c) = CountedSince(log', c)
  <2>1. TAKE c \in Int
  <2>2. HAVE c + Window >= now
  <2>3. CountedSince(window', c) = CountedSince(w, c)
    <3>1. now - 2 * Window \in Int /\ now - 2 * Window <= c
      BY <1>2, <2>2
    <3> QED
      BY <1>1, <1>4, <3>1, CountPruned
  <2>4. /\ CountedSince(w, c) = CountedSince(window, c) + Weight(s, c)
        /\ CountedSince(log', c) = CountedSince(log, c) + Weight(s, c)
    BY <1>1, <1>2, <1>3, CountAppended DEF w
  <2>5. CountedSince(window, c) = CountedSince(log, c)
    BY <2>2 DEF RateInv, NoneLost
  <2> QED
    BY <2>3, <2>4, <2>5
<1>9. Delta' = 0
  <2>1. RowsSent' = RowsSent
    BY <1>1 DEF RowsSent
  <2> QED
    BY <1>1, <1>3, <2>1 DEF Delta
<1>10. ASSUME NEW t \in TickTimes'
       PROVE  CountedSince(log', t + 1) + Delta' <= WrittenSince(t)'
  <2>1. WrittenSince(t)' = WrittenSince(t)
    BY <1>1 DEF WrittenSince
  <2>2. CASE t = now
    <3>1. \A i \in DOMAIN log' : log'[i].at < now + 1
      <4>1. \A i \in 1 .. Len(log') : log'[i].at \in Nat /\ log'[i].at <= now
        BY <1>4, <1>5, Samples
      <4> QED
        BY <1>2, <1>4, <4>1, LenProperties
    <3>2. CountedSince(log', now + 1) = 0
      <4>1. now + 1 \in Int
        BY <1>2
      <4> QED
        BY <1>4, <3>1, <4>1, CountNothing
    <3>3. WrittenSince(t) \in Nat
      <4>1. t \in Int
        BY <1>2, <2>2
      <4> QED
        BY <1>2, <4>1, WrittenSinceIs DEF WrittenSince
    <3> QED
      BY <1>9, <2>1, <2>2, <3>2, <3>3
  <2>3. CASE t \in TickTimes
    <3>1. t \in Int /\ CountedSince(log, t + 1) \in Nat
      BY <2>3, TickTimesAre DEF RateInv
    <3>2. CountedSince(log', t + 1) = CountedSince(log, t + 1) + Weight(s, t + 1)
      BY <1>1, <1>2, <1>3, <3>1, CountAppended
    <3>3. Weight(s, t + 1) \in Nat /\ Weight(s, t + 1) <= Delta
      BY <1>2, <1>3, <3>1 DEF Weight
    <3>4. CountedSince(log, t + 1) + Delta <= WrittenSince(t)
      BY <2>3 DEF RateInv, Covered
    <3>5. WrittenSince(t) \in Nat
      BY <1>2, <3>1, WrittenSinceIs DEF WrittenSince
    <3> QED
      BY <1>3, <1>9, <2>1, <3>1, <3>2, <3>3, <3>4, <3>5
  <2>4. t = now \/ t \in TickTimes
    <3>1. CASE t = -1
      BY <3>1 DEF TickTimes
    <3>2. ASSUME NEW i \in DOMAIN log', t = log'[i].at
          PROVE  t = now \/ t \in TickTimes
      <4>1. i \in 1 .. Len(log) \/ i = Len(log')
        BY <1>4, LenProperties
      <4>2. DOMAIN log = 1 .. Len(log)
        BY <1>2, LenProperties
      <4> QED
        BY <1>3, <1>4, <3>2, <4>1, <4>2 DEF TickTimes
    <3> QED
      BY <1>10, <3>1, <3>2 DEF TickTimes
  <2> QED
    BY <2>2, <2>3, <2>4
<1> QED
  BY <1>1, <1>6, <1>7, <1>8, <1>10 DEF RateInv, NoneLost, Covered

(* A row written adds one to what is to be counted, and one to what was.   *)
LEMMA RunWritesRate ==
  ASSUME RateInv, RunWrites
  PROVE  RateInv'
<1>1. /\ now' = now /\ lags' = lags /\ rows' = rows + 1 /\ rows # None /\ lastRows' = lastRows
      /\ written' = Append(written, now) /\ window' = window /\ log' = log
  BY DEF RunWrites, RateEvent, Event
<1>2. RateTypes /\ now \in Nat /\ rows \in Nat /\ lastRows \in Nat /\ written \in Seq(Nat)
  BY <1>1 DEF RateInv, RateTypes
<1>3. RateTypes'
  <2>1. written' \in Seq(Nat)
    BY <1>1, <1>2, AppendProperties
  <2> QED
    BY <1>1, <1>2, <2>1 DEF RateTypes
<1>4. Stamped' /\ NoneLost'
  BY <1>1 DEF RateInv, Stamped, NoneLost
<1>5. Delta \in Nat /\ Delta' \in Nat /\ Delta' <= Delta + 1
  BY <1>1, <1>2, RateSizes DEF Delta, RowsSent
<1>6. ASSUME NEW t \in TickTimes
      PROVE  CountedSince(log, t + 1) + Delta' <= WrittenSince(t)'
  <2>1. t \in Int /\ now >= t /\ CountedSince(log, t + 1) \in Nat
    BY <1>2, TickTimesAre DEF RateInv
  <2>2. WrittenSince(t)' = WrittenSince(t) + 1
    BY <1>1, <1>2, <2>1, WrittenAppended DEF WrittenSince
  <2>3. CountedSince(log, t + 1) + Delta <= WrittenSince(t)
    BY DEF RateInv, Covered
  <2>4. WrittenSince(t) \in Nat
    BY <1>2, <2>1, WrittenSinceIs DEF WrittenSince
  <2> QED
    BY <1>5, <2>1, <2>2, <2>3, <2>4
<1> QED
  BY <1>1, <1>3, <1>4, <1>6 DEF RateInv, Covered, TickTimes

LEMMA RateStep == RateInv /\ [Next]_vars => RateInv'
<1> SUFFICES ASSUME RateInv, [Next]_vars PROVE RateInv'
  OBVIOUS
<1>1. CASE AggTick
  BY <1>1, AggTickRate
<1>2. CASE RunWrites
  BY <1>2, RunWritesRate
<1>3. CASE RunChanges
  <2>1. /\ now' = now /\ lags' = lags /\ rows' \in {None, 0} /\ lastRows' = lastRows
        /\ written' = written /\ window' = window /\ log' = log
    BY <1>3 DEF RunChanges, RateEvent, Event
  <2>2. RateTypes /\ Stamped /\ lastRows \in Nat /\ rows \in Nat \cup {None}
        /\ written \in Seq(Nat)
    BY DEF RateInv, RateTypes
  <2>3. RateTypes' /\ Stamped' /\ NoneLost'
    BY <2>1 DEF RateInv, RateTypes, Stamped, NoneLost
  <2>4. Delta' = 0
    BY <2>1, <2>2, RateSizes DEF Delta, RowsSent
  <2>5. ASSUME NEW t \in TickTimes
        PROVE  CountedSince(log, t + 1) + Delta' <= WrittenSince(t)
    <3>1. CountedSince(log, t + 1) + Delta <= WrittenSince(t)
      BY DEF RateInv, Covered
    <3>2. t \in Int /\ CountedSince(log, t + 1) \in Nat /\ Delta \in Nat
      BY <2>2, TickTimesAre, DeltaIs
    <3>3. WrittenSince(t) \in Nat
      BY <2>2, <3>2, WrittenSinceIs DEF WrittenSince
    <3> QED
      BY <2>4, <3>1, <3>2, <3>3
  <2> QED
    BY <2>1, <2>3, <2>5 DEF RateInv, Covered, TickTimes, WrittenSince
<1>4. CASE \/ Advance \/ Lagged
           \/ (\E ms \in 1 .. 3 : Push(ms)) \/ Percentiles \/ NewLatencies
           \/ Alert \/ OtherEvent \/ UNCHANGED vars
  <2>1. UNCHANGED rateVars /\ now' \in Nat /\ now' >= now /\ lags' \in Nat
    <3>1. now \in Nat /\ lags \in Nat /\ Delay \in Nat
      BY SizesAssumption DEF RateInv, RateTypes, Delay, Least
    <3>2. CASE Advance \/ Lagged
      BY <3>1, <3>2 DEF Advance, Lagged
    <3>3. CASE Alert \/ OtherEvent
      BY <3>1, <3>3 DEF Alert, OtherEvent, SocketEvent, Event
    <3>4. CASE (\E ms \in 1 .. 3 : Push(ms)) \/ Percentiles \/ NewLatencies
      <4>1. LatencyEvent
        BY <3>4 DEF Push, Percentiles, NewLatencies
      <4> QED
        BY <3>1, <4>1 DEF LatencyEvent, Event
    <3>5. CASE UNCHANGED vars
      BY <3>1, <3>5 DEF vars
    <3> QED
      BY <1>4, <3>2, <3>3, <3>4, <3>5
  <2>2. /\ rows' = rows /\ lastRows' = lastRows /\ written' = written
        /\ window' = window /\ log' = log
    BY <2>1 DEF rateVars
  <2>3. RateTypes' /\ Stamped'
    <3>1. /\ \A i \in DOMAIN window : window[i].at \in Nat /\ window[i].at <= now
          /\ \A i \in DOMAIN log : log[i].at \in Nat /\ log[i].at <= now
          /\ now \in Nat
      BY Samples DEF RateInv, RateTypes, Stamped
    <3>2. Stamped'
      BY <2>1, <2>2, <3>1 DEF Stamped
    <3> QED
      BY <2>1, <2>2, <3>2 DEF RateInv, RateTypes
  <2>4. NoneLost'
    <3>1. now \in Nat /\ Window \in Nat
      BY RateSizes DEF RateInv, RateTypes
    <3>2. \A c \in Int : c + Window >= now' => c + Window >= now
      BY <2>1, <3>1
    <3> QED
      BY <2>2, <3>2 DEF RateInv, NoneLost
  <2>5. Covered'
    BY <2>2 DEF RateInv, Covered, TickTimes, WrittenSince, Delta, RowsSent
  <2> QED
    BY <2>3, <2>4, <2>5 DEF RateInv
<1> QED
  BY <1>1, <1>2, <1>3, <1>4 DEF Next

(* The tick before the window is the greatest of finitely many.            *)
LEMMA RateInvHonest == RateInv => RateHonest
<1> SUFFICES ASSUME RateInv PROVE RateHonest
  OBVIOUS
<1> DEFINE c == now - Window
           before == {log[i].at : i \in {k \in DOMAIN log : log[k].at < c}}
<1>1. /\ now \in Nat /\ Window \in Nat /\ c \in Int /\ log \in Seq(Sample)
      /\ window \in Seq(Sample) /\ written \in Seq(Nat) /\ Delta \in Nat
  BY RateSizes, DeltaIs DEF RateInv, RateTypes
<1>2. \A i \in DOMAIN log : log[i].at \in Nat /\ log[i].at <= now
  BY <1>1, Samples DEF RateInv, Stamped
<1>3. /\ Counted(window) = CountedSince(window, c)
      /\ Counted(log) = CountedSince(log, c)
  BY DEF Counted, CountedSince, SumTo
<1>4. CountedSince(window, c) = CountedSince(log, c)
  BY <1>1 DEF RateInv, NoneLost
<1>5. ASSUME NEW t \in TickTimes, NEW u \in Int, WrittenSince(t) = WrittenSince(u),
             \A i \in DOMAIN log : log[i].at >= c <=> log[i].at >= t + 1
      PROVE  CountedSince(log, c) <= WrittenSince(u)
  <2>1. t \in Int /\ CountedSince(log, t + 1) \in Nat
    BY TickTimesAre DEF RateInv
  <2>2. CountedSince(log, c) = CountedSince(log, t + 1)
    <3>1. t + 1 \in Int
      BY <2>1
    <3> QED
      BY <1>1, <1>5, <3>1, CountAlike
  <2>3. CountedSince(log, t + 1) + Delta <= WrittenSince(t)
    BY DEF RateInv, Covered
  <2>4. WrittenSince(t) \in Nat
    BY <1>1, <2>1, WrittenSinceIs DEF WrittenSince
  <2> QED
    BY <1>1, <1>5, <2>1, <2>2, <2>3, <2>4
<1>6. CountedSince(log, c) <= WrittenSince(CountsFrom)
  <2>1. CASE before = {}
    <3>1. CountsFrom = 0
      BY <2>1 DEF CountsFrom
    <3>2. -1 \in TickTimes /\ -1 \in Int /\ 0 \in Int /\ (-1) + 1 = 0
      BY DEF TickTimes
    <3>3. WrittenSince(-1) = WrittenSince(0)
      <4>1. \A i \in DOMAIN written : written[i] \in Nat
        BY <1>1
      <4>2. {i \in DOMAIN written : written[i] >= -1} = {i \in DOMAIN written : written[i] >= 0}
        BY <4>1
      <4> QED
        BY <4>2 DEF WrittenSince
    <3>4. \A i \in DOMAIN log : log[i].at >= c <=> log[i].at >= 0
      <4>1. \A i \in DOMAIN log : ~(log[i].at < c)
        BY <2>1
      <4> QED
        BY <1>1, <1>2, <4>1
    <3> HIDE DEF c
    <3> QED
      BY <1>5, <3>1, <3>2, <3>3, <3>4
  <2>2. CASE before # {}
    <3>1. before \subseteq Nat /\ \A u \in before : u <= now
      BY <1>2
    <3>2. CountsFrom = CHOOSE t \in before : \A u \in before : u <= t
      BY <2>2 DEF CountsFrom
    <3> DEFINE t == CountsFrom
    <3>3. t \in before /\ \A u \in before : u <= t
      <4> HIDE DEF before
      <4>1. \E x \in before : \A u \in before : u <= x
        BY <1>1, <2>2, <3>1, GreatestNatural
      <4> QED
        BY <3>2, <4>1
    <3> HIDE DEF t
    <3>4. t \in TickTimes /\ t \in Nat /\ t < c
      BY <1>1, <1>2, <3>3 DEF TickTimes
    <3>5. \A i \in DOMAIN log : log[i].at >= c <=> log[i].at >= t + 1
      <4>1. \A i \in DOMAIN log : log[i].at < c => log[i].at <= t
        BY <3>3
      <4> QED
        BY <1>1, <1>2, <3>4, <4>1
    <3> HIDE DEF c, before
    <3>6. CountedSince(log, c) <= WrittenSince(t)
      BY <1>5, <3>4, <3>5
    <3> QED
      BY <3>6 DEF t
  <2> QED
    BY <2>1, <2>2
<1> QED
  BY <1>3, <1>4, <1>6 DEF RateHonest

(* For any window, and however runs come and go between ticks: the rate    *)
(* shown is that of every sample of the window, though old ones are        *)
(* pruned, and is never of more rows than were written since the tick      *)
(* before the window.                                                      *)
THEOREM RateIsHonest == Spec => []RateHonest
<1> QED
  BY RateInit, RateStep, RateInvHonest, PTL DEF Spec

-----------------------------------------------------------------------------
(* The places of s that hold at most x, and those that hold less.          *)
UpTo(s, x) == {i \in DOMAIN s : s[i] <= x}
Below(s, x) == {i \in DOMAIN s : s[i] < x}

LEMMA Places ==
  ASSUME NEW s \in Seq(Nat), NEW x \in Nat
  PROVE  /\ Len(s) \in Nat /\ DOMAIN s = 1 .. Len(s) /\ \A i \in 1 .. Len(s) : s[i] \in Nat
         /\ IsFiniteSet(UpTo(s, x)) /\ Cardinality(UpTo(s, x)) \in Nat
         /\ IsFiniteSet(Below(s, x)) /\ Cardinality(Below(s, x)) \in Nat
<1>1. /\ Len(s) \in Nat /\ DOMAIN s = 1 .. Len(s) /\ \A i \in 1 .. Len(s) : s[i] \in Nat
  BY LenProperties, ElementOfSeq
<1>2. IsFiniteSet(1 .. Len(s)) /\ UpTo(s, x) \subseteq 1 .. Len(s) /\ Below(s, x) \subseteq 1 .. Len(s)
  BY <1>1, FS_Interval DEF UpTo, Below
<1>3. IsFiniteSet(UpTo(s, x)) /\ IsFiniteSet(Below(s, x))
  BY <1>2, FS_Subset
<1> QED
  BY <1>1, <1>3, FS_CardinalityType

(* A vector has a bound.                                                   *)
LEMMA Bounded ==
  ASSUME NEW s \in Seq(Nat)
  PROVE  \E b \in Nat : \A i \in DOMAIN s : s[i] <= b
<1> DEFINE S == {n \in Nat : n <= Len(s) => \E b \in Nat : \A i \in 1 .. n : s[i] <= b}
<1>1. Len(s) \in Nat /\ DOMAIN s = 1 .. Len(s) /\ \A i \in 1 .. Len(s) : s[i] \in Nat
  BY LenProperties, ElementOfSeq
<1>2. 0 \in S
  OBVIOUS
<1>3. ASSUME NEW n \in Nat, n \in S PROVE n + 1 \in S
  <2> SUFFICES ASSUME n + 1 <= Len(s)
               PROVE  \E b \in Nat : \A i \in 1 .. n + 1 : s[i] <= b
    OBVIOUS
  <2>1. PICK b \in Nat : \A i \in 1 .. n : s[i] <= b
    BY <1>1, <1>3
  <2>2. s[n + 1] \in Nat
    BY <1>1
  <2> DEFINE last == s[n + 1]
  <2>3. b + last \in Nat
    BY <2>2
  <2>4. ASSUME NEW i \in 1 .. n + 1 PROVE s[i] <= b + last
    <3>1. CASE i \in 1 .. n
      <4>1. s[i] \in Nat /\ s[i] <= b
        BY <1>1, <2>1, <3>1
      <4> QED
        BY <2>2, <4>1
    <3>2. CASE i = n + 1
      <4>1. s[i] = last
        BY <3>2
      <4> QED
        BY <2>2, <4>1
    <3> QED
      BY <3>1, <3>2
  <2> QED
    BY <2>3, <2>4
<1>4. Nat \subseteq S
  <2> HIDE DEF S
  <2> QED
    BY <1>2, <1>3, NatInductionOnSets
<1>5. Len(s) \in S
  BY <1>1, <1>4
<1> QED
  BY <1>1, <1>5

(* A vector has a value for each of its places in order.                   *)
LEMMA OrderStatistic ==
  ASSUME NEW s \in Seq(Nat), NEW k \in DOMAIN s
  PROVE  \E x \in Range(s) : Cardinality(Below(s, x)) < k /\ Cardinality(UpTo(s, x)) >= k
<1> DEFINE T == {x \in Nat : Cardinality(UpTo(s, x)) >= k}
<1>1. /\ Len(s) \in Nat /\ DOMAIN s = 1 .. Len(s) /\ k \in 1 .. Len(s)
      /\ \A i \in 1 .. Len(s) : s[i] \in Nat
  BY LenProperties, ElementOfSeq
<1>2. \E b \in Nat : b \in T
  <2>1. PICK b \in Nat : \A i \in DOMAIN s : s[i] <= b
    BY Bounded
  <2>2. UpTo(s, b) = 1 .. Len(s)
    BY <1>1, <2>1 DEF UpTo
  <2>3. Cardinality(1 .. Len(s)) = Len(s)
    <3>1. /\ 1 \in Int /\ Len(s) \in Int
          /\ Len(s) = IF 1 > Len(s) THEN 0 ELSE Len(s) - 1 + 1
      BY <1>1
    <3> QED
      BY <3>1, FS_Interval
  <2> QED
    BY <1>1, <2>2, <2>3
<1>3. PICK x \in T : \A y \in T : x <= y
  <2>1. T \subseteq Nat /\ T # {}
    BY <1>2
  <2> HIDE DEF T
  <2> QED
    BY <2>1, LeastNatural
<1>4. x \in Nat /\ Cardinality(UpTo(s, x)) >= k
  BY <1>3
<1>5. Cardinality(Below(s, x)) < k
  <2>1. CASE x = 0
    <3>1. Below(s, x) = {}
      BY <1>1, <2>1 DEF Below
    <3> QED
      BY <1>1, <3>1, FS_EmptySet
  <2>2. CASE x # 0
    <3>1. x - 1 \in Nat /\ ~(x <= x - 1)
      BY <1>4, <2>2
    <3>2. Below(s, x) = UpTo(s, x - 1)
      BY <1>1, <1>4 DEF Below, UpTo
    <3>3. ~(Cardinality(UpTo(s, x - 1)) >= k)
      BY <1>3, <3>1
    <3>4. Cardinality(UpTo(s, x - 1)) \in Nat
      BY <3>1, Places
    <3> QED
      BY <1>1, <3>2, <3>3, <3>4
  <2> QED
    BY <2>1, <2>2
<1>6. x \in Range(s)
  <2> SUFFICES ASSUME x \notin Range(s) PROVE FALSE
    OBVIOUS
  <2>1. \A i \in DOMAIN s : s[i] # x
    BY DEF Range
  <2>2. UpTo(s, x) = Below(s, x)
    BY <1>1, <1>4, <2>1 DEF UpTo, Below
  <2>3. Cardinality(Below(s, x)) \in Nat
    BY <1>4, Places
  <2> QED
    BY <1>1, <1>4, <1>5, <2>2, <2>3
<1> QED
  BY <1>4, <1>5, <1>6

(* The sort keeps the length of a vector and puts it in order.             *)
LEMMA InOrderIs ==
  ASSUME NEW s \in Seq(Nat)
  PROVE  InOrder(s) \in Seq(Nat) /\ Len(InOrder(s)) = Len(s) /\ Sorted(InOrder(s))
<1> DEFINE o == InOrder(s)
<1>1. /\ Len(s) \in Nat /\ DOMAIN s = 1 .. Len(s)
      /\ \A i \in 1 .. Len(s) : s[i] \in Nat
  BY LenProperties, ElementOfSeq
<1>2. o = [k \in DOMAIN s |-> CHOOSE x \in Range(s) :
                 Cardinality(Below(s, x)) < k /\ Cardinality(UpTo(s, x)) >= k]
  BY DEF InOrder, Below, UpTo
<1>3. DOMAIN o = 1 .. Len(s)
  BY <1>1, <1>2
<1>4. ASSUME NEW k \in 1 .. Len(s)
      PROVE  /\ o[k] \in Nat
             /\ Cardinality(Below(s, o[k])) < k /\ Cardinality(UpTo(s, o[k])) >= k
  <2> DEFINE P(x) == Cardinality(Below(s, x)) < k /\ Cardinality(UpTo(s, x)) >= k
  <2>1. o[k] = CHOOSE x \in Range(s) : P(x)
    BY <1>1, <1>2
  <2>2. \E x \in Range(s) : P(x)
    BY <1>1, OrderStatistic
  <2>3. o[k] \in Range(s) /\ P(o[k])
    <3> HIDE DEF P
    <3> QED
      BY <2>1, <2>2
  <2>4. o[k] \in Nat
    BY <1>1, <2>3 DEF Range
  <2> QED
    BY <2>3, <2>4
<1> HIDE DEF o
<1>5. o \in Seq(Nat) /\ Len(o) = Len(s)
  <2>1. o = [i \in 1 .. Len(s) |-> o[i]]
    BY <1>2, <1>3
  <2>2. o \in [1 .. Len(s) -> Nat]
    BY <1>4, <2>1
  <2> QED
    BY <1>1, <1>3, <2>2, SeqDef, LenProperties
<1>6. ASSUME NEW k \in 1 .. Len(s), NEW l \in 1 .. Len(s), k < l PROVE o[k] <= o[l]
  <2> SUFFICES ASSUME o[l] < o[k] PROVE FALSE
    BY <1>4
  <2>1. o[k] \in Nat /\ o[l] \in Nat
    BY <1>4
  <2>2. UpTo(s, o[l]) \subseteq Below(s, o[k])
    BY <1>1, <2>1 DEF UpTo, Below
  <2>3. /\ IsFiniteSet(Below(s, o[k])) /\ Cardinality(Below(s, o[k])) \in Nat
        /\ Cardinality(UpTo(s, o[l])) \in Nat
    BY <2>1, Places
  <2>4. Cardinality(UpTo(s, o[l])) <= Cardinality(Below(s, o[k]))
    BY <2>2, <2>3, FS_Subset
  <2>5. Cardinality(Below(s, o[k])) < k /\ Cardinality(UpTo(s, o[l])) >= l
    BY <1>4
  <2> QED
    BY <1>1, <1>6, <2>3, <2>4, <2>5
<1>7. Sorted(o)
  BY <1>3, <1>6 DEF Sorted
<1> QED
  BY <1>5, <1>7 DEF o

(* The places of the five percentiles are in the vector, and in order.     *)
LEMMA Indexes ==
  ASSUME NEW n \in Nat \ {0}
  PROVE  /\ Index(n, 0) + 1 \in 1 .. n
         /\ Index(n, 50) + 1 \in 1 .. n
         /\ Index(n, 95) + 1 \in 1 .. n
         /\ Index(n, 99) + 1 \in 1 .. n
         /\ Index(n, 100) + 1 \in 1 .. n
         /\ Index(n, 0) <= Index(n, 50) /\ Index(n, 50) <= Index(n, 95)
         /\ Index(n, 95) <= Index(n, 99) /\ Index(n, 99) <= Index(n, 100)
BY DEF Index

-----------------------------------------------------------------------------
(* The rest of the type invariant: the bounds of the counters, the vector  *)
(* of latencies and what was read of it, and the times of the samples.     *)
CounterTypes ==
  /\ meter \in {"rate", "latencies", "socket"}
  /\ now \in 0 .. MaxTime /\ events \in 0 .. MaxEvents
  /\ lags \in Nat /\ lags <= events
  /\ forwarded \in Seq(Nat) /\ \A i \in DOMAIN forwarded : forwarded[i] <= now

LatencyTypes ==
  /\ samples \in Seq(Nat) /\ dirty \in BOOLEAN /\ (~dirty => Sorted(samples))
  /\ shown \in Seq(Nat) /\ Sorted(shown)

InTime(w) == \A i, j \in DOMAIN w : i <= j => w[i].at <= w[j].at

WindowTypes ==
  /\ InTime(window)
  /\ \A i, j \in DOMAIN window : window[i].at >= window[j].at - 2 * Window

Typed == RateInv /\ Balanced /\ CounterTypes /\ LatencyTypes /\ WindowTypes

LEMMA TypedInit == Init => Typed
<1> SUFFICES ASSUME Init PROVE Typed
  OBVIOUS
<1>1. /\ window = <<>> /\ samples = <<>> /\ shown = <<>> /\ forwarded = <<>>
      /\ DOMAIN <<>> = {} /\ \A S : <<>> \in Seq(S)
  BY DEF Init
<1>2. CounterTypes
  BY <1>1, SizesAssumption DEF Init, CounterTypes
<1>3. LatencyTypes /\ WindowTypes
  BY <1>1 DEF Init, LatencyTypes, WindowTypes, InTime, Sorted
<1> QED
  BY <1>2, <1>3, RateInit, BalancedInit DEF Typed

LEMMA CountersStep ==
  ASSUME Typed, [Next]_vars
  PROVE  CounterTypes'
<1>1. /\ CounterTypes /\ MaxTime \in Nat /\ MaxEvents \in Nat
      /\ BackoffBase \in Nat /\ BackoffMax \in Nat
  BY SizesAssumption DEF Typed
<1>2. Delay \in Nat
  BY <1>1 DEF CounterTypes, Delay, Least
<1>3. CASE Alert
  <2>1. /\ now' = now /\ meter' = meter /\ events' = events + 1 /\ events < MaxEvents /\ lags' = 0
        /\ forwarded' = forwarded \/ forwarded' = Append(forwarded, now)
    BY <1>3 DEF Alert, SocketEvent, Event, samplerVars
  <2>2. forwarded' \in Seq(Nat) /\ \A i \in DOMAIN forwarded' : forwarded'[i] <= now
    <3>1. now \in Nat /\ forwarded \in Seq(Nat) /\ \A i \in DOMAIN forwarded : forwarded[i] <= now
      BY <1>1 DEF CounterTypes
    <3>2. CASE forwarded' = forwarded
      BY <3>1, <3>2
    <3>3. CASE forwarded' = Append(forwarded, now)
      BY <3>1, <3>3, AppendProperties
    <3> QED
      BY <2>1, <3>2, <3>3
  <2> QED
    BY <1>1, <2>1, <2>2 DEF CounterTypes
<1>4. CASE Advance \/ Lagged
  <2>1. /\ meter' = meter /\ forwarded' = forwarded
        /\ now' \in Nat /\ now' >= now /\ now' <= MaxTime
        /\ \/ events' = events /\ lags' = lags
           \/ events < MaxEvents /\ events' = events + 1 /\ lags' = lags + 1
    BY <1>1, <1>2, <1>4 DEF Advance, Lagged, CounterTypes, samplerVars
  <2>2. \A i \in DOMAIN forwarded : forwarded[i] \in Nat /\ forwarded[i] <= now
    BY <1>1 DEF CounterTypes
  <2> QED
    BY <1>1, <2>1, <2>2 DEF CounterTypes
<1>5. CASE \/ RunChanges \/ RunWrites \/ AggTick
           \/ (\E ms \in 1 .. 3 : Push(ms)) \/ Percentiles \/ NewLatencies \/ OtherEvent
  <2>1. /\ meter' = meter /\ forwarded' = forwarded /\ now' = now
        /\ events' = events + 1 /\ events < MaxEvents /\ lags' \in {0, lags}
    BY <1>5 DEF RunChanges, RunWrites, AggTick, Push, Percentiles, NewLatencies, OtherEvent,
       RateEvent, LatencyEvent, SocketEvent, Event, samplerVars
  <2> QED
    BY <1>1, <2>1 DEF CounterTypes
<1>6. CASE UNCHANGED vars
  BY <1>1, <1>6 DEF CounterTypes, vars, samplerVars
<1> QED
  BY <1>3, <1>4, <1>5, <1>6 DEF Next

(* Percentiles are read in order from a vector that is sorted when dirty.  *)
LEMMA PercentilesTyped ==
  ASSUME LatencyTypes, Percentiles
  PROVE  LatencyTypes'
<1> DEFINE s == samples'
           n == Len(samples)
           at == <<0, 50, 95, 99, 100>>
           p == [i \in 1 .. 5 |-> Index(n, at[i]) + 1]
<1>1. /\ samples # <<>> /\ s = (IF dirty THEN InOrder(samples) ELSE samples) /\ dirty' = FALSE
      /\ shown' = [i \in 1 .. 5 |-> s[Index(Len(samples), at[i]) + 1]]
  BY DEF Percentiles
<1>2. samples \in Seq(Nat) /\ dirty \in BOOLEAN /\ (~dirty => Sorted(samples))
  BY DEF LatencyTypes
<1>3. s \in Seq(Nat) /\ Len(s) = n /\ Sorted(s)
  <2>1. CASE dirty
    <3>1. s = InOrder(samples)
      BY <1>1, <2>1
    <3> QED
      BY <1>2, <3>1, InOrderIs
  <2>2. CASE ~dirty
    <3>1. s = samples
      BY <1>1, <2>2
    <3> QED
      BY <1>2, <2>2, <3>1
  <2> QED
    BY <2>1, <2>2
<1>4. n \in Nat \ {0}
  BY <1>1, <1>2, EmptySeq
<1> HIDE DEF s, n
<1>5. /\ \A i \in 1 .. 5 : p[i] \in 1 .. n
      /\ \A i, j \in 1 .. 5 : i < j => p[i] <= p[j]
  <2>1. /\ p[1] = Index(n, 0) + 1 /\ p[2] = Index(n, 50) + 1 /\ p[3] = Index(n, 95) + 1
        /\ p[4] = Index(n, 99) + 1 /\ p[5] = Index(n, 100) + 1
    OBVIOUS
  <2> HIDE DEF p
  <2>2. /\ p[1] \in 1 .. n /\ p[2] \in 1 .. n /\ p[3] \in 1 .. n /\ p[4] \in 1 .. n
        /\ p[5] \in 1 .. n
        /\ p[1] <= p[2] /\ p[2] <= p[3] /\ p[3] <= p[4] /\ p[4] <= p[5]
    BY <1>4, <2>1, Indexes DEF Index
  <2> QED
    BY <1>4, <2>2
<1>6. DOMAIN s = 1 .. n /\ \A k \in 1 .. n : s[k] \in Nat
  BY <1>3, LenProperties, ElementOfSeq
<1>7. shown' = [i \in 1 .. 5 |-> s[p[i]]]
  BY <1>1 DEF n
<1> HIDE DEF p
<1>8. DOMAIN shown' = 1 .. 5 /\ \A i \in 1 .. 5 : shown'[i] \in Nat
  BY <1>5, <1>6, <1>7
<1>9. shown' \in Seq(Nat)
  <2>1. shown' \in [1 .. 5 -> Nat]
    BY <1>5, <1>6, <1>7
  <2> QED
    BY <2>1, SeqDef
<1>10. ASSUME NEW i \in 1 .. 5, NEW j \in 1 .. 5, i < j PROVE shown'[i] <= shown'[j]
  <2>1. p[i] \in 1 .. n /\ p[j] \in 1 .. n /\ p[i] <= p[j]
    BY <1>5, <1>10
  <2>2. s[p[i]] <= s[p[j]]
    <3>1. CASE p[i] = p[j]
      BY <1>6, <2>1, <3>1
    <3>2. CASE p[i] < p[j]
      BY <1>3, <1>6, <2>1, <3>2 DEF Sorted
    <3> QED
      BY <1>4, <2>1, <3>1, <3>2
  <2> QED
    BY <1>7, <2>2
<1>11. Sorted(shown')
  BY <1>8, <1>10 DEF Sorted
<1> QED
  BY <1>1, <1>3, <1>9, <1>11 DEF LatencyTypes, Sorted, s

LEMMA LatenciesStep ==
  ASSUME LatencyTypes, [Next]_vars
  PROVE  LatencyTypes'
<1>1. CASE Percentiles
  BY <1>1, PercentilesTyped
<1>2. CASE \E ms \in 1 .. 3 : Push(ms)
  <2>1. PICK ms \in 1 .. 3 : Push(ms)
    BY <1>2
  <2>2. samples' = Append(samples, ms) /\ dirty' = TRUE /\ shown' = shown /\ ms \in Nat
    BY <2>1 DEF Push
  <2>3. samples' \in Seq(Nat)
    BY <2>2, AppendProperties DEF LatencyTypes
  <2> QED
    BY <2>2, <2>3 DEF LatencyTypes
<1>3. CASE NewLatencies
  <2>1. samples' = <<>> /\ dirty' = FALSE /\ shown' = shown /\ <<>> \in Seq(Nat)
    BY <1>3 DEF NewLatencies
  <2>2. Sorted(<<>>)
    BY DEF Sorted
  <2> QED
    BY <2>1, <2>2 DEF LatencyTypes
<1>4. CASE \/ Advance \/ RunChanges \/ RunWrites \/ AggTick
           \/ Alert \/ OtherEvent \/ Lagged \/ UNCHANGED vars
  <2>1. samples' = samples /\ dirty' = dirty /\ shown' = shown
    BY <1>4 DEF Advance, RunChanges, RunWrites, AggTick, Alert, OtherEvent, Lagged,
       RateEvent, SocketEvent, latencyVars, vars
  <2> QED
    BY <2>1 DEF LatencyTypes
<1> QED
  BY <1>1, <1>2, <1>3, <1>4 DEF Next

(* The front of a pruned window is fresh, and the rest is no older.        *)
LEMMA WindowStep ==
  ASSUME RateInv, WindowTypes, [Next]_vars
  PROVE  WindowTypes'
<1>1. CASE AggTick
  <2> DEFINE s == [at |-> now, n |-> Delta]
             w == Append(window, s)
             p == now - 2 * Window
  <2>1. window' = From(w, p)
    BY <1>1 DEF AggTick, RateEvent, Event, Pruned
  <2>2. /\ now \in Nat /\ window \in Seq(Sample) /\ Window \in Nat /\ Delta \in Nat /\ p \in Int
    BY RateSizes, DeltaIs DEF RateInv, RateTypes
  <2>3. s \in Sample /\ s.at = now
    BY <2>2 DEF Sample
  <2> HIDE DEF s
  <2>4. /\ w \in Seq(Sample) /\ Len(window) \in Nat
        /\ Len(w) = Len(window) + 1 /\ w[Len(w)] = s
        /\ \A i \in 1 .. Len(window) : w[i] = window[i]
    BY <2>2, <2>3, AppendProperties
  <2>5. \A i \in 1 .. Len(window) : window[i].at \in Nat /\ window[i].at <= now
    BY <2>2, Samples DEF RateInv, Stamped
  <2> HIDE DEF w
  <2>6. ASSUME NEW i \in 1 .. Len(w), NEW j \in 1 .. Len(w), i <= j
        PROVE  w[i].at \in Nat /\ w[i].at <= w[j].at /\ w[j].at <= now
    <3>1. CASE j \in 1 .. Len(window)
      <4>1. i \in 1 .. Len(window)
        BY <2>4, <2>6, <3>1
      <4>2. DOMAIN window = 1 .. Len(window)
        BY <2>2, LenProperties
      <4> QED
        BY <2>4, <2>5, <2>6, <3>1, <4>1, <4>2 DEF WindowTypes, InTime
    <3>2. CASE j = Len(w)
      <4>1. CASE i \in 1 .. Len(window)
        BY <2>2, <2>3, <2>4, <2>5, <3>2, <4>1
      <4>2. CASE i = Len(w)
        BY <2>2, <2>3, <2>4, <3>2, <4>2
      <4> QED
        BY <2>4, <4>1, <4>2
    <3> QED
      BY <2>4, <3>1, <3>2
  <2> HIDE DEF p
  <2>7. PICK m \in 0 .. Len(w) :
          /\ Len(From(w, p)) = Len(w) - m
          /\ \A i \in 1 .. m : w[i].at < p
          /\ \A i \in 1 .. Len(w) - m : From(w, p)[i] = w[m + i]
          /\ m < Len(w) => w[m + 1].at >= p
    BY <2>2, <2>4, FromIs
  <2>8. DOMAIN window' = 1 .. Len(w) - m
    BY <2>1, <2>2, <2>4, <2>7, FromIs, LenProperties
  <2>9. ASSUME NEW i \in DOMAIN window'
        PROVE  /\ m + i \in 1 .. Len(w) /\ window'[i] = w[m + i]
               /\ window'[i].at \in Nat /\ window'[i].at >= p /\ window'[i].at <= now
    <3>1. /\ i \in 1 .. Len(w) - m /\ m + i \in 1 .. Len(w) /\ m + 1 \in 1 .. Len(w)
          /\ m + 1 <= m + i /\ m < Len(w)
      BY <2>4, <2>7, <2>8
    <3>2. window'[i] = w[m + i]
      BY <2>1, <2>7, <3>1
    <3>3. w[m + 1].at \in Nat /\ w[m + 1].at <= w[m + i].at /\ w[m + 1].at >= p
      BY <2>6, <2>7, <3>1
    <3>4. w[m + i].at \in Nat /\ w[m + i].at <= now
      BY <2>6, <3>1
    <3> QED
      BY <2>2, <3>1, <3>2, <3>3, <3>4
  <2>10. InTime(window')
    <3> SUFFICES ASSUME NEW i \in DOMAIN window', NEW j \in DOMAIN window', i <= j
                 PROVE  window'[i].at <= window'[j].at
      BY DEF InTime
    <3>1. m + i <= m + j
      BY <2>4, <2>8
    <3> QED
      BY <2>6, <2>9, <3>1
  <2>11. ASSUME NEW i \in DOMAIN window', NEW j \in DOMAIN window'
         PROVE  window'[i].at >= window'[j].at - 2 * Window
    <3>1. /\ window'[i].at \in Nat /\ window'[i].at >= now - 2 * Window
          /\ window'[j].at \in Nat /\ window'[j].at <= now
      BY <2>9 DEF p
    <3> DEFINE x == window'[i].at
               y == window'[j].at
    <3>2. x \in Nat /\ x >= now - 2 * Window /\ y \in Nat /\ y <= now
      BY <3>1
    <3> HIDE DEF x, y
    <3>3. x >= y - 2 * Window
      BY <2>2, <3>2
    <3> QED
      BY <3>3 DEF x, y
  <2> QED
    BY <2>10, <2>11 DEF WindowTypes, InTime
<1>2. CASE \/ Advance \/ RunChanges \/ RunWrites
           \/ (\E ms \in 1 .. 3 : Push(ms)) \/ Percentiles \/ NewLatencies
           \/ Alert \/ OtherEvent \/ Lagged \/ UNCHANGED vars
  <2>1. window' = window
    BY <1>2 DEF Advance, RunChanges, RunWrites, Push, Percentiles, NewLatencies, Alert,
       OtherEvent, Lagged, LatencyEvent, SocketEvent, rateVars, vars
  <2> QED
    BY <2>1 DEF WindowTypes, InTime
<1> QED
  BY <1>1, <1>2 DEF Next

LEMMA TypedTypeOK == Typed => TypeOK
<1> SUFFICES ASSUME Typed PROVE TypeOK
  OBVIOUS
<1>1. /\ CounterTypes /\ LatencyTypes /\ WindowTypes /\ RateTypes /\ SamplerTypes
      /\ MaxEvents \in Nat /\ MaxTime \in Nat /\ Capacity \in Nat
  BY SizesAssumption, Sizes DEF Typed, RateInv, Balanced
<1>2. forwarded \in Seq(0 .. now)
  <2>1. /\ forwarded \in Seq(Nat) /\ \A i \in DOMAIN forwarded : forwarded[i] <= now
        /\ now \in Nat
    BY <1>1 DEF CounterTypes
  <2>2. \A i \in 1 .. Len(forwarded) : forwarded[i] \in 0 .. now
    BY <2>1, LenProperties, ElementOfSeq
  <2> QED
    BY <2>1, <2>2
<1>3. /\ tokens \in 0 .. Capacity /\ lastT \in 0 .. now \cup {None} /\ lags \in 0 .. MaxEvents
  BY <1>1 DEF SamplerTypes, CounterTypes
<1> QED
  BY <1>1, <1>2, <1>3 DEF TypeOK, CounterTypes, LatencyTypes, WindowTypes, RateTypes

(* The type invariant: a vector that is not dirty is sorted, percentiles   *)
(* are read from places it has and are in order, and the window keeps      *)
(* nothing of before twice its length.                                     *)
THEOREM TypeCorrect == Spec => []TypeOK
<1>1. Typed /\ [Next]_vars => Typed'
  BY RateStep, BalancedStep, CountersStep, LatenciesStep, WindowStep DEF Typed
<1> QED
  BY <1>1, TypedInit, TypedTypeOK, PTL DEF Spec
=============================================================================
