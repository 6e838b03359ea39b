----------------------------- MODULE GeneratorProofs -----------------------------
(***************************************************************************)
(* Proofs about Generator, for any partitions, any length of chain and any *)
(* probabilities.                                                          *)
(***************************************************************************)
EXTENDS Generator, TLAPS

(* pick_partition stays within the configured partitions.                  *)
LEMMA PickIsId ==
  ASSUME cfg \in Configs, Valid(cfg), NEW p \in Pick
  PROVE  /\ p \in Ids
         /\ cfg.hotCount >= 0 => p \in 1 .. cfg.partitions
<1>1. cfg \in Config
  BY ConfigsAssumption
<1>2. /\ 1 .. cfg.partitions \subseteq Ids
      /\ cfg.hotCount + 1 .. cfg.partitions \subseteq Ids
  BY IdsAssumption
<1>3. PICK hot \in IF cfg.hotCount > 0 THEN Draws(cfg.hotShare) ELSE {FALSE} :
        p \in IF hot THEN 1 .. cfg.hotCount ELSE cfg.hotCount + 1 .. cfg.partitions
  BY DEF Pick
<1>4. CASE p \in cfg.hotCount + 1 .. cfg.partitions
  BY <1>1, <1>2, <1>4 DEF Config
<1>5. CASE p \in 1 .. cfg.hotCount /\ cfg.hotCount > 0
  BY <1>1, <1>2, <1>5 DEF Config, Valid
<1>6. p \in 1 .. cfg.hotCount => cfg.hotCount > 0
  BY <1>1 DEF Config
<1> QED
  BY <1>3, <1>4, <1>5, <1>6

(* An open chain has made the bets it was given, less those it has left,    *)
(* and its prefix shows them.                                              *)
ChainsHaveTheirBets ==
  \A p \in open :
    /\ bets[p] + betsLeft[p] \in cfg.betsMin .. cfg.betsMax
    /\ prefix[p] = IF bets[p] = 0 THEN "d" ELSE "db"

ClosedHaveNoPrefix == \A p \in Ids \ open : prefix[p] \in {"none", "matched"}

(* Without abandoned chains nothing is left behind.                         *)
NothingLeft == cfg.abandon = "never" => abandoned = {} /\ retained = {}

GenInv ==
  /\ NothingLeft
  /\ TypeOK
  /\ Valid(cfg)
  /\ ChainsHaveTheirBets
  /\ ClosedHaveNoPrefix
  /\ PartitionsInRange

LEMMA ConfigBets == cfg \in Configs => cfg.betsMin \in Nat /\ cfg.betsMax \in Nat
BY ConfigsAssumption DEF Config

LEMMA Chains == Spec => []GenInv
<1>1. Init => GenInv
  BY DEF Init, GenInv, TypeOK, ChainsHaveTheirBets, ClosedHaveNoPrefix, PartitionsInRange,
         NothingLeft
<1>2. GenInv /\ [Next]_vars => GenInv'
  <2> SUFFICES ASSUME GenInv, [Next]_vars PROVE GenInv'
    OBVIOUS
  <2> USE ConfigBets DEF GenInv, TypeOK, ChainsHaveTheirBets, ClosedHaveNoPrefix
  <2>1. ASSUME NEW p \in Pick, NextEvent(p) PROVE GenInv'
    <3>1. p \in Ids /\ (cfg.hotCount >= 0 => p \in 1 .. cfg.partitions) /\ cfg' = cfg
      BY <2>1, PickIsId DEF NextEvent
    <3>0. \A kind : Return(p, kind) =>
            /\ event' = [partition |-> p, kind |-> kind]
            /\ bets' = [bets EXCEPT ![p] = CountBets(bets[p], kind)]
            /\ prefix' = [prefix EXCEPT ![p] = Extend(prefix[p], kind)]
            /\ retained' \subseteq Ids
      BY <3>1 DEF Return, Retain
    <3>2. open' \subseteq open \cup {p}
      BY <2>1 DEF NextEvent, Deposit, Bet, Withdraw
    <3>3. PartitionsInRange' /\ Valid(cfg)' /\ cfg' \in Configs /\ open' \subseteq Ids
      BY <3>1, <3>2 DEF PartitionsInRange, Valid
    <3>4. p \in Int
      BY <3>1, IdsAssumption
    <3>n. NothingLeft'
      <4> SUFFICES ASSUME cfg.abandon = "never" PROVE abandoned' = {} /\ retained' = {}
        BY <3>1 DEF NothingLeft
      <4>1. abandoned = {} /\ retained = {} /\ Draws(cfg.abandon) = {FALSE}
        BY DEF NothingLeft, Draws
      <4>2. CASE Deposit(p)
        BY <3>1, <4>1, <4>2 DEF Deposit, Return, Retain
      <4>3. CASE Bet(p) \/ Withdraw(p)
        BY <4>1, <4>3 DEF Bet, Withdraw, Return, Retain
      <4> QED
        BY <2>1, <4>2, <4>3 DEF NextEvent
    <3>5. CASE Deposit(p)
      <4>1. PICK n \in cfg.betsMin .. cfg.betsMax : betsLeft' = [betsLeft EXCEPT ![p] = n]
        BY <3>5 DEF Deposit
      <4>2. abandoned' \subseteq Ids
        BY <3>1, <3>5 DEF Deposit
      <4>3. n \in Nat /\ n \in cfg.betsMin .. cfg.betsMax
        OBVIOUS
      <4>4. /\ bets' = [bets EXCEPT ![p] = 0] /\ prefix' = [prefix EXCEPT ![p] = "d"]
            /\ event' = [partition |-> p, kind |-> "deposit"]
            /\ open' = open \cup {p} /\ retained' \subseteq Ids
        BY <3>0, <3>5 DEF Deposit, CountBets, Extend
      <4>5. TypeOK'
        BY <3>1, <3>3, <3>4, <4>1, <4>2, <4>3, <4>4
      <4>6. ChainsHaveTheirBets' /\ ClosedHaveNoPrefix'
        BY <3>1, <4>1, <4>3, <4>4
      <4> QED
        BY <3>3, <3>n, <4>5, <4>6
    <3>6. CASE Bet(p)
      <4>1. /\ p \in open /\ betsLeft[p] > 0 /\ betsLeft[p] \in Nat /\ bets[p] \in Nat
            /\ betsLeft' = [betsLeft EXCEPT ![p] = betsLeft[p] - 1]
            /\ open' = open /\ abandoned' = abandoned
        BY <3>1, <3>6 DEF Bet
      <4>2. Extend(prefix[p], "bet") = "db"
        BY <4>1 DEF Extend
      <4>3. /\ bets' = [bets EXCEPT ![p] = bets[p] + 1] /\ prefix' = [prefix EXCEPT ![p] = "db"]
            /\ event' = [partition |-> p, kind |-> "bet"] /\ retained' \subseteq Ids
        BY <3>0, <3>6, <4>2 DEF Bet, CountBets
      <4>4. TypeOK'
        BY <3>1, <3>3, <3>4, <4>1, <4>3
      <4>5. ChainsHaveTheirBets' /\ ClosedHaveNoPrefix'
        BY <3>1, <4>1, <4>3
      <4> QED
        BY <3>3, <3>n, <4>4, <4>5
    <3>7. CASE Withdraw(p)
      <4>1. /\ p \in open /\ betsLeft' = betsLeft /\ abandoned' = abandoned
            /\ open' = open \ {p}
        BY <3>7 DEF Withdraw
      <4>2. PICK seen \in {"none", "matched"} : Extend(prefix[p], "withdraw") = seen
        BY DEF Extend
      <4>3. /\ bets' = [bets EXCEPT ![p] = bets[p]] /\ prefix' = [prefix EXCEPT ![p] = seen]
            /\ event' = [partition |-> p, kind |-> "withdraw"] /\ retained' \subseteq Ids
        BY <3>0, <3>7, <4>2 DEF Withdraw, CountBets
      <4>4. TypeOK'
        BY <3>1, <3>3, <3>4, <4>1, <4>3
      <4>5. ChainsHaveTheirBets' /\ ClosedHaveNoPrefix'
        BY <3>1, <4>1, <4>3
      <4> QED
        BY <3>3, <3>n, <4>4, <4>5
    <3> QED
      BY <2>1, <3>5, <3>6, <3>7 DEF NextEvent
  <2>2. CASE UNCHANGED vars
    BY <2>2 DEF vars, chainVars, observerVars, PartitionsInRange, Valid, NothingLeft
  <2> QED
    BY <2>1, <2>2 DEF Next
<1> QED
  BY <1>1, <1>2, PTL DEF Spec

(* The types of all variables are preserved by every event.                *)
THEOREM TypeCorrect == Spec => []TypeOK
<1>1. GenInv => TypeOK
  BY DEF GenInv
<1> QED
  BY <1>1, Chains, PTL

(* Unless hot_count is negative, partitions are 1 to `partitions'.          *)
THEOREM InRange == Spec => []PartitionsInRange
<1>1. GenInv => PartitionsInRange
  BY DEF GenInv
<1> QED
  BY <1>1, Chains, PTL

(* What open_chains() misses comes of abandoned chains only: if none are     *)
(* abandoned, every partition with a buffered prefix is counted.            *)
THEOREM MissesOnlyAbandoned == Spec => [](cfg.abandon = "never" => PrefixesCounted)
<1>1. GenInv => (cfg.abandon = "never" => PrefixesCounted)
  BY DEF GenInv, NothingLeft, TypeOK, ClosedHaveNoPrefix, PrefixesCounted
<1> QED
  BY <1>1, Chains, PTL

(* Every withdraw completes a match, when chains have at least one bet.     *)
THEOREM EveryWithdrawMatches == Spec => WithdrawsMatch
<1> DEFINE Matches ==
      event'.kind = "withdraw" /\ cfg.betsMin > 0 => prefix[event'.partition] = "db"
<1>1. GenInv /\ [Next]_vars => [Matches]_vars
  <2> SUFFICES ASSUME GenInv, Next, event'.kind = "withdraw", cfg.betsMin > 0
               PROVE  prefix[event'.partition] = "db"
    OBVIOUS
  <2>1. PICK p \in Pick : NextEvent(p)
    BY DEF Next
  <2>2. Withdraw(p) /\ event'.partition = p
    BY <2>1 DEF NextEvent, Deposit, Bet, Withdraw, Return
  <2>3. p \in open /\ betsLeft[p] = 0 /\ bets[p] + betsLeft[p] \in cfg.betsMin .. cfg.betsMax
    BY <2>2 DEF Withdraw, GenInv, ChainsHaveTheirBets
  <2>4. bets[p] # 0
    BY <2>3, ConfigBets DEF GenInv, TypeOK
  <2> QED
    BY <2>2, <2>3, <2>4 DEF GenInv, ChainsHaveTheirBets
<1> QED
  BY <1>1, Chains, PTL DEF Spec, WithdrawsMatch

(* A chain that ends made as many bets as the configuration allows.         *)
THEOREM EveryChainRunsItsBets == Spec => ChainsRunTheirBets
<1> DEFINE Runs ==
      event'.partition \in open /\ event'.kind # "bet"
        => bets[event'.partition] \in cfg.betsMin .. cfg.betsMax
<1>1. GenInv /\ [Next]_vars => [Runs]_vars
  <2> SUFFICES ASSUME GenInv, Next, event'.partition \in open, event'.kind # "bet"
               PROVE  bets[event'.partition] \in cfg.betsMin .. cfg.betsMax
    OBVIOUS
  <2>1. PICK p \in Pick : NextEvent(p)
    BY DEF Next
  <2>2. event'.partition = p /\ (Deposit(p) \/ Withdraw(p))
    BY <2>1 DEF NextEvent, Deposit, Bet, Withdraw, Return
  <2>3. betsLeft[p] = 0
    BY <2>2 DEF Deposit, Withdraw
  <2>4. bets[p] + betsLeft[p] \in cfg.betsMin .. cfg.betsMax /\ p \in Ids
    BY <2>2 DEF GenInv, TypeOK, ChainsHaveTheirBets
  <2>5. bets[p] \in Nat
    BY <2>4 DEF GenInv, TypeOK
  <2> QED
    BY <2>2, <2>3, <2>4, <2>5, ConfigBets
<1> QED
  BY <1>1, Chains, PTL DEF Spec, ChainsRunTheirBets
=================================================================================
