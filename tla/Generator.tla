------------------------------- MODULE Generator --------------------------------
(***************************************************************************)
(* The workload generator (web/bench-core/src/gen.rs): interleaved chains  *)
(* of deposit, bets and withdraw, one at a time per partition, some of     *)
(* them abandoned before the withdraw.                                     *)
(*                                                                         *)
(* A random draw is any of its outcomes; a probability matters only in     *)
(* being 0, 1 or between them.  Amounts and payloads are left out.  What   *)
(* the generator is for is that the engine's pattern (deposit bet+         *)
(* withdraw) has matches: the pattern is an observer of the stream, within *)
(* one of its WITHIN bounds, so that no prefix expires.                    *)
(***************************************************************************)
EXTENDS Integers

CONSTANTS
  Configs,  \* Configs offered to Generator::new, valid or not
  Ids       \* partition ids

Config == [partitions: Int, hotCount: Int, hotShare: {"never", "maybe", "always"},
           betsMin: Nat, betsMax: Nat, abandon: {"never", "maybe", "always"}]

ASSUME ConfigsAssumption == Configs \subseteq Config
ASSUME IdsAssumption ==
  /\ Ids \subseteq Int
  /\ \A c \in Configs : (1 .. c.partitions) \cup (c.hotCount + 1 .. c.partitions) \subseteq Ids

VARIABLES
  cfg,        \* the generator's Config
  open,       \* the partitions that have a Chain
  betsLeft,   \* Chain::bets_left of the open ones
  abandoned,  \* the open chains that will not complete
  event,      \* the Event last returned
  bets,       \* observer: bets since the partition's last deposit
  prefix,     \* observer: what the pattern makes of the chain since that deposit
  retained    \* observer: the partitions with a prefix an earlier chain left buffered

chainVars == <<open, betsLeft, abandoned>>
observerVars == <<event, bets, prefix, retained>>
vars == <<cfg, chainVars, observerVars>>

(* Config::validate.  A negative hot_count passes it.                      *)
Valid(c) ==
  /\ c.partitions >= 1
  /\ c.hotCount > 0 => c.hotCount < c.partitions
  /\ c.betsMin <= c.betsMax

Init ==
  /\ cfg \in {c \in Configs : Valid(c)}
  /\ open = {}
  /\ betsLeft = [p \in Ids |-> 0]
  /\ abandoned = {}
  /\ event = [partition |-> 0, kind |-> "none"]
  /\ bets = [p \in Ids |-> 0]
  /\ prefix = [p \in Ids |-> "none"]
  /\ retained = {}

-----------------------------------------------------------------------------
(* What a draw against a probability can say.                              *)
Draws(p) == CASE p = "never" -> {FALSE} [] p = "always" -> {TRUE} [] OTHER -> BOOLEAN

(* pick_partition: a hot one or a cold one.                                *)
Pick ==
  UNION {IF hot THEN 1 .. cfg.hotCount ELSE cfg.hotCount + 1 .. cfg.partitions :
           hot \in IF cfg.hotCount > 0 THEN Draws(cfg.hotShare) ELSE {FALSE}}

(* What the pattern makes of a row: a deposit begins a chain, bets make a   *)
(* prefix of it, a withdraw after a bet completes a match.                 *)
Extend(seen, kind) ==
  CASE kind = "deposit" -> "d"
    [] kind = "bet" /\ seen \in {"d", "db"} -> "db"
    [] kind = "withdraw" /\ seen = "db" -> "matched"
    [] OTHER -> "none"

(* A new chain does not take away the prefix of the last one: "the prefix   *)
(* stays buffered and this partition starts afresh".                       *)
Retain(p, kind) ==
  IF kind = "deposit" /\ prefix[p] = "db" THEN retained \cup {p} ELSE retained

CountBets(n, kind) ==
  CASE kind = "deposit" -> 0 [] kind = "bet" -> n + 1 [] OTHER -> n

Return(p, kind) ==
  /\ event' = [partition |-> p, kind |-> kind]
  /\ bets' = [bets EXCEPT ![p] = CountBets(@, kind)]
  /\ prefix' = [prefix EXCEPT ![p] = Extend(@, kind)]
  /\ retained' = Retain(p, kind)

(* Fault: a chain is abandoned at its deposit.                             *)
DepositAbandonsAtOnce(p) ==
  /\ p \in open => p \in abandoned
  /\ \E n \in cfg.betsMin .. cfg.betsMax : betsLeft' = [betsLeft EXCEPT ![p] = n]
  /\ \E stop \in Draws(cfg.abandon) :
       abandoned' = IF stop THEN abandoned \cup {p} ELSE abandoned \ {p}
  /\ open' = open \cup {p}
  /\ Return(p, "deposit")

(* A partition without a chain gets one, and so does, in the same call, one *)
(* whose abandoned chain has run out of bets.                              *)
Deposit(p) ==
  /\ p \in open => betsLeft[p] = 0 /\ p \in abandoned
  /\ \E n \in cfg.betsMin .. cfg.betsMax : betsLeft' = [betsLeft EXCEPT ![p] = n]
  /\ \E stop \in Draws(cfg.abandon) :
       abandoned' = IF stop THEN abandoned \cup {p} ELSE abandoned \ {p}
  /\ open' = open \cup {p}
  /\ Return(p, "deposit")

Bet(p) ==
  /\ p \in open
  /\ betsLeft[p] > 0
  /\ betsLeft' = [betsLeft EXCEPT ![p] = @ - 1]
  /\ Return(p, "bet")
  /\ UNCHANGED <<open, abandoned>>

(* Fault: the withdraw comes with the last bet still to be made.           *)
WithdrawEarly(p) ==
  /\ p \in open
  /\ betsLeft[p] <= 1
  /\ p \notin abandoned
  /\ open' = open \ {p}
  /\ Return(p, "withdraw")
  /\ UNCHANGED <<betsLeft, abandoned>>

Withdraw(p) ==
  /\ p \in open
  /\ betsLeft[p] = 0
  /\ p \notin abandoned
  /\ open' = open \ {p}
  /\ Return(p, "withdraw")
  /\ UNCHANGED <<betsLeft, abandoned>>

NextEvent(p) == (Deposit(p) \/ Bet(p) \/ Withdraw(p)) /\ UNCHANGED cfg

Next == \E p \in Pick : NextEvent(p)

Spec == Init /\ [][Next]_vars

-----------------------------------------------------------------------------
(* Properties.                                                             *)

(* Type invariant.                                                         *)
TypeOK ==
  /\ cfg \in Configs
  /\ open \subseteq Ids
  /\ betsLeft \in [Ids -> Nat]
  /\ abandoned \subseteq Ids
  /\ event \in [partition: Int, kind: {"none", "deposit", "bet", "withdraw"}]
  /\ bets \in [Ids -> Nat]
  /\ prefix \in [Ids -> {"none", "d", "db", "matched"}]
  /\ retained \subseteq Ids

(* Every withdraw completes a match of the pattern: the generator gives one *)
(* only after a deposit and at least one bet, however the chains of the     *)
(* partitions interleave (unless bets_min is 0).                            *)
WithdrawsMatch ==
  [][event'.kind = "withdraw" /\ cfg.betsMin > 0 => prefix[event'.partition] = "db"]_vars

(* A chain that ends, completed by a withdraw or abandoned for the next      *)
(* deposit, made as many bets as the configuration allows: an abandoned one *)
(* "runs its bets and then stops".                                          *)
ChainsRunTheirBets ==
  [][event'.partition \in open /\ event'.kind # "bet"
       => bets[event'.partition] \in cfg.betsMin .. cfg.betsMax]_vars

(* "Chains holding a buffered `d b+` prefix with no withdraw yet" is what    *)
(* open_chains() says it counts: a partition that holds one is counted.     *)
(* The prefix of an abandoned chain breaks this, and nothing else does: see *)
(* MissesOnlyAbandoned.                                                     *)
PrefixesCounted == retained \cup {p \in Ids : prefix[p] = "db"} \subseteq open

(* With a hot_count that is not negative, partitions are 1 to `partitions'  *)
(* and the sentinel's partition 0 is never one of the load's.               *)
PartitionsInRange == cfg.hotCount >= 0 => open \subseteq 1 .. cfg.partitions
=================================================================================
