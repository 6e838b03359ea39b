------------------------------ MODULE MCGenerator -------------------------------
(***************************************************************************)
(* Generator on two or three partitions: with and without hot ones, every  *)
(* kind of probability, chains of 0 to 2 bets, the negative hot_count that *)
(* validate() lets through, and configurations it turns away.              *)
(***************************************************************************)
EXTENDS Generator

Base == [partitions |-> 3, hotCount |-> 1, hotShare |-> "maybe", betsMin |-> 1, betsMax |-> 2,
         abandon |-> "maybe"]

MCConfigs == {
  Base,
  [Base EXCEPT !.partitions = 2, !.betsMin = 0],
  [Base EXCEPT !.partitions = 2, !.hotShare = "always", !.abandon = "never"],
  [Base EXCEPT !.hotCount = 0, !.hotShare = "never", !.abandon = "always"],
  [Base EXCEPT !.partitions = 2, !.hotCount = -1],
  [Base EXCEPT !.partitions = 2, !.hotCount = 2],
  [Base EXCEPT !.betsMin = 3] }

MCIds == 0 .. 3
=================================================================================
