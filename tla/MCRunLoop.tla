------------------------------- MODULE MCRunLoop --------------------------------
(***************************************************************************)
(* RunLoop on small runs: a bulk run with tie groups that straddle batches *)
(* and a last partial batch, realtime runs paced at one row every one or   *)
(* two ticks, the batch of 0 that validate() lets through, and             *)
(* configurations validate() turns away.                                   *)
(***************************************************************************)
EXTENDS RunLoop

MCConfigs == {
  [rows |-> 5, batch |-> 2, cols |-> 0, ties |-> 3, realtime |-> FALSE, period |-> 1],
  [rows |-> 4, batch |-> 2, cols |-> 1, ties |-> 1, realtime |-> TRUE, period |-> 1],
  [rows |-> 3, batch |-> 2, cols |-> 0, ties |-> 1, realtime |-> TRUE, period |-> 2],
  [rows |-> 2, batch |-> 0, cols |-> 0, ties |-> 1, realtime |-> FALSE, period |-> 1],
  [rows |-> 0, batch |-> 2, cols |-> 0, ties |-> 1, realtime |-> TRUE, period |-> 1],
  [rows |-> 4, batch |-> 3, cols |-> 0, ties |-> 1, realtime |-> FALSE, period |-> 1],
  [rows |-> 4, batch |-> 2, cols |-> 0, ties |-> 2, realtime |-> TRUE, period |-> 1],
  [rows |-> 4, batch |-> 2, cols |-> 0, ties |-> 1, realtime |-> TRUE, period |-> 0] }

MCPeriods == {0, 1, 2}
=================================================================================
