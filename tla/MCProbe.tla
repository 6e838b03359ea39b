-------------------------------- MODULE MCProbe --------------------------------
(***************************************************************************)
(* Two seconds of ids, two ids each, two ticks a second: a run can be over *)
(* within its second or outlive it, use its whole block, and find its ids  *)
(* again when the clock has wrapped.                                       *)
(***************************************************************************)
EXTENDS Probe
=================================================================================
