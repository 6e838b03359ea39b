------------------------------- MODULE MCMeters -------------------------------
(***************************************************************************)
(* A window of one tick, two alerts a second of three ticks: samples are   *)
(* pruned, tokens are short or overflow, and lags back off up to the most. *)
(***************************************************************************)
EXTENDS Meters
=============================================================================
