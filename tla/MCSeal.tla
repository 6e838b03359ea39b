--------------------------------- MODULE MCSeal ---------------------------------
(***************************************************************************)
(* Seal on a feed of four matches, two unchanged reads, an engine that    *)
(* may stand still for two, and few enough reads in all for a settle to    *)
(* give up.                                                                *)
(***************************************************************************)
EXTENDS Seal
=================================================================================
