------------------------------ MODULE MCPipeline ------------------------------
(***************************************************************************)
(* Two rebuilds that may overlap, or a rebuild and a cluster operation or  *)
(* crash, with the reader in some behaviours and the poller in the others: *)
(* neither reads what the other one writes.                                *)
(***************************************************************************)
EXTENDS Pipeline

OneAtATime == {{"reader"}, {"poller"}}
=============================================================================
