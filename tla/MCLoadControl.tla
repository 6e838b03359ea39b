----------------------------- MODULE MCLoadControl ------------------------------
(***************************************************************************)
(* LoadControl with two clients, which send any request at any time and,   *)
(* where a run allows it, go away at any await, and with one or two loads  *)
(* started in all.                                                         *)
(***************************************************************************)
EXTENDS LoadControl

CONSTANTS c1, c2, r1, r2

MCClients == {c1, c2}
MCTwoRuns == {r1, r2}
MCOneRun == {r1}
MCNobody == {}
=================================================================================
