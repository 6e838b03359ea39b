---------------------------------- MODULE Feed ----------------------------------
(***************************************************************************)
(* What a load promises to whoever drives it, with no word of batches,     *)
(* pacing or cancellation: rows are stored, the progress it reports never  *)
(* runs ahead of what is stored, and once it has ended nothing is written  *)
(* and nothing more is reported.  A load that ends well has reported       *)
(* exactly what it stored.  RunLoop implements this specification.         *)
(***************************************************************************)
EXTENDS Naturals

VARIABLES
  stored,    \* number of rows in the table
  reported,  \* rows_sent of the last Progress the driver can see
  outcome    \* "running", "done" or "failed"

vars == <<stored, reported, outcome>>

Init ==
  /\ stored = 0
  /\ reported = 0
  /\ outcome = "running"

(* One INSERT lands; the load may or may not say so.                       *)
Store ==
  /\ outcome = "running"
  /\ stored' \in Nat
  /\ stored' > stored
  /\ reported' \in {reported, stored'}
  /\ UNCHANGED outcome

(* The load ends well and its last report is the truth.                    *)
Complete ==
  /\ outcome = "running"
  /\ outcome' = "done"
  /\ reported' = stored
  /\ UNCHANGED stored

(* The load ends in error; its last INSERT may have landed all the same.   *)
Fail ==
  /\ outcome = "running"
  /\ outcome' = "failed"
  /\ stored' \in Nat
  /\ stored' >= stored
  /\ UNCHANGED reported

Next == Store \/ Complete \/ Fail

Spec == Init /\ [][Next]_vars
=================================================================================
