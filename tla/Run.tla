----------------------------------- MODULE Run -----------------------------------
(***************************************************************************)
(* A run as those who hold its handle see it: whether it still writes, has *)
(* said that it is done, has returned, or failed; whether it reached its   *)
(* row target; and whether it was told to stop.  RunLoop implements this,  *)
(* and LoadControl takes no more than this of its runs.                    *)
(***************************************************************************)

VARIABLES
  phase,     \* "unused" until it is started, and then "live"
  full,      \* it reached its row target
  cancelled  \* its token is cancelled

vars == <<phase, full, cancelled>>

Init ==
  /\ phase \in {"unused", "live"}
  /\ full = FALSE
  /\ cancelled = FALSE

Start ==
  /\ phase = "unused"
  /\ phase' = "live"
  /\ UNCHANGED <<full, cancelled>>

(* The handle outlives the task: it can be used when the run has ended.    *)
Cancel ==
  /\ phase # "unused"
  /\ cancelled' = TRUE
  /\ UNCHANGED <<phase, full>>

(* A run that nobody stopped is done only at its target.                   *)
SayDone ==
  /\ phase = "live"
  /\ phase' = "done"
  /\ full' \in BOOLEAN /\ (full' \/ cancelled)
  /\ UNCHANGED cancelled

Return ==
  /\ phase = "done"
  /\ phase' = "ok"
  /\ UNCHANGED <<full, cancelled>>

Fail ==
  /\ phase = "live"
  /\ phase' = "err"
  /\ UNCHANGED <<full, cancelled>>

Next == Start \/ Cancel \/ SayDone \/ Return \/ Fail

Spec == Init /\ [][Next]_vars
==================================================================================
