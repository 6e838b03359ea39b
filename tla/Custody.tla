--------------------------------- MODULE Custody ---------------------------------
(***************************************************************************)
(* What the console promises of the loads it starts, with no word of       *)
(* requests, awaits, locks and clients that go away: there is one slot, a  *)
(* load is started into it only when it is empty, and a load that still    *)
(* writes leaves it only to be told to stop - at once, or by whoever took  *)
(* it.  A load that was let go is never heard of again, and has ended.     *)
(* LoadControl implements this specification.                              *)
(***************************************************************************)

CONSTANT Runs  \* identities of loads

VARIABLES
  started,   \* loads that were ever started
  live,      \* those that still write
  kept,      \* the load in the slot: a set of one, or of none
  taken,     \* loads somebody took out of the slot and is about to stop
  told       \* loads that were told to stop

vars == <<started, live, kept, taken, told>>

Init ==
  /\ started = {}
  /\ live = {}
  /\ kept = {}
  /\ taken = {}
  /\ told = {}

Start(r) ==
  /\ r \notin started
  /\ kept = {}
  /\ started' = started \cup {r}
  /\ live' = live \cup {r}
  /\ kept' = {r}
  /\ UNCHANGED <<taken, told>>

(* A load ends: told to, at its row target, or in an error.                *)
End(r) ==
  /\ r \in live
  /\ live' = live \ {r}
  /\ UNCHANGED <<started, kept, taken, told>>

Take(r) ==
  /\ r \in kept
  /\ kept' = {}
  /\ taken' = taken \cup {r}
  /\ UNCHANGED <<started, live, told>>

Tell(r) ==
  /\ r \in taken
  /\ taken' = taken \ {r}
  /\ told' = told \cup {r}
  /\ UNCHANGED <<started, live, kept>>

(* Taken and told at once.                                                 *)
Stop(r) ==
  /\ r \in kept
  /\ kept' = {}
  /\ told' = told \cup {r}
  /\ UNCHANGED <<started, live, taken>>

(* Reaped, or replaced by another start.                                   *)
LetGo(r) ==
  /\ r \in kept
  /\ r \notin live
  /\ kept' = {}
  /\ UNCHANGED <<started, live, taken, told>>

Next == \E r \in Runs : Start(r) \/ End(r) \/ Take(r) \/ Tell(r) \/ Stop(r) \/ LetGo(r)

Spec == Init /\ [][Next]_vars
==================================================================================
