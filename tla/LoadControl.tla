------------------------------ MODULE LoadControl -------------------------------
(***************************************************************************)
(* The console's control plane: the HTTP handlers that start and stop the  *)
(* one load, rebuild the pipeline and start a probe                        *)
(* (web/bench-web/src/api.rs), the aggregator's reaper (ws.rs), the probe  *)
(* task (probe.rs), and what they share: the run slot with its lock, the   *)
(* load field of the header, the probe flag (state.rs).                    *)
(*                                                                         *)
(* A handler runs on its own until it awaits, so each stretch between two  *)
(* awaits is one action; it is cut in two where another thread can see the *)
(* difference.  A client has one request open at a time.  A run is only    *)
(* its phase here: RunLoop models what it does, and says that a run nobody *)
(* stopped ends well only at its row target.  Statistics, and the events   *)
(* the handlers publish, are left out.                                     *)
(***************************************************************************)
EXTENDS Naturals, FiniteSets

CONSTANTS
  Clients,   \* HTTP clients
  Runs,      \* identities of runs: its size bounds the number of starts
  NoRun,     \* no run
  Free,      \* nobody
  Disconnects \* the clients that may go away before they are answered

ASSUME NoRunAssumption == NoRun \notin Runs
ASSUME FreeAssumption == Free \notin Clients
ASSUME DisconnectsAssumption == Disconnects \subseteq Clients

VARIABLES
  slot,      \* AppState::run, the handle in it
  lock,      \* who holds AppState::run across an await
  pc,        \* where the handler of each client's request is
  hold,      \* the run whose handle that handler took out of the slot
  reaping,   \* the run whose handle the aggregator took out of the slot
  phase,     \* of every run: "live" until its progress says done
  full,      \* runs that reached their row target
  cancelled, \* runs whose token is cancelled
  load,      \* Status::load
  absent,    \* Status::pipeline is "absent": nothing else it says matters here
  probing,   \* AppState::probe_running
  probe      \* the probe task spawned for a client: its sentinel mode

handlerVars == <<pc, hold>>
runVars == <<phase, full, cancelled>>
statusVars == <<load, absent>>
probeVars == <<probing, probe>>
vars == <<slot, lock, handlerVars, reaping, runVars, statusVars, probeVars>>

Init ==
  /\ slot = NoRun
  /\ lock = Free
  /\ pc = [c \in Clients |-> "idle"]
  /\ hold = [c \in Clients |-> NoRun]
  /\ reaping = NoRun
  /\ phase = [r \in Runs |-> "unused"]
  /\ full = {}
  /\ cancelled = {}
  /\ load = "stopped"
  /\ absent = FALSE
  /\ probing = FALSE
  /\ probe = [c \in Clients |-> "none"]

(* is_finished(): the task has returned.                                   *)
Ended(r) == phase[r] \in {"ok", "err"}

(* progress().done: said before the task returns, and never by one that    *)
(* failed.                                                                 *)
Done(r) == phase[r] \in {"done", "ok"}

(* A handler goes on to its next await, or answers.                        *)
Goto(c, label) == pc' = [pc EXCEPT ![c] = label]
Keep(c, r) == hold' = [hold EXCEPT ![c] = r]
Answer(c) == Goto(c, "idle") /\ Keep(c, NoRun)

-----------------------------------------------------------------------------
(* The runs.                                                               *)

(* The last Progress says done.  A run nobody stopped is at its target.    *)
RunDone(r) ==
  /\ phase[r] = "live"
  /\ phase' = [phase EXCEPT ![r] = "done"]
  /\ full' \in IF r \in cancelled THEN {full, full \cup {r}} ELSE {full \cup {r}}
  /\ UNCHANGED <<slot, lock, handlerVars, reaping, cancelled, statusVars, probeVars>>

RunReturns(r) ==
  /\ phase[r] = "done"
  /\ phase' = [phase EXCEPT ![r] = "ok"]
  /\ UNCHANGED <<slot, lock, handlerVars, reaping, full, cancelled, statusVars, probeVars>>

(* A statement fails, or the task panics.                                  *)
RunFails(r) ==
  /\ phase[r] = "live"
  /\ phase' = [phase EXCEPT ![r] = "err"]
  /\ UNCHANGED <<slot, lock, handlerVars, reaping, full, cancelled, statusVars, probeVars>>

-----------------------------------------------------------------------------
(* load/start.                                                             *)

(* The pipeline is looked at before the lock is asked for.                 *)
RequestStart(c) ==
  /\ pc[c] = "idle"
  /\ ~absent
  /\ Goto(c, "start")
  /\ UNCHANGED <<slot, lock, hold, reaping, runVars, statusVars, probeVars>>

(* 409: the slot holds a run that is not done, dead or alive.              *)
StartRefused(c) ==
  /\ pc[c] = "start"
  /\ lock = Free
  /\ slot # NoRun /\ ~Done(slot)
  /\ Answer(c)
  /\ UNCHANGED <<slot, lock, reaping, runVars, statusVars, probeVars>>

(* Fault: whatever run is in the slot is replaced.                         *)
StartLocksAny(c) ==
  /\ pc[c] = "start"
  /\ lock = Free
  /\ lock' = c
  /\ Keep(c, slot)
  /\ slot' = NoRun
  /\ Goto(c, IF slot = NoRun THEN "connect" ELSE "joinOld")
  /\ UNCHANGED <<reaping, runVars, statusVars, probeVars>>

(* Fault: the lock is not kept across the awaits that follow.              *)
StartForgetsLock(c) ==
  /\ pc[c] = "start"
  /\ lock = Free
  /\ slot # NoRun => Done(slot)
  /\ Keep(c, slot)
  /\ slot' = NoRun
  /\ Goto(c, IF slot = NoRun THEN "connect" ELSE "joinOld")
  /\ UNCHANGED <<lock, reaping, runVars, statusVars, probeVars>>

(* The lock is kept from here on; a run that is done is taken to be joined. *)
StartLocks(c) ==
  /\ pc[c] = "start"
  /\ lock = Free
  /\ slot # NoRun => Done(slot)
  /\ lock' = c
  /\ Keep(c, slot)
  /\ slot' = NoRun
  /\ Goto(c, IF slot = NoRun THEN "connect" ELSE "joinOld")
  /\ UNCHANGED <<reaping, runVars, statusVars, probeVars>>

OldJoined(c) ==
  /\ pc[c] = "joinOld"
  /\ Ended(hold[c])
  /\ Goto(c, "connect")
  /\ Keep(c, NoRun)
  /\ UNCHANGED <<slot, lock, reaping, runVars, statusVars, probeVars>>

(* run::start succeeds: the task is spawned, its handle is in the slot, and *)
(* the lock is released before the status is set.                          *)
Started(c) ==
  /\ pc[c] = "connect"
  /\ \E r \in Runs :
       /\ phase[r] = "unused"
       /\ phase' = [phase EXCEPT ![r] = "live"]
       /\ slot' = r
  /\ lock' = Free
  /\ Goto(c, "started")
  /\ UNCHANGED <<hold, reaping, full, cancelled, statusVars, probeVars>>

(* 500: no connection.  The status is left as it was.                      *)
StartFails(c) ==
  /\ pc[c] = "connect"
  /\ lock' = Free
  /\ Answer(c)
  /\ UNCHANGED <<slot, reaping, runVars, statusVars, probeVars>>

StartAnswers(c) ==
  /\ pc[c] = "started"
  /\ load' = "running"
  /\ Answer(c)
  /\ UNCHANGED <<slot, lock, reaping, runVars, absent, probeVars>>

-----------------------------------------------------------------------------
(* load/stop.                                                              *)

RequestStop(c) ==
  /\ pc[c] = "idle"
  /\ Goto(c, "stop")
  /\ UNCHANGED <<slot, lock, hold, reaping, runVars, statusVars, probeVars>>

StopRefused(c) ==
  /\ pc[c] = "stop"
  /\ lock = Free
  /\ slot = NoRun
  /\ Answer(c)
  /\ UNCHANGED <<slot, lock, reaping, runVars, statusVars, probeVars>>

(* Fault: the handle stays in the slot until it has been joined.           *)
StopLeavesHandle(c) ==
  /\ pc[c] = "stop"
  /\ lock = Free
  /\ slot # NoRun
  /\ Keep(c, slot)
  /\ Goto(c, "cancel")
  /\ UNCHANGED <<slot, lock, reaping, runVars, statusVars, probeVars>>

(* The handle is taken and the lock is released at once.                   *)
StopTakes(c) ==
  /\ pc[c] = "stop"
  /\ lock = Free
  /\ slot # NoRun
  /\ Keep(c, slot)
  /\ slot' = NoRun
  /\ Goto(c, "cancel")
  /\ UNCHANGED <<lock, reaping, runVars, statusVars, probeVars>>

StopCancels(c) ==
  /\ pc[c] = "cancel"
  /\ cancelled' = cancelled \cup {hold[c]}
  /\ Goto(c, "join")
  /\ UNCHANGED <<slot, lock, hold, reaping, phase, full, statusVars, probeVars>>

StopAnswers(c) ==
  /\ pc[c] = "join"
  /\ Ended(hold[c])
  /\ load' = "stopped"
  /\ Answer(c)
  /\ UNCHANGED <<slot, lock, reaping, runVars, absent, probeVars>>

-----------------------------------------------------------------------------
(* pipeline/rebuild.                                                       *)

RequestRebuild(c) ==
  /\ pc[c] = "idle"
  /\ Goto(c, "rebuild")
  /\ UNCHANGED <<slot, lock, hold, reaping, runVars, statusVars, probeVars>>

RebuildFindsNoLoad(c) ==
  /\ pc[c] = "rebuild"
  /\ lock = Free
  /\ slot = NoRun
  /\ Goto(c, "drop")
  /\ UNCHANGED <<slot, lock, hold, reaping, runVars, statusVars, probeVars>>

(* Fault: the load is joined without being stopped.                        *)
RebuildForgetsToken(c) ==
  /\ pc[c] = "rebuild"
  /\ lock = Free
  /\ slot # NoRun
  /\ lock' = c
  /\ Keep(c, slot)
  /\ slot' = NoRun
  /\ Goto(c, "joinLoad")
  /\ UNCHANGED <<reaping, runVars, statusVars, probeVars>>

(* Fault: the lock is given back before the load is joined, as load/stop   *)
(* does.                                                                   *)
RebuildFreesLock(c) ==
  /\ pc[c] = "rebuild"
  /\ lock = Free
  /\ slot # NoRun
  /\ Keep(c, slot)
  /\ slot' = NoRun
  /\ cancelled' = cancelled \cup {slot}
  /\ Goto(c, "joinLoad")
  /\ UNCHANGED <<lock, reaping, phase, full, statusVars, probeVars>>

(* The load is stopped, and joined with the lock held.                     *)
RebuildStopsLoad(c) ==
  /\ pc[c] = "rebuild"
  /\ lock = Free
  /\ slot # NoRun
  /\ lock' = c
  /\ Keep(c, slot)
  /\ slot' = NoRun
  /\ cancelled' = cancelled \cup {slot}
  /\ Goto(c, "joinLoad")
  /\ UNCHANGED <<reaping, phase, full, statusVars, probeVars>>

(* However the load ended, the rebuild goes on, and the lock is released.  *)
RebuildJoinsLoad(c) ==
  /\ pc[c] = "joinLoad"
  /\ Ended(hold[c])
  /\ load' = "stopped"
  /\ lock' = Free
  /\ Goto(c, "drop")
  /\ Keep(c, NoRun)
  /\ UNCHANGED <<slot, reaping, runVars, absent, probeVars>>

(* A connection is made and the subscription is dropped: the setup SQL,    *)
(* which drops the tables and creates them again, can be run.              *)
DropSubscription(c) ==
  /\ pc[c] = "drop"
  /\ Goto(c, "setup")
  /\ UNCHANGED <<slot, lock, hold, reaping, runVars, statusVars, probeVars>>

RebuildAnswers(c) ==
  /\ pc[c] = "setup"
  /\ absent' = FALSE
  /\ Answer(c)
  /\ UNCHANGED <<slot, lock, reaping, runVars, load, probeVars>>

(* 500: the connection, or one of the statements, fails.                   *)
RebuildFails(c) ==
  /\ pc[c] \in {"drop", "setup"}
  /\ Answer(c)
  /\ UNCHANGED <<slot, lock, reaping, runVars, statusVars, probeVars>>

-----------------------------------------------------------------------------
(* probe/start, and the probe task it spawns.                              *)

RequestProbe(c) ==
  /\ pc[c] = "idle"
  /\ Goto(c, "probe")
  /\ UNCHANGED <<slot, lock, hold, reaping, runVars, statusVars, probeVars>>

ProbeRefused(c) ==
  /\ pc[c] = "probe"
  /\ probing
  /\ Answer(c)
  /\ UNCHANGED <<slot, lock, reaping, runVars, statusVars, probeVars>>

(* Fault: the flag is set without being looked at.                         *)
ProbeClaimsAlways(c) ==
  /\ pc[c] = "probe"
  /\ probing' = TRUE
  /\ Goto(c, "sentinel")
  /\ UNCHANGED <<slot, lock, hold, reaping, runVars, statusVars, probe>>

(* The flag is looked at and set under its own lock.                       *)
ProbeClaims(c) ==
  /\ pc[c] = "probe"
  /\ ~probing
  /\ probing' = TRUE
  /\ Goto(c, "sentinel")
  /\ UNCHANGED <<slot, lock, hold, reaping, runVars, statusVars, probe>>

(* The sentinel mode is settled for the whole probe by the run that is in  *)
(* the slot now.                                                           *)
ProbeSpawns(c) ==
  /\ pc[c] = "sentinel"
  /\ lock = Free
  /\ probe' = [probe EXCEPT ![c] = IF slot # NoRun /\ ~Done(slot) THEN "off" ELSE "on"]
  /\ Answer(c)
  /\ UNCHANGED <<slot, lock, reaping, runVars, statusVars, probing>>

(* However its rounds went, the task clears the flag.                      *)
ProbeEnds(c) ==
  /\ probe[c] # "none"
  /\ probe' = [probe EXCEPT ![c] = "none"]
  /\ probing' = FALSE
  /\ UNCHANGED <<slot, lock, handlerVars, reaping, runVars, statusVars>>

-----------------------------------------------------------------------------
(* The background tasks, and clients that go away.                         *)

(* Fault: a run counts as dead when its progress says done.                *)
ReapDone ==
  /\ reaping = NoRun
  /\ lock = Free
  /\ slot # NoRun
  /\ Done(slot)
  /\ reaping' = slot
  /\ slot' = NoRun
  /\ UNCHANGED <<lock, handlerVars, runVars, statusVars, probeVars>>

(* The aggregator's tick finds that the run in the slot has returned.      *)
Reap ==
  /\ reaping = NoRun
  /\ lock = Free
  /\ slot # NoRun
  /\ Ended(slot)
  /\ reaping' = slot
  /\ slot' = NoRun
  /\ UNCHANGED <<lock, handlerVars, runVars, statusVars, probeVars>>

(* It joins the run, without the lock, and says how the run ended.         *)
ReapReports ==
  /\ reaping # NoRun
  /\ load' = IF phase[reaping] = "ok" THEN "finished" ELSE "failed"
  /\ reaping' = NoRun
  /\ UNCHANGED <<slot, lock, handlerVars, runVars, absent, probeVars>>

(* The status poller: it reads a database that is not modelled here.       *)
Poll ==
  /\ absent' \in BOOLEAN
  /\ UNCHANGED <<slot, lock, handlerVars, reaping, runVars, load, probeVars>>

LockAwaits == {"start", "stop", "rebuild", "sentinel"}
Awaits == {"joinOld", "connect", "join", "joinLoad", "drop", "setup"} \cup LockAwaits

(* The client closes its connection while its handler awaits: the server   *)
(* drops the handler there, and with it the lock and the handle it has.    *)
(* Asking for a lock that is free is no wait.                              *)
Disconnect(c) ==
  /\ c \in Disconnects
  /\ pc[c] \in Awaits
  /\ pc[c] \in LockAwaits => lock # Free
  /\ Answer(c)
  /\ lock' = IF lock = c THEN Free ELSE lock
  /\ UNCHANGED <<slot, reaping, runVars, statusVars, probeVars>>

-----------------------------------------------------------------------------
Request(c) == RequestStart(c) \/ RequestStop(c) \/ RequestRebuild(c) \/ RequestProbe(c)

(* The steps that need the run lock, and those that do not.                *)
Lock(c) ==
  \/ StartRefused(c) \/ StartLocks(c)
  \/ StopRefused(c) \/ StopTakes(c)
  \/ RebuildFindsNoLoad(c) \/ RebuildStopsLoad(c)
  \/ ProbeSpawns(c)

Step(c) ==
  \/ OldJoined(c) \/ Started(c) \/ StartFails(c) \/ StartAnswers(c)
  \/ StopCancels(c) \/ StopAnswers(c)
  \/ RebuildJoinsLoad(c) \/ DropSubscription(c) \/ RebuildAnswers(c) \/ RebuildFails(c)
  \/ ProbeRefused(c) \/ ProbeClaims(c)

Next ==
  \/ \E c \in Clients : Request(c) \/ Lock(c) \/ Step(c) \/ ProbeEnds(c) \/ Disconnect(c)
  \/ \E r \in Runs : RunDone(r) \/ RunReturns(r) \/ RunFails(r)
  \/ Reap \/ ReapReports
  \/ Poll

(* A handler goes on when what it awaits is there, and the run lock, which *)
(* is first come first served, is not withheld from one of those that wait *)
(* for it.  A run ends if it is told to, and returns once it is done.      *)
Fairness ==
  /\ \A c \in Clients : SF_vars(Lock(c)) /\ WF_vars(Step(c)) /\ WF_vars(ProbeEnds(c))
  /\ \A r \in Runs : /\ WF_vars(r \in cancelled /\ (RunDone(r) \/ RunFails(r)))
                     /\ WF_vars(RunReturns(r))
  /\ SF_vars(Reap) /\ WF_vars(ReapReports)

Spec == Init /\ [][Next]_vars /\ Fairness

-----------------------------------------------------------------------------
(* Properties.                                                             *)

Locked == {"joinOld", "connect", "joinLoad"}
Labels == Awaits \cup {"idle", "started", "cancel", "probe"}

(* Type invariant.                                                         *)
TypeOK ==
  /\ slot \in Runs \cup {NoRun}
  /\ lock \in Clients \cup {Free}
  /\ pc \in [Clients -> Labels]
  /\ hold \in [Clients -> Runs \cup {NoRun}]
  /\ reaping \in Runs \cup {NoRun}
  /\ phase \in [Runs -> {"unused", "live", "done", "ok", "err"}]
  /\ full \subseteq Runs
  /\ cancelled \subseteq Runs
  /\ load \in {"stopped", "running", "finished", "failed"}
  /\ absent \in BOOLEAN
  /\ probing \in BOOLEAN
  /\ probe \in [Clients -> {"none", "on", "off"}]

AboutToStop(r) == \E c \in Clients : pc[c] = "cancel" /\ hold[c] = r

(* No load is ever out of reach: one that writes and was not told to stop   *)
(* is in the slot, where load/stop finds it, or in the hands of a load/stop *)
(* about to cancel it - whichever clients go away, and when.                *)
NoOrphanLoad ==
  \A r \in Runs :
    phase[r] = "live" /\ r \notin cancelled => slot = r \/ AboutToStop(r)

(* When the reaper is about to say "finished (row target reached)", the run *)
(* it joined did reach its target: a run that was stopped never gets there. *)
FinishedMeansTarget ==
  reaping # NoRun /\ phase[reaping] = "ok" => reaping \in full

(* Nobody waits in vain.  The lock is with a handler that is past its await *)
(* for it, never with one that left or asks for it again; and what a       *)
(* handler waits for with or without it ends: a run that was told to stop, *)
(* or one that is done.                                                    *)
WaitsEnd ==
  /\ lock # Free => pc[lock] \in Locked
  /\ \A c \in Clients :
       /\ pc[c] \in {"join", "joinLoad"} => hold[c] \in cancelled
       /\ pc[c] = "joinOld" => Done(hold[c])

(* At the moment a rebuild turns to the pipeline no load has been started   *)
(* behind its back while it waited for the one it found: any that still     *)
(* writes is one that a load/stop or another rebuild took before, which has *)
(* told it to stop or is about to.                                          *)
RebuildBeginsQuiet ==
  [][\A c \in Clients : pc[c] # "drop" /\ pc'[c] = "drop" =>
       \A r \in Runs : phase[r] = "live" => r \in cancelled \/ AboutToStop(r)]_vars

(* One probe at a time, counting one that is about to be spawned.           *)
OneProbe ==
  Cardinality({c \in Clients : probe[c] # "none"})
    + Cardinality({c \in Clients : pc[c] = "sentinel"}) <= 1

(* Every request is answered: no handler waits for ever for the lock, for a *)
(* run to return, or for one of the others.                                 *)
RequestsAnswered == \A c \in Clients : pc[c] # "idle" ~> pc[c] = "idle"

(* A run that ended by itself does not stay in the slot, where it would     *)
(* refuse every start.                                                      *)
DeadLoadLeaves == \A r \in Runs : slot = r /\ Ended(r) ~> slot # r

(* Every run, as Run has it.                                               *)
AsRun(r) == INSTANCE Run WITH
  phase <- phase[r], full <- r \in full, cancelled <- r \in cancelled

(* The runs do what RunLoop is shown to do, each on its own, and nothing is *)
(* done to one but starting it once and telling it to stop.                 *)
RunsSpec ==
  /\ \A r \in Runs : AsRun(r)!Init
  /\ [][\A r \in Runs : [AsRun(r)!Next]_(AsRun(r)!vars)]_vars

(* The slot and the handles taken out of it, as Custody sees them.          *)
AsCustody == INSTANCE Custody WITH
  started <- {r \in Runs : phase[r] # "unused"},
  live <- {r \in Runs : phase[r] = "live"},
  kept <- {slot} \ {NoRun},
  taken <- {hold[c] : c \in {d \in Clients : pc[d] = "cancel"}},
  told <- cancelled

(* The handlers, the reaper and clients that go away keep the promise of    *)
(* Custody: one slot, filled when empty, that a load which writes leaves    *)
(* only to be told to stop.                                                 *)
CustodySpec == AsCustody!Spec

(* "One load": no two runs write at the same time.                          *)
OneLoadAtATime == Cardinality({r \in Runs : phase[r] = "live"}) <= 1
=================================================================================
