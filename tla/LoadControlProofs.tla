--------------------------- MODULE LoadControlProofs ----------------------------
(***************************************************************************)
(* Proofs about LoadControl, for any set of clients, any of which may go   *)
(* away, and any number of runs.                                           *)
(***************************************************************************)
EXTENDS LoadControl, FiniteSetTheorems, TLAPS

(* A load/stop about to cancel a run has its handle.                       *)
CancelsARun == \A c \in Clients : pc[c] = "cancel" => hold[c] \in Runs

LEMMA TypeInvariant == Spec => [](TypeOK /\ CancelsARun)
<1> DEFINE Inv == TypeOK /\ CancelsARun
<1>1. Init => Inv
  BY DEF Init, CancelsARun, TypeOK, Labels, Awaits, LockAwaits
<1>2. Inv /\ [Next]_vars => Inv'
  <2> SUFFICES ASSUME Inv, [Next]_vars PROVE Inv'
    OBVIOUS
  <2> USE NoRunAssumption, FreeAssumption
      DEF CancelsARun, TypeOK, Labels, Awaits, LockAwaits, handlerVars, runVars, statusVars, probeVars,
              Goto, Keep, Answer
  <2>1. ASSUME NEW c \in Clients, Request(c) PROVE Inv'
    BY <2>1 DEF Request, RequestStart, RequestStop, RequestRebuild, RequestProbe
  <2>2. ASSUME NEW c \in Clients, Lock(c) PROVE Inv'
    <3>1. CASE StartRefused(c) \/ StartLocks(c)
      BY <3>1 DEF StartRefused, StartLocks
    <3>2. CASE StopRefused(c) \/ StopTakes(c)
      BY <3>2 DEF StopRefused, StopTakes
    <3>3. CASE RebuildFindsNoLoad(c) \/ RebuildStopsLoad(c)
      BY <3>3 DEF RebuildFindsNoLoad, RebuildStopsLoad
    <3>4. CASE ProbeSpawns(c)
      BY <3>4 DEF ProbeSpawns
    <3> QED
      BY <2>2, <3>1, <3>2, <3>3, <3>4 DEF Lock
  <2>3. ASSUME NEW c \in Clients, Step(c) PROVE Inv'
    <3>1. CASE OldJoined(c) \/ StartFails(c) \/ StartAnswers(c)
      BY <3>1 DEF OldJoined, StartFails, StartAnswers
    <3>2. CASE Started(c)
      BY <3>2 DEF Started
    <3>3. CASE StopCancels(c)
      BY <3>3 DEF StopCancels
    <3>4. CASE StopAnswers(c) \/ RebuildJoinsLoad(c) \/ DropSubscription(c)
      BY <3>4 DEF StopAnswers, RebuildJoinsLoad, DropSubscription
    <3>5. CASE RebuildAnswers(c) \/ RebuildFails(c)
      BY <3>5 DEF RebuildAnswers, RebuildFails
    <3>6. CASE ProbeRefused(c) \/ ProbeClaims(c)
      BY <3>6 DEF ProbeRefused, ProbeClaims
    <3> QED
      BY <2>3, <3>1, <3>2, <3>3, <3>4, <3>5, <3>6 DEF Step
  <2>4. ASSUME NEW c \in Clients, ProbeEnds(c) \/ Disconnect(c) PROVE Inv'
    BY <2>4 DEF ProbeEnds, Disconnect
  <2>5. ASSUME NEW r \in Runs, RunDone(r) \/ RunReturns(r) \/ RunFails(r) PROVE Inv'
    BY <2>5 DEF RunDone, RunReturns, RunFails
  <2>6. CASE Reap \/ ReapReports \/ Poll
    BY <2>6 DEF Reap, ReapReports, Poll
  <2>7. CASE UNCHANGED vars
    BY <2>7 DEF vars
  <2> QED
    BY <2>1, <2>2, <2>3, <2>4, <2>5, <2>6, <2>7 DEF Next
<1> QED
  BY <1>1, <1>2, PTL DEF Spec

(* The types of all variables are preserved by every handler and task.     *)
THEOREM TypeCorrect == Spec => []TypeOK
BY TypeInvariant, PTL

-----------------------------------------------------------------------------
(***************************************************************************)
(* Where the handle of a run can be.  Whoever keeps the run lock across an *)
(* await has emptied the slot; a run leaves the slot before it is          *)
(* cancelled; the slot, the reaper and a handler about to cancel never     *)
(* have the same run.                                                      *)
(***************************************************************************)

HolderEmptiedSlot == \A c \in Clients : pc[c] \in Locked => lock = c /\ slot = NoRun

SlotNotCancelled == slot # NoRun => slot \notin cancelled /\ phase[slot] # "unused"

ReapedNotCancelled ==
  reaping # NoRun => reaping \notin cancelled /\ reaping # slot /\ Ended(reaping)

HandleOnce ==
  \A c \in Clients :
    pc[c] = "cancel" => /\ hold[c] # slot
                        /\ hold[c] # reaping
                        /\ phase[hold[c]] # "unused"

NothingHeldYet == \A c \in Clients : pc[c] \in {"idle", "rebuild"} => hold[c] = NoRun

CancelledAreStarted == \A r \in cancelled : phase[r] # "unused"

DoneIsFull == \A r \in Runs : Done(r) /\ r \notin cancelled => r \in full

HandleInv ==
  /\ HolderEmptiedSlot
  /\ SlotNotCancelled
  /\ ReapedNotCancelled
  /\ HandleOnce
  /\ NothingHeldYet
  /\ CancelledAreStarted
  /\ DoneIsFull
  /\ NoOrphanLoad

LEMMA Handles == Spec => []HandleInv
<1>1. Init => HandleInv
  BY DEF Init, HandleInv, HolderEmptiedSlot, SlotNotCancelled, ReapedNotCancelled, HandleOnce,
         NothingHeldYet, CancelledAreStarted, DoneIsFull, NoOrphanLoad, AboutToStop, Locked, Done
<1>2. TypeOK /\ CancelsARun /\ HandleInv /\ [Next]_vars => HandleInv'
  <2> SUFFICES ASSUME TypeOK, CancelsARun, HandleInv, [Next]_vars PROVE HandleInv'
    OBVIOUS
  <2> USE NoRunAssumption, FreeAssumption
      DEF HandleInv, HolderEmptiedSlot, SlotNotCancelled, ReapedNotCancelled, HandleOnce,
          NothingHeldYet, CancelledAreStarted, DoneIsFull, NoOrphanLoad, AboutToStop, Locked, Done, Ended,
          TypeOK, CancelsARun, Labels, Awaits, LockAwaits,
          handlerVars, runVars, statusVars, probeVars, Goto, Keep, Answer
  <2>1. ASSUME NEW c \in Clients, Request(c) PROVE HandleInv'
    <3>1. CASE RequestStart(c)
      BY <3>1 DEF RequestStart
    <3>2. CASE RequestStop(c)
      BY <3>2 DEF RequestStop
    <3>3. CASE RequestRebuild(c)
      BY <3>3 DEF RequestRebuild
    <3>4. CASE RequestProbe(c)
      BY <3>4 DEF RequestProbe
    <3> QED
      BY <2>1, <3>1, <3>2, <3>3, <3>4 DEF Request
  <2>2. ASSUME NEW c \in Clients, Lock(c) PROVE HandleInv'
    <3>1. CASE StartRefused(c)
      BY <3>1 DEF StartRefused
    <3>2. CASE StartLocks(c)
      BY <3>2 DEF StartLocks
    <3>3. CASE StopRefused(c)
      BY <3>3 DEF StopRefused
    <3>4. CASE StopTakes(c)
      <4>1. /\ slot \in Runs /\ slot' = NoRun
            /\ \A d \in Clients : IF d = c THEN pc'[d] = "cancel" /\ hold'[d] = slot
                                          ELSE pc'[d] = pc[d] /\ hold'[d] = hold[d]
            /\ UNCHANGED <<lock, reaping, phase, full, cancelled>>
        BY <3>4 DEF StopTakes
      <4>2. HandleOnce'
        BY <4>1
      <4>3. ASSUME NEW r \in Runs, phase'[r] = "live", r \notin cancelled'
            PROVE  \E d \in Clients : pc'[d] = "cancel" /\ hold'[d] = r
        <5>1. CASE slot = r
          BY <4>1, <5>1
        <5>2. CASE slot # r
          <6>1. PICK d \in Clients : pc[d] = "cancel" /\ hold[d] = r
            BY <4>1, <4>3, <5>2
          <6>2. d # c
            BY <3>4, <6>1 DEF StopTakes
          <6> QED
            BY <4>1, <6>1, <6>2
        <5> QED
          BY <5>1, <5>2
      <4>4. HolderEmptiedSlot' /\ NothingHeldYet'
        BY <3>4, <4>1 DEF StopTakes
      <4>5. NoOrphanLoad'
        BY <4>3
      <4>6. SlotNotCancelled' /\ ReapedNotCancelled' /\ CancelledAreStarted' /\ DoneIsFull'
        BY <4>1
      <4> QED
        BY <4>2, <4>4, <4>5, <4>6
    <3>5. CASE RebuildFindsNoLoad(c)
      BY <3>5 DEF RebuildFindsNoLoad
    <3>6. CASE RebuildStopsLoad(c)
      BY <3>6 DEF RebuildStopsLoad
    <3>7. CASE ProbeSpawns(c)
      BY <3>7 DEF ProbeSpawns
    <3> QED
      BY <2>2, <3>1, <3>2, <3>3, <3>4, <3>5, <3>6, <3>7 DEF Lock
  <2>3. ASSUME NEW c \in Clients, Step(c) PROVE HandleInv'
    <3>1. CASE OldJoined(c)
      BY <3>1 DEF OldJoined
    <3>2. CASE Started(c)
      BY <3>2 DEF Started
    <3>3. CASE StartFails(c)
      BY <3>3 DEF StartFails
    <3>4. CASE StartAnswers(c)
      BY <3>4 DEF StartAnswers
    <3>5. CASE StopCancels(c)
      BY <3>5 DEF StopCancels
    <3>6. CASE StopAnswers(c)
      BY <3>6 DEF StopAnswers
    <3>7. CASE RebuildJoinsLoad(c)
      BY <3>7 DEF RebuildJoinsLoad
    <3>8. CASE DropSubscription(c)
      BY <3>8 DEF DropSubscription
    <3>9. CASE RebuildAnswers(c)
      BY <3>9 DEF RebuildAnswers
    <3>10. CASE RebuildFails(c)
      BY <3>10 DEF RebuildFails
    <3>11. CASE ProbeRefused(c)
      BY <3>11 DEF ProbeRefused
    <3>12. CASE ProbeClaims(c)
      BY <3>12 DEF ProbeClaims
    <3> QED
      BY <2>3, <3>1, <3>2, <3>3, <3>4, <3>5, <3>6, <3>7, <3>8, <3>9, <3>10, <3>11, <3>12 DEF Step
  <2>4. ASSUME NEW c \in Clients, ProbeEnds(c) \/ Disconnect(c) PROVE HandleInv'
    <3>1. CASE ProbeEnds(c)
      BY <3>1 DEF ProbeEnds
    <3>2. CASE Disconnect(c)
      BY <3>2 DEF Disconnect
    <3> QED
      BY <2>4, <3>1, <3>2
  <2>5. ASSUME NEW r \in Runs, RunDone(r) \/ RunReturns(r) \/ RunFails(r) PROVE HandleInv'
    <3>1. CASE RunDone(r)
      BY <3>1 DEF RunDone
    <3>2. CASE RunReturns(r)
      BY <3>2 DEF RunReturns
    <3>3. CASE RunFails(r)
      BY <3>3 DEF RunFails
    <3> QED
      BY <2>5, <3>1, <3>2, <3>3
  <2>6. CASE Reap
    BY <2>6 DEF Reap
  <2>7. CASE ReapReports
    BY <2>7 DEF ReapReports
  <2>8. CASE Poll
    BY <2>8 DEF Poll
  <2>9. CASE UNCHANGED vars
    BY <2>9 DEF vars
  <2> QED
    BY <2>1, <2>2, <2>3, <2>4, <2>5, <2>6, <2>7, <2>8, <2>9 DEF Next
<1> QED
  BY <1>1, <1>2, TypeInvariant, PTL DEF Spec

(* Whichever clients go away, and when: a load that writes and was not told *)
(* to stop is in the slot, or with a load/stop about to cancel it.          *)
THEOREM NoLoadOutOfReach == Spec => []NoOrphanLoad
<1>1. HandleInv => NoOrphanLoad
  BY DEF HandleInv
<1> QED
  BY <1>1, Handles, PTL

(* The reaper says "finished" only of a run that reached its row target.    *)
THEOREM FinishedIsTrue == Spec => []FinishedMeansTarget
<1>1. TypeOK /\ HandleInv => FinishedMeansTarget
  BY NoRunAssumption DEF TypeOK, HandleInv, ReapedNotCancelled, DoneIsFull, Done,
                         FinishedMeansTarget
<1> QED
  BY <1>1, TypeCorrect, Handles, PTL

(* A rebuild turns to the pipeline with the slot empty, as it has been since *)
(* it took the lock, so a load that still writes was taken before to be     *)
(* told to stop.                                                           *)
THEOREM RebuildBegins == Spec => RebuildBeginsQuiet
<1> DEFINE Quiet ==
      \A c \in Clients : pc[c] # "drop" /\ pc'[c] = "drop" =>
        \A r \in Runs : phase[r] = "live" => r \in cancelled \/ AboutToStop(r)
<1>1. TypeOK /\ HandleInv /\ [Next]_vars => Quiet
  <2> SUFFICES ASSUME TypeOK, HandleInv, [Next]_vars,
                      NEW c \in Clients, pc[c] # "drop", pc'[c] = "drop"
               PROVE  slot = NoRun
    BY NoRunAssumption DEF HandleInv, NoOrphanLoad
  <2>1. RebuildFindsNoLoad(c) \/ RebuildJoinsLoad(c)
    BY DEF Next, vars, handlerVars, Goto, Answer, TypeOK, Request, RequestStart, RequestStop,
       RequestRebuild, RequestProbe, Lock, StartRefused, StartLocks, StopRefused, StopTakes,
       RebuildFindsNoLoad, RebuildStopsLoad, ProbeSpawns, Step, OldJoined, Started,
       StartFails, StartAnswers, StopCancels, StopAnswers, RebuildJoinsLoad,
       DropSubscription, RebuildAnswers, RebuildFails, ProbeRefused, ProbeClaims, ProbeEnds,
       Disconnect, RunDone, RunReturns, RunFails, Reap, ReapReports, Poll
  <2> QED
    BY <2>1 DEF RebuildFindsNoLoad, RebuildJoinsLoad, HandleInv, HolderEmptiedSlot, Locked
<1> QED
  BY <1>1, TypeCorrect, Handles, PTL DEF Spec, RebuildBeginsQuiet

-----------------------------------------------------------------------------
(***************************************************************************)
(* Probes.  Without the flag nobody probes; with it, one client at most.   *)
(***************************************************************************)

Probes(c) == probe[c] # "none"
Claims(c) == pc[c] = "sentinel"

ProbeInv ==
  /\ \A c \in Clients : Probes(c) \/ Claims(c) => probing
  /\ \A c, d \in Clients : Probes(c) /\ Probes(d) => c = d
  /\ \A c, d \in Clients : Claims(c) /\ Claims(d) => c = d
  /\ \A c, d \in Clients : ~(Probes(c) /\ Claims(d))

LEMMA ProbesAreOne == Spec => []ProbeInv
<1>1. Init => ProbeInv
  BY DEF Init, ProbeInv, Probes, Claims
<1>2. TypeOK /\ ProbeInv /\ [Next]_vars => ProbeInv'
  <2> SUFFICES ASSUME TypeOK, ProbeInv, [Next]_vars PROVE ProbeInv'
    OBVIOUS
  <2> USE DEF ProbeInv, Probes, Claims, TypeOK, probeVars, Goto, Keep, Answer
  <2>1. ASSUME NEW c \in Clients, Request(c) PROVE ProbeInv'
    BY <2>1 DEF Request, RequestStart, RequestStop, RequestRebuild, RequestProbe
  <2>2. ASSUME NEW c \in Clients, Lock(c) PROVE ProbeInv'
    <3>1. CASE ProbeSpawns(c)
      BY <3>1 DEF ProbeSpawns
    <3>2. CASE ~ProbeSpawns(c)
      BY <2>2, <3>2 DEF Lock, StartRefused, StartLocks, StopRefused, StopTakes,
                        RebuildFindsNoLoad, RebuildStopsLoad
    <3> QED
      BY <3>1, <3>2
  <2>3. ASSUME NEW c \in Clients, Step(c) PROVE ProbeInv'
    <3>1. CASE ProbeClaims(c)
      BY <3>1 DEF ProbeClaims
    <3>2. CASE ~ProbeClaims(c)
      <4>1. /\ UNCHANGED probeVars
            /\ \E label \in Labels \ {"sentinel"} : pc' = [pc EXCEPT ![c] = label]
        BY <2>3, <3>2 DEF Step, OldJoined, Started, StartFails, StartAnswers, StopCancels,
           StopAnswers, RebuildJoinsLoad, DropSubscription, RebuildAnswers, RebuildFails,
           ProbeRefused, Labels, Awaits, LockAwaits
      <4> QED
        BY <4>1
    <3> QED
      BY <3>1, <3>2
  <2>4. ASSUME NEW c \in Clients, ProbeEnds(c) PROVE ProbeInv'
    BY <2>4 DEF ProbeEnds, handlerVars
  <2>5. ASSUME NEW c \in Clients, Disconnect(c) PROVE ProbeInv'
    BY <2>5 DEF Disconnect
  <2>6. ASSUME NEW r \in Runs, RunDone(r) \/ RunReturns(r) \/ RunFails(r) PROVE ProbeInv'
    BY <2>6 DEF RunDone, RunReturns, RunFails, handlerVars
  <2>7. CASE Reap \/ ReapReports \/ Poll
    BY <2>7 DEF Reap, ReapReports, Poll, handlerVars
  <2>8. CASE UNCHANGED vars
    BY <2>8 DEF vars, handlerVars
  <2> QED
    BY <2>1, <2>2, <2>3, <2>4, <2>5, <2>6, <2>7, <2>8 DEF Next
<1> QED
  BY <1>1, <1>2, TypeCorrect, PTL DEF Spec

(* A set with at most one element.                                         *)
LEMMA AtMostOne ==
  ASSUME NEW S, \A x, y \in S : x = y
  PROVE  Cardinality(S) \in {0, 1} /\ (S = {} => Cardinality(S) = 0)
<1>1. CASE S = {}
  BY <1>1, FS_EmptySet
<1>2. CASE S # {}
  <2>1. PICK x \in S : S = {x}
    BY <1>2
  <2> QED
    BY <1>2, <2>1, FS_Singleton
<1> QED
  BY <1>1, <1>2

(* There is at most one probe, counting one about to be spawned.            *)
THEOREM OneProbeAtATime == Spec => []OneProbe
<1>1. ProbeInv => OneProbe
  <2> SUFFICES ASSUME ProbeInv PROVE OneProbe
    OBVIOUS
  <2> DEFINE P == {c \in Clients : probe[c] # "none"}
             Q == {c \in Clients : pc[c] = "sentinel"}
  <2>1. /\ \A x, y \in P : x = y
        /\ \A x, y \in Q : x = y
        /\ P = {} \/ Q = {}
    BY DEF ProbeInv, Probes, Claims
  <2>2. Cardinality(P) + Cardinality(Q) <= 1 => OneProbe
    BY DEF OneProbe
  <2> HIDE DEF P, Q
  <2>3. /\ Cardinality(P) \in {0, 1} /\ (P = {} => Cardinality(P) = 0)
        /\ Cardinality(Q) \in {0, 1} /\ (Q = {} => Cardinality(Q) = 0)
    BY <2>1, AtMostOne
  <2> QED
    BY <2>1, <2>2, <2>3
<1> QED
  BY <1>1, ProbesAreOne, PTL

-----------------------------------------------------------------------------
(***************************************************************************)
(* Waiting.  Besides WaitsEnd: a handle is taken out of the slot by one    *)
(* load/stop, which is the first to cancel it, and a start joins a run.    *)
(***************************************************************************)

TakenOnce ==
  \A c \in Clients :
    pc[c] = "cancel" => /\ hold[c] \notin cancelled
                        /\ \A d \in Clients : pc[d] = "cancel" /\ hold[d] = hold[c] => d = c

JoinsARun == \A c \in Clients : pc[c] = "joinOld" => hold[c] \in Runs

WaitInv == WaitsEnd /\ TakenOnce /\ JoinsARun

LEMMA Waits == Spec => []WaitInv
<1>1. Init => WaitInv
  BY DEF Init, WaitInv, WaitsEnd, TakenOnce, JoinsARun
<1>2. TypeOK /\ CancelsARun /\ HandleInv /\ WaitInv /\ [Next]_vars => WaitInv'
  <2> SUFFICES ASSUME TypeOK, CancelsARun, HandleInv, WaitInv, [Next]_vars PROVE WaitInv'
    OBVIOUS
  <2>a. /\ \A c \in Clients : pc[c] \in Locked => lock = c
        /\ slot # NoRun => slot \notin cancelled
        /\ \A c \in Clients : pc[c] = "cancel" => hold[c] # slot
    BY DEF HandleInv, HolderEmptiedSlot, SlotNotCancelled, HandleOnce
  <2> USE NoRunAssumption, FreeAssumption
      DEF WaitInv, WaitsEnd, TakenOnce, JoinsARun, Locked, Done, Ended, TypeOK, CancelsARun,
          Labels, Awaits, LockAwaits,
          handlerVars, runVars, statusVars, probeVars, Goto, Keep, Answer
  <2>1. ASSUME NEW c \in Clients, Request(c) PROVE WaitInv'
    BY <2>1 DEF Request, RequestStart, RequestStop, RequestRebuild, RequestProbe
  <2>2. ASSUME NEW c \in Clients, Lock(c) PROVE WaitInv'
    <3>1. CASE StartRefused(c) \/ StopRefused(c) \/ RebuildFindsNoLoad(c) \/ ProbeSpawns(c)
      BY <3>1 DEF StartRefused, StopRefused, RebuildFindsNoLoad, ProbeSpawns
    <3>2. CASE StartLocks(c)
      BY <3>2 DEF StartLocks
    <3>3. CASE StopTakes(c)
      BY <2>a, <3>3 DEF StopTakes
    <3>4. CASE RebuildStopsLoad(c)
      BY <2>a, <3>4 DEF RebuildStopsLoad
    <3> QED
      BY <2>2, <3>1, <3>2, <3>3, <3>4 DEF Lock
  <2>3. ASSUME NEW c \in Clients, Step(c) PROVE WaitInv'
    <3>1. CASE OldJoined(c) \/ StartAnswers(c) \/ StopAnswers(c)
      BY <2>a, <3>1 DEF OldJoined, StartAnswers, StopAnswers
    <3>2. CASE Started(c)
      BY <2>a, <3>2 DEF Started
    <3>3. CASE StartFails(c) \/ RebuildJoinsLoad(c)
      BY <2>a, <3>3 DEF StartFails, RebuildJoinsLoad
    <3>4. CASE StopCancels(c)
      BY <2>a, <3>4 DEF StopCancels
    <3>5. CASE DropSubscription(c) \/ RebuildAnswers(c) \/ RebuildFails(c)
      BY <3>5 DEF DropSubscription, RebuildAnswers, RebuildFails
    <3>6. CASE ProbeRefused(c) \/ ProbeClaims(c)
      BY <3>6 DEF ProbeRefused, ProbeClaims
    <3> QED
      BY <2>3, <3>1, <3>2, <3>3, <3>4, <3>5, <3>6 DEF Step
  <2>4. ASSUME NEW c \in Clients, ProbeEnds(c) PROVE WaitInv'
    BY <2>4 DEF ProbeEnds
  <2>5. ASSUME NEW c \in Clients, Disconnect(c) PROVE WaitInv'
    BY <2>5 DEF Disconnect
  <2>6. ASSUME NEW r \in Runs, RunDone(r) \/ RunReturns(r) \/ RunFails(r) PROVE WaitInv'
    <3>1. /\ UNCHANGED <<lock, pc, hold, cancelled>>
          /\ \A q \in Runs : phase[q] \in {"done", "ok"} => phase'[q] \in {"done", "ok"}
      BY <2>6 DEF RunDone, RunReturns, RunFails
    <3> QED
      BY <3>1
  <2>7. CASE Reap \/ ReapReports \/ Poll
    BY <2>7 DEF Reap, ReapReports, Poll
  <2>8. CASE UNCHANGED vars
    BY <2>8 DEF vars
  <2> QED
    BY <2>1, <2>2, <2>3, <2>4, <2>5, <2>6, <2>7, <2>8 DEF Next
<1> QED
  BY <1>1, <1>2, TypeInvariant, Handles, PTL DEF Spec

(* For any number of clients: the run lock is with a handler past its await *)
(* for it, and whatever a handler joins was told to stop or is done.       *)
THEOREM NobodyWaitsInVain == Spec => []WaitsEnd
<1>1. WaitInv => WaitsEnd
  BY DEF WaitInv
<1> QED
  BY <1>1, Waits, PTL

-----------------------------------------------------------------------------
(***************************************************************************)
(* LoadControl implements Custody: each step is one of Custody's for the   *)
(* run it moves, or changes nothing that Custody sees.                     *)
(***************************************************************************)

StartedRuns == {r \in Runs : phase[r] # "unused"}
LiveRuns == {r \in Runs : phase[r] = "live"}
Kept == {slot} \ {NoRun}
Taken == {hold[c] : c \in {d \in Clients : pc[d] = "cancel"}}

LEMMA CustodyStep ==
  ASSUME TypeOK, CancelsARun, HandleInv, WaitInv, [Next]_vars
  PROVE  [AsCustody!Next]_(AsCustody!vars)
<1>a. /\ \A c \in Clients : pc[c] \in Locked => slot = NoRun
      /\ slot # NoRun => slot \notin cancelled /\ phase[slot] # "unused"
      /\ reaping # NoRun => Ended(reaping)
  BY DEF HandleInv, HolderEmptiedSlot, SlotNotCancelled, ReapedNotCancelled
<1> DEFINE Still == /\ StartedRuns' = StartedRuns /\ LiveRuns' = LiveRuns
                    /\ Kept' = Kept /\ Taken' = Taken /\ cancelled' = cancelled
<1>b. Still => UNCHANGED AsCustody!vars
  BY DEF AsCustody!vars, StartedRuns, LiveRuns, Kept, Taken
<1>c. /\ \A r \in Runs : AsCustody!End(r) => AsCustody!Next
      /\ \A r \in Runs : AsCustody!Start(r) => AsCustody!Next
      /\ \A r \in Runs : AsCustody!Take(r) => AsCustody!Next
      /\ \A r \in Runs : AsCustody!Tell(r) => AsCustody!Next
      /\ \A r \in Runs : AsCustody!Stop(r) => AsCustody!Next
      /\ \A r \in Runs : AsCustody!LetGo(r) => AsCustody!Next
  BY DEF AsCustody!Next
<1> USE NoRunAssumption, FreeAssumption
    DEF TypeOK, CancelsARun, Done, Ended, Labels, Awaits, LockAwaits,
        handlerVars, runVars, statusVars, probeVars, Goto, Keep, Answer
(* A handler that goes on to another label than "cancel" keeps what is taken.*)
<1>d. ASSUME NEW c \in Clients, pc[c] # "cancel", NEW label \in Labels, label # "cancel",
             pc' = [pc EXCEPT ![c] = label],
             \A d \in Clients : d # c => hold'[d] = hold[d]
      PROVE  Taken' = Taken
  BY <1>d DEF Taken
<1>1. ASSUME NEW r \in Runs, RunDone(r) \/ RunFails(r) PROVE AsCustody!End(r)
  <2>1. /\ phase[r] = "live" /\ UNCHANGED <<slot, pc, hold, cancelled>>
        /\ \E p \in {"done", "err"} : phase' = [phase EXCEPT ![r] = p]
    BY <1>1 DEF RunDone, RunFails
  <2> QED
    BY <2>1 DEF AsCustody!End
<1>2. ASSUME NEW r \in Runs, RunReturns(r) PROVE Still
  BY <1>2 DEF RunReturns, StartedRuns, LiveRuns, Kept, Taken
<1>3. ASSUME NEW c \in Clients, Started(c) PROVE \E r \in Runs : AsCustody!Start(r)
  <2>1. PICK r \in Runs : /\ phase[r] = "unused" /\ phase' = [phase EXCEPT ![r] = "live"]
                          /\ slot' = r
    BY <1>3 DEF Started
  <2>2. /\ pc[c] = "connect" /\ slot = NoRun /\ pc' = [pc EXCEPT ![c] = "started"]
        /\ hold' = hold /\ cancelled' = cancelled
    BY <1>3, <1>a DEF Started, Locked
  <2>3. Taken' = Taken
    BY <1>d, <2>2
  <2>4. /\ StartedRuns' = StartedRuns \cup {r} /\ LiveRuns' = LiveRuns \cup {r}
        /\ Kept = {} /\ Kept' = {r} /\ r \notin StartedRuns
    BY <2>1, <2>2 DEF StartedRuns, LiveRuns, Kept
  <2> QED
    BY <2>2, <2>3, <2>4 DEF AsCustody!Start, StartedRuns, LiveRuns, Kept, Taken
<1>4. ASSUME NEW c \in Clients, StopTakes(c) PROVE \E r \in Runs : AsCustody!Take(r)
  <2>1. /\ slot \in Runs /\ slot' = NoRun /\ pc[c] = "stop"
        /\ pc' = [pc EXCEPT ![c] = "cancel"] /\ hold' = [hold EXCEPT ![c] = slot]
        /\ UNCHANGED <<phase, cancelled>>
    BY <1>4 DEF StopTakes
  <2>4. PICK r \in Runs : r = slot
    BY <2>1
  <2>2. Taken' = Taken \cup {slot}
    BY <2>1 DEF Taken
  <2>3. Kept = {slot} /\ Kept' = {} /\ StartedRuns' = StartedRuns /\ LiveRuns' = LiveRuns
    BY <2>1 DEF Kept, StartedRuns, LiveRuns
  <2>5. AsCustody!Take(r)
    BY <2>1, <2>2, <2>3, <2>4 DEF AsCustody!Take, StartedRuns, LiveRuns, Kept, Taken
  <2> QED
    BY <2>5
<1>5. ASSUME NEW c \in Clients, StopCancels(c) PROVE \E r \in Runs : AsCustody!Tell(r)
  <2>1. /\ pc[c] = "cancel" /\ pc' = [pc EXCEPT ![c] = "join"] /\ hold' = hold
        /\ cancelled' = cancelled \cup {hold[c]} /\ UNCHANGED <<phase, slot>>
    BY <1>5 DEF StopCancels
  <2>2. Taken' = Taken \ {hold[c]} /\ hold[c] \in Taken
    BY <2>1 DEF Taken, WaitInv, TakenOnce
  <2>3. Kept' = Kept /\ StartedRuns' = StartedRuns /\ LiveRuns' = LiveRuns
    BY <2>1 DEF Kept, StartedRuns, LiveRuns
  <2>4. PICK r \in Runs : r = hold[c]
    BY <2>1 DEF WaitInv, TakenOnce
  <2>5. AsCustody!Tell(r)
    BY <2>1, <2>2, <2>3, <2>4 DEF AsCustody!Tell, StartedRuns, LiveRuns, Kept, Taken
  <2> QED
    BY <2>5
<1>6. ASSUME NEW c \in Clients, RebuildStopsLoad(c) PROVE AsCustody!Stop(slot)
  <2>1. /\ slot \in Runs /\ slot' = NoRun /\ pc[c] = "rebuild"
        /\ pc' = [pc EXCEPT ![c] = "joinLoad"] /\ hold' = [hold EXCEPT ![c] = slot]
        /\ cancelled' = cancelled \cup {slot} /\ UNCHANGED phase
    BY <1>6 DEF RebuildStopsLoad
  <2>2. Taken' = Taken
    BY <1>d, <2>1
  <2>3. Kept = {slot} /\ Kept' = {} /\ StartedRuns' = StartedRuns /\ LiveRuns' = LiveRuns
    BY <2>1 DEF Kept, StartedRuns, LiveRuns
  <2> QED
    BY <2>1, <2>2, <2>3 DEF AsCustody!Stop, StartedRuns, LiveRuns, Kept, Taken
(* What empties the slot of a run that has ended.                          *)
<1>e. ASSUME slot \in Runs, phase[slot] # "live", slot' = NoRun, Taken' = Taken,
             UNCHANGED <<phase, cancelled>>
      PROVE  AsCustody!LetGo(slot)
  <2>1. Kept = {slot} /\ Kept' = {} /\ StartedRuns' = StartedRuns /\ LiveRuns' = LiveRuns
    BY <1>e DEF Kept, StartedRuns, LiveRuns
  <2> QED
    BY <1>e, <2>1 DEF AsCustody!LetGo, StartedRuns, LiveRuns, Kept, Taken
<1>7. ASSUME NEW c \in Clients, StartLocks(c) PROVE AsCustody!Next \/ Still
  <2>1. /\ pc[c] = "start"
        /\ slot # NoRun => Done(slot)
        /\ slot' = NoRun /\ hold' = [hold EXCEPT ![c] = slot]
        /\ UNCHANGED <<phase, cancelled>>
    BY <1>7 DEF StartLocks
  <2>2. PICK label \in {"connect", "joinOld"} : pc' = [pc EXCEPT ![c] = label]
    BY <1>7 DEF StartLocks
  <2>3. Taken' = Taken
    <3>1. \A d \in Clients : d # c => hold'[d] = hold[d]
      BY <2>1
    <3> QED
      BY <1>d, <2>1, <2>2, <3>1
  <2>4. CASE slot = NoRun
    <3>1. Kept' = Kept /\ StartedRuns' = StartedRuns /\ LiveRuns' = LiveRuns
      BY <2>1, <2>4 DEF Kept, StartedRuns, LiveRuns
    <3> QED
      BY <2>1, <2>3, <3>1
  <2>5. CASE slot # NoRun
    <3>1. slot \in Runs /\ phase[slot] # "live"
      BY <2>1, <2>5
    <3>2. AsCustody!LetGo(slot)
      BY <1>e, <2>1, <2>3, <3>1
    <3> QED
      BY <3>1, <3>2 DEF AsCustody!Next
  <2> QED
    BY <2>4, <2>5
<1>8. CASE Reap
  <2>1. /\ slot \in Runs /\ Ended(slot) /\ slot' = NoRun
        /\ UNCHANGED <<pc, hold, phase, cancelled>>
    BY <1>8 DEF Reap
  <2>2. Taken' = Taken
    BY <2>1 DEF Taken
  <2>3. slot \in Runs /\ AsCustody!LetGo(slot)
    BY <1>e, <2>1, <2>2
  <2> QED
    BY <1>c, <2>3
<1>9. ASSUME NEW c \in Clients,
             \/ StartRefused(c) \/ StopRefused(c) \/ RebuildFindsNoLoad(c) \/ ProbeSpawns(c)
             \/ OldJoined(c) \/ StartFails(c) \/ StartAnswers(c) \/ StopAnswers(c)
             \/ RebuildJoinsLoad(c) \/ DropSubscription(c) \/ RebuildAnswers(c)
             \/ RebuildFails(c) \/ ProbeRefused(c) \/ ProbeClaims(c)
             \/ Request(c) \/ Disconnect(c)
      PROVE  Still
  <2>1. /\ pc[c] # "cancel" /\ UNCHANGED <<slot, phase, cancelled>>
        /\ \E label \in Labels \ {"cancel"} : pc' = [pc EXCEPT ![c] = label]
        /\ \E x \in Runs \cup {NoRun} : hold' = [hold EXCEPT ![c] = x]
    <3>1. \/ hold' = hold \/ hold' = [hold EXCEPT ![c] = NoRun]
      BY <1>9 DEF StartRefused, StopRefused, RebuildFindsNoLoad, ProbeSpawns, OldJoined,
         StartFails, StartAnswers, StopAnswers, RebuildJoinsLoad, DropSubscription,
         RebuildAnswers, RebuildFails, ProbeRefused, ProbeClaims, Request, RequestStart,
         RequestStop, RequestRebuild, RequestProbe, Disconnect
    <3>2. \E x \in Runs \cup {NoRun} : hold' = [hold EXCEPT ![c] = x]
      BY <3>1
    <3>3. pc[c] # "cancel" /\ UNCHANGED <<slot, phase, cancelled>>
      BY <1>9 DEF StartRefused, StopRefused, RebuildFindsNoLoad, ProbeSpawns, OldJoined,
         StartFails, StartAnswers, StopAnswers, RebuildJoinsLoad, DropSubscription,
         RebuildAnswers, RebuildFails, ProbeRefused, ProbeClaims, Request, RequestStart,
         RequestStop, RequestRebuild, RequestProbe, Disconnect
    <3>4. \E label \in {"idle", "start", "stop", "rebuild", "probe", "connect", "drop",
                        "setup", "sentinel"} : pc' = [pc EXCEPT ![c] = label]
      BY <1>9 DEF StartRefused, StopRefused, RebuildFindsNoLoad, ProbeSpawns, OldJoined,
         StartFails, StartAnswers, StopAnswers, RebuildJoinsLoad, DropSubscription,
         RebuildAnswers, RebuildFails, ProbeRefused, ProbeClaims, Request, RequestStart,
         RequestStop, RequestRebuild, RequestProbe, Disconnect
    <3> QED
      BY <3>2, <3>3, <3>4
  <2>2. Taken' = Taken
    BY <1>d, <2>1
  <2> QED
    BY <2>1, <2>2 DEF Kept, StartedRuns, LiveRuns
<1>10. CASE ReapReports \/ Poll \/ UNCHANGED vars \/ (\E c \in Clients : ProbeEnds(c))
  BY <1>b, <1>10 DEF ReapReports, Poll, vars, ProbeEnds, Kept, StartedRuns, LiveRuns, Taken
<1>11. ASSUME NEW c \in Clients, Lock(c) PROVE AsCustody!Next \/ UNCHANGED AsCustody!vars
  <2>1. CASE StopTakes(c)
    BY <1>c, <1>4, <2>1
  <2>2. CASE RebuildStopsLoad(c)
    <3>1. slot \in Runs
      BY <2>2 DEF RebuildStopsLoad
    <3> QED
      BY <1>6, <2>2, <3>1 DEF AsCustody!Next
  <2>3. CASE StartLocks(c)
    BY <1>b, <1>7, <2>3
  <2> QED
    BY <1>b, <1>9, <1>11, <2>1, <2>2, <2>3 DEF Lock
<1>12. ASSUME NEW c \in Clients, Step(c) PROVE AsCustody!Next \/ UNCHANGED AsCustody!vars
  <2>1. CASE Started(c)
    BY <1>c, <1>3, <2>1
  <2>2. CASE StopCancels(c)
    BY <1>c, <1>5, <2>2
  <2> QED
    BY <1>b, <1>9, <1>12, <2>1, <2>2 DEF Step
<1> QED
  BY <1>b, <1>c, <1>1, <1>2, <1>8, <1>9, <1>10, <1>11, <1>12 DEF Next

(* For any clients, any of which may go away at any await: the slot and the *)
(* handles taken out of it keep the promise of Custody.                    *)
THEOREM ImplementsCustody == Spec => CustodySpec
<1>1. Init => AsCustody!Init
  BY NoRunAssumption DEF Init, AsCustody!Init
<1> QED
  BY <1>1, CustodyStep, TypeInvariant, Handles, Waits, PTL DEF Spec, CustodySpec, AsCustody!Spec

-----------------------------------------------------------------------------
(***************************************************************************)
(* The runs.  What the handlers do to a run is to start one that was never *)
(* used, and to cancel one that was started.                               *)
(***************************************************************************)

LEMMA RunsStep ==
  ASSUME TypeOK, CancelsARun, HandleInv, [Next]_vars, NEW r \in Runs
  PROVE  [AsRun(r)!Next]_(AsRun(r)!vars)
<1>q. UNCHANGED runVars => UNCHANGED AsRun(r)!vars
  BY DEF runVars, AsRun!vars
<1>1. ASSUME NEW x \in Runs, RunDone(x) \/ RunReturns(x) \/ RunFails(x)
      PROVE  [AsRun(r)!Next]_(AsRun(r)!vars)
  <2>1. CASE x # r
    <3>1. phase'[r] = phase[r] /\ (r \in full' <=> r \in full) /\ cancelled' = cancelled
      BY <1>1, <2>1 DEF RunDone, RunReturns, RunFails, TypeOK
    <3> QED
      BY <3>1 DEF AsRun!vars
  <2>2. CASE x = r /\ RunDone(r)
    <3>1. /\ phase[r] = "live" /\ phase'[r] = "done" /\ cancelled' = cancelled
          /\ r \in full' \/ r \in cancelled
      BY <2>2 DEF RunDone, TypeOK
    <3>2. AsRun(r)!SayDone
      BY <3>1 DEF AsRun!SayDone
    <3> QED
      BY <3>2 DEF AsRun!Next
  <2>3. CASE x = r /\ RunReturns(r)
    <3>1. AsRun(r)!Return
      BY <2>3 DEF RunReturns, AsRun!Return, TypeOK
    <3> QED
      BY <3>1 DEF AsRun!Next
  <2>4. CASE x = r /\ RunFails(r)
    <3>1. AsRun(r)!Fail
      BY <2>4 DEF RunFails, AsRun!Fail, TypeOK
    <3> QED
      BY <3>1 DEF AsRun!Next
  <2> QED
    BY <1>1, <2>1, <2>2, <2>3, <2>4
<1>2. ASSUME NEW c \in Clients, Started(c) PROVE [AsRun(r)!Next]_(AsRun(r)!vars)
  <2>1. PICK x \in Runs : phase[x] = "unused" /\ phase' = [phase EXCEPT ![x] = "live"]
    BY <1>2 DEF Started
  <2>2. UNCHANGED <<full, cancelled>>
    BY <1>2 DEF Started
  <2>3. CASE x # r
    BY <2>1, <2>2, <2>3 DEF AsRun!vars, TypeOK
  <2>4. CASE x = r
    <3>1. AsRun(r)!Start
      BY <2>1, <2>2, <2>4 DEF AsRun!Start, TypeOK
    <3> QED
      BY <3>1 DEF AsRun!Next
  <2> QED
    BY <2>3, <2>4
<1>3. ASSUME NEW c \in Clients, StopCancels(c) \/ RebuildStopsLoad(c)
      PROVE  [AsRun(r)!Next]_(AsRun(r)!vars)
  <2>1. PICK x \in Runs : phase[x] # "unused" /\ cancelled' = cancelled \cup {x}
    BY <1>3 DEF StopCancels, RebuildStopsLoad, HandleInv, SlotNotCancelled, HandleOnce,
       CancelsARun, TypeOK
  <2>2. UNCHANGED <<phase, full>>
    BY <1>3 DEF StopCancels, RebuildStopsLoad
  <2>3. CASE x # r
    BY <2>1, <2>2, <2>3 DEF AsRun!vars
  <2>4. CASE x = r
    <3>1. AsRun(r)!Cancel
      BY <2>1, <2>2, <2>4 DEF AsRun!Cancel
    <3> QED
      BY <3>1 DEF AsRun!Next
  <2> QED
    BY <2>3, <2>4
<1>4. ASSUME NEW c \in Clients,
             \/ Request(c) \/ ProbeEnds(c) \/ Disconnect(c)
             \/ StartRefused(c) \/ StartLocks(c) \/ StopRefused(c) \/ StopTakes(c)
             \/ RebuildFindsNoLoad(c) \/ ProbeSpawns(c)
             \/ OldJoined(c) \/ StartFails(c) \/ StartAnswers(c) \/ StopAnswers(c)
             \/ RebuildJoinsLoad(c) \/ DropSubscription(c) \/ RebuildAnswers(c)
             \/ RebuildFails(c) \/ ProbeRefused(c) \/ ProbeClaims(c)
      PROVE  UNCHANGED runVars
  BY <1>4 DEF Request, RequestStart, RequestStop, RequestRebuild, RequestProbe, ProbeEnds,
     Disconnect, StartRefused, StartLocks, StopRefused, StopTakes, RebuildFindsNoLoad,
     ProbeSpawns, OldJoined, StartFails, StartAnswers, StopAnswers, RebuildJoinsLoad,
     DropSubscription, RebuildAnswers, RebuildFails, ProbeRefused, ProbeClaims
<1>5. CASE Reap \/ ReapReports \/ Poll \/ UNCHANGED vars
  BY <1>q, <1>5 DEF Reap, ReapReports, Poll, vars
<1> QED
  BY <1>q, <1>1, <1>2, <1>3, <1>4, <1>5 DEF Next, Lock, Step

(* For any clients and runs: each run does what RunLoop is shown to do.    *)
THEOREM RunsAreRuns == Spec => RunsSpec
<1>1. Init => \A r \in Runs : AsRun(r)!Init
  BY DEF Init, AsRun!Init
<1>2. TypeOK /\ CancelsARun /\ HandleInv /\ [Next]_vars
        => [\A r \in Runs : [AsRun(r)!Next]_(AsRun(r)!vars)]_vars
  BY RunsStep
<1> QED
  BY <1>1, <1>2, TypeInvariant, Handles, PTL DEF Spec, RunsSpec
=================================================================================
