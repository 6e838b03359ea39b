---------------------------- MODULE PipelineProofs ----------------------------
(***************************************************************************)
(* What holds of Pipeline for any number of rebuilds in flight, any number *)
(* of cluster operations and any repetition limit.                         *)
(***************************************************************************)
EXTENDS Pipeline, TLAPS

(* The tables of the model, spelled out for the provers.                   *)
LEMMA NeedsTable ==
  /\ Needs("t_rt") = {} /\ Needs("mv_rt") = {"t_rt"} /\ Needs("t_rt_alerts") = {}
  /\ Needs("rt_feed") = {"mv_rt", "t_rt_alerts"}
  /\ Needs("sub_alerts") = {"t_rt_alerts"}
BY DEF Needs

LEMMA ScriptTable ==
  /\ Lasts = 10
  /\ Script[1] = Drop("sub_alerts") /\ Script[2] = Drop("sub_alerts")
  /\ Script[3] = Drop("rt_feed") /\ Script[4] = Drop("t_rt_alerts")
  /\ Script[5] = Drop("mv_rt") /\ Script[6] = Drop("t_rt")
  /\ Script[7] = Create("t_rt") /\ Script[8] = Create("mv_rt")
  /\ Script[9] = Create("t_rt_alerts") /\ Script[10] = Create("rt_feed")
BY DEF Script, Lasts

LEMMA QueriesTable ==
  /\ Len(Queries) = 3
  /\ Queries[1] = {"t_rt", "t_rt_alerts"} /\ Queries[2] = {"mv_rt"}
  /\ Queries[3] = {"rt_feed"}
BY DEF Queries

LEMMA ScriptStatements ==
  ASSUME NEW i \in 1 .. Lasts
  PROVE  Script[i] \in [do : {"drop", "create"}, obj : Objects]
<1>1. i \in {1, 2, 3, 4, 5, 6, 7, 8, 9, 10}
  BY ScriptTable
<1> QED
  BY <1>1, ScriptTable DEF Drop, Create, Objects, Pipe

-----------------------------------------------------------------------------
(* The type invariant.                                                     *)

Closed == \A o \in objs : Needs(o) \subseteq objs
Dated == declared = None <=> "t_rt" \notin objs

LEMMA TypeInit == Init => TypeOK
<1> SUFFICES ASSUME Init PROVE TypeOK
  OBVIOUS
<1>1. ops \in [Commands -> Nat]
  BY DEF Init
<1>2. objs \in SUBSET Objects /\ \A o \in objs : Needs(o) \subseteq objs
  BY NeedsTable DEF Init, Objects, Pipe
<1>3. declared \in Latenesses \cup {None} /\ (declared = None <=> "t_rt" \notin objs)
  BY LatenessAssumption DEF Init, Pipe, Latenesses
<1>4. job \in [Rebuilds -> [at : 0 .. Lasts + 1, lateness : Latenesses]]
  BY ScriptTable DEF Init, Idle, Latenesses
<1>5. poll \in Rounds /\ status \in Shown
  BY DEF Init, Round, Rounds, Shown, Queries
<1>6. reader \in Readers /\ strip \in Lines
  BY BoundAssumption DEF Init, Readers, Lines
<1> QED
  BY <1>1, <1>2, <1>3, <1>4, <1>5, <1>6, BoundAssumption DEF Init, TypeOK, Tasks

LEMMA TypeCommand ==
  ASSUME TypeOK, NEW cmd \in Commands, Command(cmd)
  PROVE  ops' \in [Commands -> Nat] /\ events' \in 0 .. MaxEvents
<1>1. events' \in 0 .. MaxEvents
  BY BoundAssumption DEF TypeOK, Command, Counted
<1>2. ops \in [Commands -> Nat] /\ ops' = [ops EXCEPT ![cmd] = ops[cmd] + 1]
  BY DEF TypeOK, Command
<1>3. ops[cmd] + 1 \in Nat
  BY <1>2
<1> QED
  BY <1>1, <1>2, <1>3

LEMMA TypeCluster ==
  ASSUME TypeOK, UNCHANGED loops, ClusterStep
  PROVE  TypeOK'
<1> USE DEF TypeOK, readerVars, rebuildVars
<1>c. "up" \in Commands /\ "down" \in Commands /\ "clean" \in Commands
  BY DEF Commands
<1>0. CASE ClusterUp
  BY <1>0, <1>c, TypeCommand DEF ClusterUp
<1>1. CASE ClusterUpFails \/ Crashes
  BY <1>1, BoundAssumption DEF ClusterUpFails, Crashes, Counted
<1>2. ASSUME NEW removed \in BOOLEAN, ClusterDown(removed) PROVE TypeOK'
  BY <1>2, <1>c, TypeCommand DEF ClusterDown, Removes
<1>3. ASSUME NEW removed \in BOOLEAN, NEW wiped \in BOOLEAN, ClusterClean(removed, wiped)
      PROVE  TypeOK'
  <2>1. reader' \in Readers
    BY <1>3 DEF ClusterClean, Readers
  <2> QED
    BY <1>3, <1>c, <2>1, TypeCommand DEF ClusterClean, Removes
<1> QED
  BY <1>0, <1>1, <1>2, <1>3 DEF ClusterStep

LEMMA TypeSaid ==
  ASSUME TypeOK, Uncounted, Boots \/ \E cmd \in Commands : ClusterSaid(cmd)
  PROVE  TypeOK'
<1>1. CASE Boots
  BY <1>1 DEF TypeOK, Uncounted, Boots, readerVars, rebuildVars
<1>2. ASSUME NEW cmd \in Commands, ClusterSaid(cmd) PROVE TypeOK'
  <2>1. ops' \in [Commands -> Nat]
    <3>1. ops \in [Commands -> Nat] /\ ops[cmd] > 0 /\ ops' = [ops EXCEPT ![cmd] = ops[cmd] - 1]
      BY <1>2 DEF TypeOK, ClusterSaid
    <3>2. ops[cmd] - 1 \in Nat
      BY <3>1
    <3> QED
      BY <3>1, <3>2
  <2>2. status' \in Shown
    BY <1>2 DEF TypeOK, ClusterSaid, Shown
  <2> QED
    BY <1>2, <2>1, <2>2 DEF TypeOK, Uncounted, ClusterSaid, readerVars, rebuildVars
<1> QED
  BY <1>1, <1>2

LEMMA TypeRebuild ==
  ASSUME TypeOK, NEW r \in Rebuilds,
         \/ UNCHANGED loops /\ RebuildStarts(r)
         \/ Uncounted /\ RebuildStep(r)
  PROVE  TypeOK'
<1>1. CASE UNCHANGED loops /\ RebuildStarts(r)
  BY <1>1, ScriptTable, BoundAssumption
     DEF TypeOK, RebuildStarts, Counted, InFlight, serverVars, readerVars, Tasks
<1>2. CASE Uncounted /\ RebuildFails(r)
  BY <1>2, ScriptTable DEF TypeOK, Uncounted, RebuildFails, serverVars, readerVars, Idle,
                           Latenesses
<1>3. CASE Uncounted /\ RebuildSaid(r)
  <2>1. status' \in Shown
    BY <1>3 DEF TypeOK, RebuildSaid, Shown
  <2>2. job' \in [Rebuilds -> [at : 0 .. Lasts + 1, lateness : Latenesses]]
    BY <1>3, ScriptTable DEF TypeOK, RebuildSaid, Idle, Latenesses
  <2> QED
    BY <1>3, <2>1, <2>2 DEF TypeOK, Uncounted, RebuildSaid, serverVars, readerVars
<1>4. CASE Uncounted /\ RebuildRuns(r)
  <2> DEFINE s == Script[job[r].at]
  <2>1. s \in [do : {"drop", "create"}, obj : Objects]
    BY <1>4, ScriptStatements DEF RebuildRuns
  <2>2. job[r].lateness \in Latenesses
    BY DEF TypeOK
  <2>3. objs' \in SUBSET Objects
    BY <1>4, <2>1 DEF RebuildRuns, TypeOK
  <2>4. Closed'
    <3>1. CASE s.do = "drop"
      BY <1>4, <2>1, <3>1 DEF RebuildRuns, Refused, TypeOK, Closed, Objects, Pipe, Needs
    <3>2. CASE s.do = "create"
      BY <1>4, <2>1, <3>2 DEF RebuildRuns, Refused, TypeOK, Closed
    <3> QED
      BY <2>1, <3>1, <3>2
  <2>5. Dated' /\ declared' \in Latenesses \cup {None}
    BY <1>4, <2>1, <2>2, LatenessAssumption DEF RebuildRuns, TypeOK, Dated, Latenesses
  <2>6. job' \in [Rebuilds -> [at : 0 .. Lasts + 1, lateness : Latenesses]]
    BY <1>4, ScriptTable DEF RebuildRuns, TypeOK
  <2>7. reader' \in Readers
    BY <1>4 DEF RebuildRuns, TypeOK, Readers
  <2> QED
    BY <1>4, <2>3, <2>4, <2>5, <2>6, <2>7
       DEF RebuildRuns, TypeOK, Closed, Dated, Uncounted, serverVars
<1> QED
  BY <1>1, <1>2, <1>3, <1>4 DEF RebuildStep

LEMMA LinesTyped ==
  /\ <<>> \in Lines /\ <<"ready", "">> \in Lines /\ <<"row", "malformed">> \in Lines
  /\ \A cause \in Causes : <<Context, cause>> \in Lines
BY DEF Context, Lines

LEMMA FailType ==
  ASSUME TypeOK, NEW cause \in Causes, Fail(cause)
  PROVE  reader' \in Readers /\ strip' \in Lines /\ session' \subseteq Tasks
<1> DEFINE line == <<Context, cause>>
           since == IF reader.last = line THEN (reader.since + 1) % RepeatEvery ELSE 0
<1>1. line \in Lines
  BY LinesTyped
<1>2. since \in 0 .. RepeatEvery - 1
  <2>1. reader.since \in Nat
    BY BoundAssumption DEF TypeOK, Readers
  <2> QED
    BY <2>1, BoundAssumption
<1>3. /\ reader' = [at |-> "connect", cursor |-> FALSE, last |-> line, since |-> since]
      /\ strip' = IF since = 0 THEN line ELSE strip
      /\ session' = session \ {"reader"}
  BY DEF Fail
<1> HIDE DEF line, since
<1> QED
  BY <1>1, <1>2, <1>3 DEF TypeOK, Readers

LEMMA TypeReader ==
  ASSUME TypeOK, Uncounted, ReaderStep \/ ReaderSkipsRow
  PROVE  TypeOK'
<1> SUFFICES /\ reader' \in Readers /\ strip' \in Lines /\ session' \subseteq Tasks
             /\ objs' \in {objs, objs \cup {"sub_alerts"}}
             /\ objs' # objs => "t_rt_alerts" \in objs
  <2>1. UNCHANGED <<loops, events, server, ops, declared, job, joined, poll, status>>
    BY DEF Uncounted, ReaderStep, ReaderSkipsRow, ReaderConnects, ReaderSubscribes,
           ReaderDeclares, ReaderFetchFails, serverVars, rebuildVars
  <2>2. objs' \in SUBSET Objects /\ \A o \in objs' : Needs(o) \subseteq objs'
    BY NeedsTable DEF TypeOK, Objects, Pipe
  <2> QED
    BY <2>1, <2>2 DEF TypeOK
<1>c. /\ "refused" \in Causes /\ "closed" \in Causes /\ "missing" \in Causes
      /\ "reader" \in Tasks
  BY DEF Causes, Tasks
<1>f. ASSUME NEW cause \in Causes, Fail(cause)
      PROVE  reader' \in Readers /\ strip' \in Lines /\ session' \subseteq Tasks
             /\ UNCHANGED objs
  BY <1>f, FailType DEF Fail
<1>1. CASE ReaderConnects
  <2>1. CASE server = "serving"
    BY <1>1, <1>c, <2>1 DEF ReaderConnects, TypeOK, Readers
  <2> QED
    BY <1>1, <1>c, <1>f, <2>1 DEF ReaderConnects
<1>2. CASE ReaderSubscribes
  <2>1. CASE "reader" \in session /\ "t_rt_alerts" \in objs
    BY <1>2, <2>1 DEF ReaderSubscribes, TypeOK, Readers
  <2> QED
    BY <1>2, <1>c, <1>f, <2>1 DEF ReaderSubscribes
<1>3. CASE ReaderDeclares
  <2>1. CASE BecomesReady /\ UNCHANGED <<session, objs>>
    <3>1. 0 \in 0 .. RepeatEvery - 1
      BY BoundAssumption
    <3>2. reader' \in Readers
      BY <2>1, <3>1, LinesTyped DEF BecomesReady, Readers
    <3>3. strip' \in Lines
      BY <2>1, LinesTyped DEF BecomesReady
    <3> QED
      BY <2>1, <3>2, <3>3 DEF TypeOK
  <2> QED
    BY <1>3, <1>c, <1>f, <2>1 DEF ReaderDeclares
<1>4. CASE ReaderFetchFails
  BY <1>4, <1>c, <1>f DEF ReaderFetchFails
<1>5. CASE ReaderSkipsRow
  BY <1>5, LinesTyped DEF ReaderSkipsRow, TypeOK
<1> QED
  BY <1>1, <1>2, <1>3, <1>4, <1>5 DEF ReaderStep

LEMMA TypePoll ==
  ASSUME TypeOK, Uncounted, PollStep
  PROVE  TypeOK'
<1> SUFFICES poll' \in Rounds /\ session' \subseteq Tasks /\ status' \in Shown
  BY DEF TypeOK, Uncounted, PollStep, PollsCluster, PollConnects, PollQueries, PollsLateness,
         PollWrites, PollRest, serverVars, rebuildVars, readerVars
<1>1. CASE \E answer \in {"told", "refused", "unspawned"} : PollsCluster(answer)
  <2>1. PICK answer \in {"told", "refused", "unspawned"} : PollsCluster(answer)
    BY <1>1
  <2> DEFINE cluster == CASE answer = "unspawned" -> "unknown"
                          [] answer = "refused" -> "down"
                          [] answer = "told" -> IF server = "down" THEN "down" ELSE "up"
             at == IF cluster = "up" THEN "connect" ELSE "write"
             pipeline == IF cluster = "down" THEN "absent" ELSE "unknown"
  <2>2. cluster \in {"unknown", "up", "down"} /\ at \in {"connect", "write"}
        /\ pipeline \in {"absent", "unknown"}
    OBVIOUS
  <2>3. poll' = [at |-> at, cluster |-> cluster, pipeline |-> pipeline,
                 lateness |-> None, asked |-> 1]
    BY <2>1 DEF PollsCluster, Round
  <2>4. UNCHANGED <<session, status>>
    BY <2>1 DEF PollsCluster, PollRest
  <2> HIDE DEF cluster, at, pipeline
  <2> QED
    BY <2>2, <2>3, <2>4 DEF Rounds, Queries, TypeOK
<1>2. CASE PollConnects
  <2>1. UNCHANGED status /\ session' \subseteq Tasks
    BY <1>2 DEF PollConnects, PollRest, Tasks, TypeOK
  <2>2. CASE server = "serving"
    <3>1. 1 \in 1 .. Len(Queries)
      BY QueriesTable
    <3>2. poll' = [poll EXCEPT !.at = "query", !.asked = 1, !.pipeline = "present"]
      BY <1>2, <2>2 DEF PollConnects
    <3> QED
      BY <2>1, <3>1, <3>2 DEF TypeOK, Rounds
  <2>3. CASE server # "serving"
    BY <1>2, <2>1, <2>3 DEF PollConnects, TypeOK, Rounds
  <2> QED
    BY <2>2, <2>3
<1>3. CASE PollQueries
  <2>1. UNCHANGED status /\ session' \subseteq Tasks
    BY <1>3 DEF PollQueries, PollRest, Tasks, TypeOK
  <2>2. CASE "poller" \notin session
    BY <1>3, <2>1, <2>2 DEF PollQueries, TypeOK, Rounds
  <2>3. CASE "poller" \in session
    <3> DEFINE found == IF Queries[poll.asked] \subseteq objs THEN poll.pipeline
                                                             ELSE "absent"
               next == IF poll.asked < Len(Queries) THEN "query"
                       ELSE IF found = "present" THEN "lateness" ELSE "write"
               asked == IF next = "query" THEN poll.asked + 1 ELSE 1
    <3>1. found \in {"unknown", "present", "absent"}
      BY DEF TypeOK, Rounds
    <3>2. next \in {"query", "lateness", "write"} /\ asked \in 1 .. Len(Queries)
      BY QueriesTable DEF TypeOK, Rounds
    <3>3. poll' = [poll EXCEPT !.at = next, !.pipeline = found, !.asked = asked]
      BY <1>3, <2>3 DEF PollQueries
    <3> HIDE DEF found, next, asked
    <3> QED
      BY <2>1, <3>1, <3>2, <3>3 DEF TypeOK, Rounds
  <2> QED
    BY <2>2, <2>3
<1>4. CASE PollsLateness
  BY <1>4 DEF PollsLateness, PollRest, TypeOK, Rounds
<1>5. CASE PollWrites
  BY <1>5 DEF PollWrites, Round, TypeOK, Rounds, Shown, Queries
<1> QED
  BY <1>1, <1>2, <1>3, <1>4, <1>5 DEF PollStep

LEMMA TypeNext == TypeOK /\ [Next]_vars => TypeOK'
<1>1. ASSUME TypeOK, UNCHANGED vars PROVE TypeOK'
  BY <1>1 DEF TypeOK, vars, serverVars, rebuildVars, readerVars
<1> QED
  BY <1>1, TypeCluster, TypeSaid, TypeRebuild, TypeReader, TypePoll DEF Next

(* Every variable stays in its range; no object outlives what it needs.    *)
THEOREM TypeCorrect == Spec => []TypeOK
BY TypeInit, TypeNext, PTL DEF Spec

-----------------------------------------------------------------------------
(* The poller: the last of its answers is about the sink, which needs the  *)
(* other objects.                                                          *)

LEMMA PresentStep ==
  ASSUME TypeOK, [Next]_vars, poll.at = "query", poll'.at = "lateness"
  PROVE  Pipe \subseteq objs
<1>1. PollQueries
  BY DEF Next, vars, ClusterStep, ClusterUp, ClusterUpFails, Crashes, ClusterDown,
         ClusterClean, Boots, ClusterSaid, RebuildStarts, RebuildStep, RebuildRuns,
         RebuildFails, RebuildSaid, ReaderStep, ReaderConnects, ReaderSubscribes,
         ReaderDeclares, ReaderFetchFails, ReaderSkipsRow, PollStep, PollsCluster,
         PollConnects, PollsLateness, PollWrites
<1> DEFINE found == IF Queries[poll.asked] \subseteq objs THEN poll.pipeline ELSE "absent"
           next == IF poll.asked < Len(Queries) THEN "query"
                   ELSE IF found = "present" THEN "lateness" ELSE "write"
<1>2. "poller" \in session
  BY <1>1 DEF PollQueries, TypeOK, Rounds
<1>3. poll'.at = next
  BY <1>1, <1>2 DEF PollQueries, TypeOK, Rounds
<1>4. poll.asked = 3 /\ found = "present"
  BY <1>3, QueriesTable DEF TypeOK, Rounds
<1>5. "rt_feed" \in objs
  BY <1>4, QueriesTable
<1> QED
  BY <1>5, NeedsTable DEF TypeOK, Pipe

(* When the poller concludes that there is a pipeline, all of it exists.   *)
THEOREM PresentIsTrue == Spec => PresentWasTrue
<1>1. TypeOK /\ [Next]_vars => (poll.at = "query" /\ poll'.at = "lateness" => Pipe \subseteq objs)
  BY PresentStep
<1> QED
  BY <1>1, TypeCorrect, PTL DEF Spec, PresentWasTrue

-----------------------------------------------------------------------------
(* The reader: what it last reported is forgotten while it is ready, so    *)
(* the first failure after that is told.                                   *)

StripInv == StripTellsOutcome /\ (Ready => reader.last = <<>>)

LEMMA StripUnmoved ==
  ASSUME TypeOK, StripInv, UNCHANGED strip, reader'.at = reader.at,
         reader'.last = reader.last
  PROVE  StripInv'
BY DEF StripInv, StripTellsOutcome, Ready

LEMMA StripFail ==
  ASSUME TypeOK, StripInv, NEW cause \in Causes, Fail(cause)
  PROVE  StripInv'
<1> DEFINE line == <<Context, cause>>
           since == IF reader.last = line THEN (reader.since + 1) % RepeatEvery ELSE 0
<1>1. /\ reader' = [at |-> "connect", cursor |-> FALSE, last |-> line, since |-> since]
      /\ strip' = IF since = 0 THEN line ELSE strip
  BY DEF Fail
<1>2. line # <<>>
  OBVIOUS
<1>3. since # 0 => reader.last = line /\ ~Ready
  BY <1>2 DEF StripInv
<1> HIDE DEF line, since
<1>4. strip' = line
  BY <1>1, <1>3 DEF StripInv, StripTellsOutcome
<1> QED
  BY <1>1, <1>4 DEF StripInv, StripTellsOutcome, Ready

LEMMA StripStep ==
  ASSUME TypeOK, StripInv, [Next]_vars
  PROVE  StripInv'
<1>c. "refused" \in Causes /\ "closed" \in Causes /\ "missing" \in Causes
  BY DEF Causes
<1>1. CASE ReaderConnects
  <2>1. CASE server = "serving"
    BY <1>1, <2>1 DEF ReaderConnects, StripInv, StripTellsOutcome, Ready, TypeOK, Readers
  <2> QED
    BY <1>1, <1>c, <2>1, StripFail DEF ReaderConnects
<1>2. CASE ReaderSubscribes
  <2>1. CASE "reader" \in session /\ "t_rt_alerts" \in objs
    BY <1>2, <2>1 DEF ReaderSubscribes, StripInv, StripTellsOutcome, Ready, TypeOK, Readers
  <2> QED
    BY <1>2, <1>c, <2>1, StripFail DEF ReaderSubscribes
<1>3. CASE ReaderDeclares
  <2>1. CASE BecomesReady
    BY <2>1 DEF BecomesReady, StripInv, StripTellsOutcome, Ready
  <2> QED
    BY <1>3, <1>c, <2>1, StripFail DEF ReaderDeclares
<1>4. CASE ReaderFetchFails
  BY <1>4, <1>c, StripFail DEF ReaderFetchFails
<1>5. CASE ReaderSkipsRow
  BY <1>5 DEF ReaderSkipsRow, StripInv, StripTellsOutcome, Ready
<1>6. ASSUME NEW removed \in BOOLEAN, NEW wiped \in BOOLEAN, ClusterClean(removed, wiped)
      PROVE  StripInv'
  <2>1. UNCHANGED strip /\ reader'.at = reader.at /\ reader'.last = reader.last
    BY <1>6 DEF ClusterClean, TypeOK, Readers
  <2> QED
    BY <2>1, StripUnmoved
<1>7. ASSUME NEW r \in Rebuilds, RebuildRuns(r) PROVE StripInv'
  <2>1. UNCHANGED strip /\ reader'.at = reader.at /\ reader'.last = reader.last
    BY <1>7 DEF RebuildRuns, TypeOK, Readers
  <2> QED
    BY <2>1, StripUnmoved
<1>8. CASE UNCHANGED <<reader, strip>>
  BY <1>8, StripUnmoved
<1> QED
  BY <1>1, <1>2, <1>3, <1>4, <1>5, <1>6, <1>7, <1>8
     DEF Next, vars, readerVars, ClusterStep, ClusterUp, ClusterUpFails, Crashes,
         ClusterDown, Boots, ClusterSaid, RebuildStarts, RebuildStep, RebuildFails,
         RebuildSaid, ReaderStep, PollStep, PollsCluster, PollConnects, PollQueries,
         PollsLateness, PollWrites, PollRest

(* The last line the reader put in the strip tells its last outcome.       *)
THEOREM StripTells == Spec => []StripTellsOutcome
<1>1. Init => StripInv
  BY DEF Init, StripInv, StripTellsOutcome, Ready
<1>2. TypeOK /\ StripInv /\ [Next]_vars => StripInv'
  BY StripStep
<1>3. StripInv => StripTellsOutcome
  BY DEF StripInv
<1> QED
  BY <1>1, <1>2, <1>3, TypeCorrect, PTL DEF Spec

-----------------------------------------------------------------------------
(* A rebuild that no other one was in flight with finds the objects as its *)
(* script has left them so far, the subscription apart.                    *)

Progress(n) ==
  /\ n \in 4 .. 10 => "rt_feed" \notin objs
  /\ n \in 5 .. 9 => "t_rt_alerts" \notin objs
  /\ n \in 6 .. 8 => "mv_rt" \notin objs
  /\ n = 7 => "t_rt" \notin objs
  /\ n >= 8 => "t_rt" \in objs
  /\ n >= 9 => "mv_rt" \in objs
  /\ n >= 10 => "t_rt_alerts" \in objs

Alone ==
  \A r \in Rebuilds :
    job[r].at > 0 /\ r \notin joined
      => /\ InFlight = {r}
         /\ r \in session => Progress(job[r].at)

(* The next statement of such a rebuild is refused only for want of the    *)
(* subscription being gone.                                                *)
LEMMA AloneRefused ==
  ASSUME TypeOK, NEW n \in 1 .. Lasts, Progress(n), Refused(Script[n])
  PROVE  Script[n] = Drop("t_rt_alerts") /\ "sub_alerts" \in objs
<1>1. n \in {1, 2, 3, 4, 5, 6, 7, 8, 9, 10}
  BY ScriptTable
<1>2. \A o \in objs : o \in {"t_rt", "mv_rt", "t_rt_alerts", "rt_feed", "sub_alerts"}
  BY DEF TypeOK, Objects, Pipe
<1>3. n \notin {1, 2}
  BY <1>2, ScriptTable, NeedsTable DEF Refused, Drop
<1>4. n # 3
  BY <1>2, ScriptTable, NeedsTable DEF Refused, Drop
<1>5. n # 5
  BY <1>2, ScriptTable, NeedsTable DEF Refused, Drop, Progress
<1>6. n # 6
  BY <1>2, ScriptTable, NeedsTable DEF Refused, Drop, Progress
<1>7. n \notin {7, 8, 9, 10}
  BY ScriptTable, NeedsTable DEF Refused, Create, Progress
<1>8. n = 4
  BY <1>1, <1>3, <1>4, <1>5, <1>6, <1>7
<1> QED
  BY <1>2, <1>8, ScriptTable, NeedsTable DEF Refused, Drop, Progress

(* And one that is not refused takes it on.                                *)
LEMMA AloneAdvances ==
  ASSUME TypeOK, NEW r \in Rebuilds, RebuildRuns(r), NEW n \in Nat, job[r].at = n,
         Progress(n)
  PROVE  Progress(n + 1)' /\ job'[r].at = n + 1
<1>1. n \in {1, 2, 3, 4, 5, 6, 7, 8, 9, 10} /\ job'[r].at = n + 1
  BY ScriptTable DEF RebuildRuns, TypeOK
<1>2. /\ Script[n].do = "drop" => objs' = objs \ {Script[n].obj}
      /\ Script[n].do = "create" => objs' = objs \cup {Script[n].obj}
  BY <1>1, ScriptTable DEF RebuildRuns, Drop, Create
<1>3. /\ n \in {1, 2} => objs' = objs \ {"sub_alerts"}
      /\ n = 3 => objs' = objs \ {"rt_feed"}
      /\ n = 4 => objs' = objs \ {"t_rt_alerts"}
      /\ n = 5 => objs' = objs \ {"mv_rt"}
      /\ n = 6 => objs' = objs \ {"t_rt"}
  BY <1>2, ScriptTable DEF Drop
<1>4. /\ n = 7 => objs' = objs \cup {"t_rt"}
      /\ n = 8 => objs' = objs \cup {"mv_rt"}
      /\ n = 9 => objs' = objs \cup {"t_rt_alerts"}
      /\ n = 10 => objs' = objs \cup {"rt_feed"}
  BY <1>2, ScriptTable DEF Create
<1>5. CASE n \in {1, 2, 3, 4, 5, 6}
  BY <1>1, <1>3, <1>5 DEF Progress
<1>6. CASE n \in {7, 8, 9, 10}
  BY <1>1, <1>4, <1>6 DEF Progress
<1> QED
  BY <1>1, <1>5, <1>6

LEMMA AloneKept ==
  ASSUME Alone, UNCHANGED <<job, joined>>,
         \A r \in Rebuilds : r \in session' => r \in session /\ 
            objs' \ {"sub_alerts"} = objs \ {"sub_alerts"}
  PROVE  Alone'
<1> SUFFICES ASSUME NEW r \in Rebuilds, job[r].at > 0, r \notin joined
             PROVE  InFlight' = {r} /\ (r \in session' => Progress(job[r].at)')
  BY DEF Alone
<1>1. InFlight' = {r}
  BY DEF Alone, InFlight
<1>2. ASSUME r \in session' PROVE Progress(job[r].at)'
  <2>1. \A o \in {"t_rt", "mv_rt", "t_rt_alerts", "rt_feed"} : o \in objs' <=> o \in objs
    BY <1>2
  <2> QED
    BY <1>2, <2>1 DEF Alone, Progress
<1> QED
  BY <1>1, <1>2

LEMMA AloneRebuild ==
  ASSUME TypeOK, Alone, NEW q \in Rebuilds, RebuildStarts(q) \/ RebuildStep(q)
  PROVE  Alone'
<1> SUFFICES ASSUME NEW r \in Rebuilds, job'[r].at > 0, r \notin joined'
             PROVE  InFlight' = {r} /\ (r \in session' => Progress(job[r].at)')
  BY DEF Alone
<1>j. /\ job \in [Rebuilds -> [at : 0 .. Lasts + 1, lateness : Latenesses]]
      /\ Lasts = 10
  BY ScriptTable DEF TypeOK
<1>1. CASE RebuildStarts(q) /\ server = "serving"
  <2>1. PICK l \in Latenesses :
          /\ session' = session \cup {q}
          /\ job' = [job EXCEPT ![q] = [at |-> 1, lateness |-> l]]
          /\ joined' = IF InFlight = {} THEN joined \ {q}
                                        ELSE joined \cup InFlight \cup {q}
    BY <1>1 DEF RebuildStarts
  <2>2. r \notin joined \cup InFlight \cup {q} \/ InFlight = {}
    BY <2>1
  <2>3. r = q /\ InFlight = {}
    BY <2>1, <2>2, <1>j DEF InFlight
  <2>4. InFlight' = {r}
    BY <2>1, <2>3, <1>j DEF InFlight
  <2>5. job'[r].at = 1
    BY <2>1, <2>3, <1>j
  <2> QED
    BY <2>4, <2>5 DEF Progress
<1>2. CASE RebuildStarts(q) /\ server # "serving"
  BY <1>2, AloneKept DEF RebuildStarts, Alone
<1>3. CASE RebuildFails(q) \/ RebuildSaid(q)
  <2>1. job[q].at > 0 /\ job' = [job EXCEPT ![q] = Idle] /\ joined' = joined
    BY <1>3, <1>j DEF RebuildFails, RebuildSaid
  <2>2. r # q /\ job'[r] = job[r]
    BY <2>1, <1>j DEF Idle
  <2>3. InFlight = {r}
    BY <2>1, <2>2 DEF Alone
  <2> QED
    BY <2>1, <2>2, <2>3 DEF InFlight
<1>4. CASE RebuildRuns(q)
  <2>1. /\ job[q].at \in 1 .. Lasts /\ q \in session /\ session' = session
        /\ job' = [job EXCEPT ![q].at = job[q].at + 1] /\ joined' = joined
    BY <1>4 DEF RebuildRuns
  <2>2. job[r].at > 0
    BY <2>1, <1>j
  <2>3. InFlight = {r}
    BY <2>1, <2>2 DEF Alone
  <2>4. q = r
    BY <2>1, <2>3, <1>j DEF InFlight
  <2>5. PICK n \in Nat : job[r].at = n
    BY <1>j
  <2>6. Progress(n)
    BY <2>1, <2>2, <2>4, <2>5 DEF Alone
  <2>7. Progress(n + 1)' /\ job'[r].at = n + 1
    BY <1>4, <2>4, <2>5, <2>6, AloneAdvances
  <2>8. InFlight' = InFlight
    BY <2>1, <1>j DEF InFlight
  <2> QED
    BY <2>3, <2>7, <2>8 DEF Progress
<1> QED
  BY <1>1, <1>2, <1>3, <1>4 DEF RebuildStep

LEMMA AloneStep ==
  ASSUME TypeOK, Alone, [Next]_vars
  PROVE  Alone'
<1>1. ASSUME NEW q \in Rebuilds, RebuildStarts(q) \/ RebuildStep(q) PROVE Alone'
  BY <1>1, AloneRebuild
<1>2. CASE ClusterStep
  <2>1. UNCHANGED <<job, joined>> /\ (session' = {} \/ UNCHANGED <<session, objs>>)
    BY <1>2 DEF ClusterStep, ClusterUp, ClusterUpFails, Crashes, ClusterDown, ClusterClean,
                Removes, rebuildVars
  <2> QED
    BY <2>1, AloneKept
<1>3. CASE ReaderStep \/ ReaderSkipsRow
  <2>1. UNCHANGED <<job, joined>>
    BY <1>3 DEF ReaderStep, ReaderSkipsRow, ReaderConnects, ReaderSubscribes,
                ReaderDeclares, ReaderFetchFails, rebuildVars
  <2>2. session' \subseteq session \cup {"reader"}
    BY <1>3 DEF ReaderStep, ReaderSkipsRow, ReaderConnects, ReaderSubscribes,
                ReaderDeclares, ReaderFetchFails, Fail
  <2>3. objs' \in {objs, objs \cup {"sub_alerts"}}
    BY <1>3 DEF ReaderStep, ReaderSkipsRow, ReaderConnects, ReaderSubscribes,
                ReaderDeclares, ReaderFetchFails, Fail
  <2> QED
    BY <2>1, <2>2, <2>3, TasksAssumption, AloneKept
<1>4. CASE PollStep
  <2>1. UNCHANGED <<job, joined, objs>> /\ session' \subseteq session \cup {"poller"}
    BY <1>4 DEF PollStep, PollsCluster, PollConnects, PollQueries, PollsLateness, PollWrites,
                PollRest, rebuildVars
  <2> QED
    BY <2>1, TasksAssumption, AloneKept
<1>5. CASE Boots \/ (\E cmd \in Commands : ClusterSaid(cmd)) \/ UNCHANGED vars
  <2>1. UNCHANGED <<job, joined, objs, session>>
    BY <1>5 DEF Boots, ClusterSaid, vars, rebuildVars
  <2> QED
    BY <2>1, AloneKept
<1> QED
  BY <1>1, <1>2, <1>3, <1>4, <1>5 DEF Next

LEMMA DisturbedStep ==
  ASSUME TypeOK, Alone, [Next]_vars, NEW r \in Rebuilds,
         job[r].at \in 1 .. Lasts, job'[r].at = 0
  PROVE  \/ r \notin session
         \/ r \in joined
         \/ Script[job[r].at] = Drop("t_rt_alerts") /\ "sub_alerts" \in objs
<1>j. /\ job \in [Rebuilds -> [at : 0 .. Lasts + 1, lateness : Latenesses]]
      /\ Lasts = 10
  BY ScriptTable DEF TypeOK
<1>1. \A q \in Rebuilds : RebuildStarts(q) \/ RebuildRuns(q) \/ RebuildSaid(q)
                            => job'[r].at # 0
  BY <1>j DEF RebuildStarts, RebuildRuns, RebuildSaid
<1>2. job' # job
  BY <1>j
<1>3. \E q \in Rebuilds : RebuildFails(q)
  BY <1>1, <1>2 DEF Next, vars, ClusterStep, ClusterUp, ClusterUpFails, Crashes, ClusterDown,
       ClusterClean, Boots, ClusterSaid, RebuildStep, ReaderStep, ReaderSkipsRow,
       ReaderConnects, ReaderSubscribes, ReaderDeclares, ReaderFetchFails, PollStep,
       PollsCluster, PollConnects, PollQueries, PollsLateness, PollWrites, PollRest,
       rebuildVars
<1>4. RebuildFails(r)
  <2>1. PICK q \in Rebuilds : RebuildFails(q)
    BY <1>3
  <2>2. q # r => job'[r] = job[r]
    BY <2>1, <1>j DEF RebuildFails
  <2>3. q = r
    BY <2>2
  <2> QED
    BY <2>1, <2>3
<1> SUFFICES ASSUME r \in session, r \notin joined
             PROVE  Script[job[r].at] = Drop("t_rt_alerts") /\ "sub_alerts" \in objs
  OBVIOUS
<1>5. Refused(Script[job[r].at]) /\ Progress(job[r].at)
  BY <1>4, <1>j DEF RebuildFails, Alone
<1> QED
  BY <1>5, AloneRefused

(* Left to itself, a rebuild that the database refuses to go on with has   *)
(* met the subscription the reader created again, and nothing else.        *)
THEOREM FailsOnlyDisturbed == Spec => RebuildFailsOnlyDisturbed
<1>1. Init => Alone
  BY DEF Init, Alone, Idle
<1>2. TypeOK /\ Alone /\ [Next]_vars => Alone'
  BY AloneStep
<1>3. TypeOK /\ Alone /\ [Next]_vars
        => \A r \in Rebuilds :
             job[r].at \in 1 .. Lasts /\ job'[r].at = 0
               => \/ r \notin session
                  \/ r \in joined
                  \/ Script[job[r].at] = Drop("t_rt_alerts") /\ "sub_alerts" \in objs
  BY DisturbedStep
<1> QED
  BY <1>1, <1>2, <1>3, TypeCorrect, PTL DEF Spec, RebuildFailsOnlyDisturbed

=============================================================================
