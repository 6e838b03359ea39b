------------------------------- MODULE Pipeline -------------------------------
(***************************************************************************)
(* The pipeline in the database and those who change it or look at it: the *)
(* cluster driver and its handlers (podman.rs, api.rs), pipeline/rebuild   *)
(* with its setup script (api.rs, setup_realtime.sql), the alert reader    *)
(* that recreates the subscription on its own (stream.rs) and the status   *)
(* poller that asks what exists (status.rs).                               *)
(*                                                                         *)
(* A step is one statement, one command or one write that the other tasks  *)
(* can get in between of.  The database is external: each statement        *)
(* commits on its own, an object that others depend on cannot be dropped,  *)
(* and stopping the server cuts every session.  What rebuild does to the   *)
(* load is in LoadControl, the epoch it begins in Measurement.             *)
(***************************************************************************)
EXTENDS Naturals, Sequences

CONSTANTS
  Rebuilds,     \* pipeline/rebuild requests that can be in flight
  Asked,        \* the latenesses a request may ask for
  OwnLateness,  \* the one written in the setup script
  None,         \* no lateness
  Loops,        \* which of the reader and the poller run: a choice per behaviour
  RepeatEvery,  \* REPEAT_EVERY of Reader::fail
  MaxEvents     \* bounds the rebuilds, cluster operations and crashes, together

ASSUME LatenessAssumption == None \notin Asked \cup {OwnLateness}
ASSUME TasksAssumption == "reader" \notin Rebuilds /\ "poller" \notin Rebuilds
ASSUME LoopsAssumption == Loops \subseteq SUBSET {"reader", "poller"}
ASSUME BoundAssumption ==
  RepeatEvery \in Nat \ {0} /\ MaxEvents \in Nat

VARIABLES
  loops,     \* the loops that run; the other ones are still to take a step
  server,    \* the container: down, starting, or serving
  objs,      \* the objects of the pipeline that exist
  declared,  \* the lateness t_rt declares
  session,   \* the tasks whose connection is open
  ops,       \* the cluster handlers between their command and their set_status
  events,    \* rebuilds, cluster operations and crashes so far
  job,       \* where each rebuild is in its script, and the lateness it sets
  joined,    \* history: the rebuilds that another one was in flight with
  reader,    \* the alert reader
  strip,     \* the last line it put in the log strip
  poll,      \* the status poller's round
  status     \* AppState::status and lateness_secs

serverVars == <<server, ops>>
rebuildVars == <<job, joined>>
readerVars == <<reader, strip>>
vars == <<loops, events, serverVars, objs, declared, session, rebuildVars, readerVars, poll, status>>

-----------------------------------------------------------------------------
(* The objects and the script.                                             *)

Pipe == {"t_rt", "mv_rt", "t_rt_alerts", "rt_feed"}
Objects == Pipe \cup {"sub_alerts"}

Needs(o) ==
  CASE o = "mv_rt" -> {"t_rt"}
    [] o = "rt_feed" -> {"mv_rt", "t_rt_alerts"}
    [] o = "sub_alerts" -> {"t_rt_alerts"}
    [] OTHER -> {}

Drop(o) == [do |-> "drop", obj |-> o]
Create(o) == [do |-> "create", obj |-> o]

(* Fault: the table of the alerts goes before the sink into it.            *)
ScriptTableFirst ==
  <<Drop("sub_alerts"), Drop("sub_alerts"), Drop("t_rt_alerts"), Drop("rt_feed"),
    Drop("mv_rt"), Drop("t_rt"), Create("t_rt"), Create("mv_rt"),
    Create("t_rt_alerts"), Create("rt_feed")>>

(* The script of a rebuild: the handler drops the subscription, and the    *)
(* setup SQL does so again before anything else.                           *)
Script ==
  <<Drop("sub_alerts"), Drop("sub_alerts"), Drop("rt_feed"), Drop("t_rt_alerts"),
    Drop("mv_rt"), Drop("t_rt"), Create("t_rt"), Create("mv_rt"),
    Create("t_rt_alerts"), Create("rt_feed")>>

(* A statement the database refuses: a dependent is left, the object is    *)
(* there already, or one it needs is not.                                  *)
Refused(s) ==
  \/ s.do = "drop" /\ s.obj \in objs /\ \E o \in objs : s.obj \in Needs(o)
  \/ s.do = "create" /\ (s.obj \in objs \/ ~(Needs(s.obj) \subseteq objs))

Lasts == Len(Script)
Commands == {"up", "down", "clean"}
Tasks == Rebuilds \cup {"reader", "poller"}
Latenesses == Asked \cup {OwnLateness}

Round == [at |-> "start", cluster |-> "unknown", pipeline |-> "unknown",
          lateness |-> None, asked |-> 1]
Idle == [at |-> 0, lateness |-> OwnLateness]

Init ==
  /\ loops \in Loops
  /\ server \in {"down", "serving"}
  /\ objs \in IF server = "down" THEN {{}} ELSE {{}, Pipe}
  /\ declared = IF objs = {} THEN None ELSE OwnLateness
  /\ session = {}
  /\ ops = [cmd \in Commands |-> 0]
  /\ events = 0
  /\ job = [r \in Rebuilds |-> Idle]
  /\ joined = {}
  /\ reader = [at |-> "connect", cursor |-> FALSE, last |-> <<>>, since |-> 0]
  /\ strip = <<>>
  /\ poll = Round
  /\ status = [cluster |-> "unknown", pipeline |-> "unknown", lateness |-> None]

-----------------------------------------------------------------------------
Counted == events < MaxEvents /\ events' = events + 1
Uncounted == UNCHANGED <<loops, events>>

(* The cluster.  The driver's commands may fail and be ignored; a server   *)
(* that is replaced, removed or crashes takes every session with it.  No   *)
(* lock keeps the handlers apart.                                          *)

Command(cmd) == Counted /\ ops' = [ops EXCEPT ![cmd] = @ + 1]

(* podman run --replace: the volume and what is in it survive.             *)
ClusterUp ==
  /\ Command("up")
  /\ server' = "starting"
  /\ session' = {}
  /\ UNCHANGED <<objs, declared, rebuildVars, readerVars, poll, status>>

(* It may fail once the old container is gone: the handler reports it.     *)
ClusterUpFails ==
  /\ Counted
  /\ server' = "down"
  /\ session' = {}
  /\ UNCHANGED <<ops, objs, declared, rebuildVars, readerVars, poll, status>>

(* podman rm -f, whose error is ignored.                                   *)
Removes(removed) ==
  /\ server' = IF removed THEN "down" ELSE server
  /\ session' = IF server' = "down" THEN {} ELSE session

ClusterDown(removed) ==
  /\ Command("down")
  /\ Removes(removed)
  /\ UNCHANGED <<objs, declared, rebuildVars, readerVars, poll, status>>

(* Then podman volume rm, whose error is ignored too: a volume that a      *)
(* container uses is not removed.                                          *)
ClusterClean(removed, wiped) ==
  /\ Command("clean")
  /\ Removes(removed)
  /\ wiped => server' = "down"
  /\ objs' = IF wiped THEN {} ELSE objs
  /\ declared' = IF wiped THEN None ELSE declared
  /\ reader' = IF wiped THEN [reader EXCEPT !.cursor = FALSE] ELSE reader
  /\ UNCHANGED <<rebuildVars, strip, poll, status>>

(* Fault: the header says clean of the cluster.                            *)
ClusterSaidVerbatim(cmd) ==
  /\ ops[cmd] > 0
  /\ ops' = [ops EXCEPT ![cmd] = @ - 1]
  /\ status' = [status EXCEPT !.cluster = cmd]
  /\ UNCHANGED <<server, objs, declared, session, rebuildVars, readerVars, poll>>

(* A handler's set_status, after its command.                              *)
ClusterSaid(cmd) ==
  /\ ops[cmd] > 0
  /\ ops' = [ops EXCEPT ![cmd] = @ - 1]
  /\ status' = [status EXCEPT !.cluster = IF cmd = "up" THEN "up" ELSE "down",
                              !.pipeline = IF cmd = "clean" THEN "unknown" ELSE @]
  /\ UNCHANGED <<server, objs, declared, session, rebuildVars, readerVars, poll>>

Boots ==
  /\ server = "starting"
  /\ server' = "serving"
  /\ UNCHANGED <<ops, objs, declared, session, rebuildVars, readerVars, poll, status>>

Crashes ==
  /\ server # "down"
  /\ Counted
  /\ server' = "down"
  /\ session' = {}
  /\ UNCHANGED <<ops, objs, declared, rebuildVars, readerVars, poll, status>>

-----------------------------------------------------------------------------
(* pipeline/rebuild: several may be in flight, for the run lock is held    *)
(* only while the load is stopped.                                         *)

InFlight == {r \in Rebuilds : job[r].at > 0}

RebuildStarts(r) ==
  /\ job[r].at = 0
  /\ Counted
  /\ IF server = "serving"
     THEN \E l \in Latenesses :
            /\ session' = session \cup {r}
            /\ job' = [job EXCEPT ![r] = [at |-> 1, lateness |-> l]]
            /\ joined' = IF InFlight = {} THEN joined \ {r}
                                          ELSE joined \cup InFlight \cup {r}
     ELSE UNCHANGED <<session, job, joined>>
  /\ UNCHANGED <<serverVars, objs, declared, readerVars, poll, status>>

(* A statement that fails ends the rebuild: what was done stays done.      *)
RebuildFails(r) ==
  /\ job[r].at \in 1 .. Lasts
  /\ r \notin session \/ Refused(Script[job[r].at])
  /\ job' = [job EXCEPT ![r] = Idle]
  /\ session' = session \ {r}
  /\ UNCHANGED <<serverVars, objs, declared, joined, readerVars, poll, status>>

(* Dropping the subscription kills the cursor the reader has on it.        *)
RebuildRuns(r) ==
  /\ job[r].at \in 1 .. Lasts
  /\ r \in session
  /\ LET s == Script[job[r].at] IN
       /\ ~Refused(s)
       /\ objs' = IF s.do = "drop" THEN objs \ {s.obj} ELSE objs \cup {s.obj}
       /\ declared' = IF s.obj # "t_rt" THEN declared
                      ELSE IF s.do = "drop" THEN None ELSE job[r].lateness
       /\ reader' = IF s = Drop("sub_alerts") THEN [reader EXCEPT !.cursor = FALSE]
                                              ELSE reader
  /\ job' = [job EXCEPT ![r].at = @ + 1]
  /\ UNCHANGED <<serverVars, session, joined, strip, poll, status>>

RebuildSaid(r) ==
  /\ job[r].at = Lasts + 1
  /\ job' = [job EXCEPT ![r] = Idle]
  /\ session' = session \ {r}
  /\ status' = [status EXCEPT !.pipeline = "rebuilt"]
  /\ UNCHANGED <<serverVars, objs, declared, joined, readerVars, poll>>

-----------------------------------------------------------------------------
(* The alert reader.  A line is its context and its cause; ready() and     *)
(* fail() change what was last reported together with the phase.           *)

Ready == reader.at = "fetch"
Context == IF Ready THEN "fetch" ELSE "connect/setup"

(* Fault: after a failed fetch the phase stays Ready.                      *)
FailStaysReady(cause) ==
  /\ IF Ready THEN UNCHANGED <<reader, strip>>
     ELSE /\ reader' = [reader EXCEPT !.at = "connect"]
          /\ strip' = <<Context, cause>>
  /\ session' = session \ {"reader"}
  /\ UNCHANGED objs

(* Reader::fail: an unchanged condition is silent until it has recurred    *)
(* RepeatEvery times.  The client is dropped.                              *)
Fail(cause) ==
  LET line == <<Context, cause>>
      since == IF reader.last = line THEN (reader.since + 1) % RepeatEvery ELSE 0
  IN /\ reader' = [at |-> "connect", cursor |-> FALSE, last |-> line, since |-> since]
     /\ strip' = IF since = 0 THEN line ELSE strip
     /\ session' = session \ {"reader"}
     /\ UNCHANGED objs

ReaderConnects ==
  /\ reader.at = "connect"
  /\ IF server # "serving" THEN Fail("refused")
     ELSE /\ reader' = [reader EXCEPT !.at = "create"]
          /\ session' = session \cup {"reader"}
          /\ UNCHANGED <<strip, objs>>
  /\ UNCHANGED <<serverVars, declared, rebuildVars, poll, status>>

(* create subscription if not exists                                       *)
ReaderSubscribes ==
  /\ reader.at = "create"
  /\ IF "reader" \notin session THEN Fail("closed")
     ELSE IF "t_rt_alerts" \notin objs THEN Fail("missing")
     ELSE /\ reader' = [reader EXCEPT !.at = "declare"]
          /\ objs' = objs \cup {"sub_alerts"}
          /\ UNCHANGED <<strip, session>>
  /\ UNCHANGED <<serverVars, declared, rebuildVars, poll, status>>

(* Fault: what was last reported stays.                                    *)
ReadyKeepsReport ==
  /\ reader' = [reader EXCEPT !.at = "fetch", !.cursor = TRUE]
  /\ strip' = <<"ready", "">>

(* Reader::ready: what was last reported is forgotten.                     *)
BecomesReady ==
  /\ reader' = [at |-> "fetch", cursor |-> TRUE, last |-> <<>>, since |-> 0]
  /\ strip' = <<"ready", "">>

ReaderDeclares ==
  /\ reader.at = "declare"
  /\ IF "reader" \notin session THEN Fail("closed")
     ELSE IF "sub_alerts" \notin objs THEN Fail("missing")
     ELSE BecomesReady /\ UNCHANGED <<session, objs>>
  /\ UNCHANGED <<serverVars, declared, rebuildVars, poll, status>>

(* A fetch that fails; one that succeeds changes nothing modelled here,    *)
ReaderFetchFails ==
  /\ Ready
  /\ \/ "reader" \notin session /\ Fail("closed")
     \/ "reader" \in session /\ ~reader.cursor /\ Fail("missing")
  /\ UNCHANGED <<serverVars, declared, rebuildVars, poll, status>>

(* unless it brings a row that cannot be decoded, which is only reported.  *)
ReaderSkipsRow ==
  /\ Ready /\ "reader" \in session /\ reader.cursor
  /\ strip' = <<"row", "malformed">>
  /\ UNCHANGED <<serverVars, objs, declared, session, rebuildVars, reader, poll, status>>

-----------------------------------------------------------------------------
(* The status poller: probe_once.                                          *)

PollRest == UNCHANGED <<serverVars, objs, declared, rebuildVars, readerVars, status>>

(* is_running: the container, not the database in it.  podman may not be   *)
(* there to run, and whatever makes it exit with an error reads as a       *)
(* container that does not run.                                            *)
PollsCluster(answer) ==
  /\ poll.at = "start"
  /\ LET cluster == CASE answer = "unspawned" -> "unknown"
                      [] answer = "refused" -> "down"
                      [] answer = "told" -> IF server = "down" THEN "down" ELSE "up"
     IN poll' = [Round EXCEPT
                   !.at = IF cluster = "up" THEN "connect" ELSE "write",
                   !.cluster = cluster,
                   !.pipeline = IF cluster = "down" THEN "absent" ELSE "unknown"]
  /\ UNCHANGED session
  /\ PollRest

PollConnects ==
  /\ poll.at = "connect"
  /\ IF server = "serving"
     THEN /\ session' = session \cup {"poller"}
          /\ poll' = [poll EXCEPT !.at = "query", !.asked = 1, !.pipeline = "present"]
     ELSE UNCHANGED session /\ poll' = [poll EXCEPT !.at = "write"]
  /\ PollRest

(* Fault: the sink is asked for first.                                     *)
QueriesSinkFirst == <<{"rt_feed"}, {"mv_rt"}, {"t_rt", "t_rt_alerts"}>>

(* pipeline_present: three queries, and one answer from all of them.       *)
Queries == <<{"t_rt", "t_rt_alerts"}, {"mv_rt"}, {"rt_feed"}>>

PollQueries ==
  /\ poll.at = "query"
  /\ IF "poller" \notin session
     THEN poll' = [poll EXCEPT !.at = "write", !.pipeline = "unknown"]
     ELSE LET found == IF Queries[poll.asked] \subseteq objs THEN poll.pipeline
                                                             ELSE "absent"
              next == IF poll.asked < Len(Queries) THEN "query"
                      ELSE IF found = "present" THEN "lateness" ELSE "write"
          IN poll' = [poll EXCEPT !.at = next, !.pipeline = found,
                                  !.asked = IF next = "query" THEN @ + 1 ELSE 1]
  /\ session' = IF poll'.at = "query" THEN session ELSE session \ {"poller"}
  /\ PollRest

(* live_lateness_secs, over a connection of its own.                       *)
PollsLateness ==
  /\ poll.at = "lateness"
  /\ poll' = [poll EXCEPT !.at = "write",
                          !.lateness = IF server = "serving" THEN declared ELSE None]
  /\ UNCHANGED session
  /\ PollRest

(* Fault: what a rebuild said stays.                                       *)
PollKeepsRebuilt ==
  /\ poll.at = "write"
  /\ poll' = Round
  /\ status' = [cluster |-> poll.cluster, lateness |-> poll.lateness,
                pipeline |-> IF status.pipeline = "rebuilt" THEN "rebuilt"
                                                            ELSE poll.pipeline]
  /\ UNCHANGED <<serverVars, objs, declared, session, rebuildVars, readerVars>>

PollWrites ==
  /\ poll.at = "write"
  /\ poll' = Round
  /\ status' = [cluster |-> poll.cluster, pipeline |-> poll.pipeline,
                lateness |-> poll.lateness]
  /\ UNCHANGED <<serverVars, objs, declared, session, rebuildVars, readerVars>>

-----------------------------------------------------------------------------
RebuildStep(r) == RebuildRuns(r) \/ RebuildFails(r) \/ RebuildSaid(r)

ReaderStep ==
  /\ "reader" \in loops
  /\ ReaderConnects \/ ReaderSubscribes \/ ReaderDeclares \/ ReaderFetchFails

PollStep ==
  /\ "poller" \in loops
  /\ \/ \E answer \in {"told", "refused", "unspawned"} : PollsCluster(answer)
     \/ PollConnects \/ PollQueries \/ PollsLateness \/ PollWrites

ClusterStep ==
  \/ ClusterUp \/ ClusterUpFails \/ Crashes
  \/ \E removed \in BOOLEAN :
       ClusterDown(removed) \/ \E wiped \in BOOLEAN : ClusterClean(removed, wiped)

Next ==
  \/ UNCHANGED loops /\ (ClusterStep \/ \E r \in Rebuilds : RebuildStarts(r))
  \/ /\ Uncounted
     /\ \/ Boots \/ \E cmd \in Commands : ClusterSaid(cmd)
        \/ \E r \in Rebuilds : RebuildStep(r)
        \/ ReaderStep \/ ReaderSkipsRow
        \/ PollStep

Spec == Init /\ [][Next]_vars

(* What has begun goes on: a container that starts, a handler that has     *)
(* begun, the loops of the reader and of the poller.  Nobody need ask for  *)
(* anything.                                                               *)
Fairness ==
  /\ WF_vars(Uncounted /\ Boots)
  /\ \A cmd \in Commands : WF_vars(Uncounted /\ ClusterSaid(cmd))
  /\ \A r \in Rebuilds : WF_vars(Uncounted /\ RebuildStep(r))
  /\ WF_vars(Uncounted /\ ReaderStep) /\ WF_vars(Uncounted /\ PollStep)

FairSpec == Spec /\ Fairness

-----------------------------------------------------------------------------
(* Properties.                                                             *)

Causes == {"refused", "closed", "missing"}
Lines == {<<>>, <<"ready", "">>, <<"row", "malformed">>}
           \cup ({"connect/setup", "fetch"} \X Causes)
Readers == [at : {"connect", "create", "declare", "fetch"}, cursor : BOOLEAN,
            last : Lines, since : 0 .. RepeatEvery - 1]
Rounds == [at : {"start", "connect", "query", "lateness", "write"},
           cluster : {"unknown", "up", "down"}, pipeline : {"unknown", "present", "absent"},
           lateness : Latenesses \cup {None}, asked : 1 .. Len(Queries)]
Shown == [cluster : {"unknown", "up", "down"},
          pipeline : {"unknown", "present", "absent", "rebuilt"},
          lateness : Latenesses \cup {None}]

(* Every variable stays in its range, the objects that exist have what     *)
(* they need, and t_rt declares a lateness exactly while it exists.        *)
TypeOK ==
  /\ loops \in Loops
  /\ server \in {"down", "starting", "serving"}
  /\ objs \in SUBSET Objects
  /\ \A o \in objs : Needs(o) \subseteq objs
  /\ declared \in Latenesses \cup {None}
  /\ declared = None <=> "t_rt" \notin objs
  /\ session \subseteq Tasks
  /\ ops \in [Commands -> Nat]
  /\ events \in 0 .. MaxEvents
  /\ job \in [Rebuilds -> [at : 0 .. Lasts + 1, lateness : Latenesses]]
  /\ joined \subseteq Rebuilds
  /\ reader \in Readers
  /\ strip \in Lines
  /\ poll \in Rounds
  /\ status \in Shown

(* However lines are held back as repetitions, the last one the reader put *)
(* in the log strip tells the outcome of its last attempt: a condition     *)
(* that came back after a healthy stretch is never taken for the old one.  *)
StripTellsOutcome ==
  IF Ready THEN strip \in {<<"ready", "">>, <<"row", "malformed">>}
           ELSE strip = reader.last

(* A script that the database refuses to go on with was disturbed: another *)
(* rebuild was in flight meanwhile, or the reader had created the          *)
(* subscription again (setup_realtime.sql calls itself "safe to run        *)
(* whether or not the console is up").  So from whatever an earlier rebuild *)
(* left behind, one that is not disturbed makes the whole pipeline.        *)
RebuildFailsOnlyDisturbed ==
  [][\A r \in Rebuilds :
       job[r].at \in 1 .. Lasts /\ job'[r].at = 0
         => \/ r \notin session
            \/ r \in joined
            \/ Script[job[r].at] = Drop("t_rt_alerts") /\ "sub_alerts" \in objs]_vars

(* When the poller's three answers add up to a pipeline, all four objects  *)
(* exist at that moment, although the first answers may be from before a   *)
(* rebuild and what they told of is gone.                                  *)
PresentWasTrue ==
  [][poll.at = "query" /\ poll'.at = "lateness" => Pipe \subseteq objs]_vars

ReaderLive == Ready /\ "reader" \in session /\ reader.cursor

(* Whatever befell the cluster or the subscription, once the server stays  *)
(* up and the table of the alerts stays, the reader follows it again.      *)
ReaderRecovers ==
  "reader" \in loops /\ <>[](server = "serving" /\ "t_rt_alerts" \in objs)
    => []<>ReaderLive

Truth == [cluster |-> "up", pipeline |-> "present", lateness |-> declared]

(* podman runs and answers when it is asked.                               *)
PodmanTells ==
  poll.at = "start" /\ poll'.at # "start"
    => poll'.cluster = IF server = "down" THEN "down" ELSE "up"

(* Once the pipeline stays as it is and podman answers what it is asked,   *)
(* the header comes to tell the truth of it, lateness included: what the   *)
(* poller or a handler read before and wrote after is always corrected.    *)
HeaderFollows ==
  "poller" \in loops
  /\ <>[](server = "serving" /\ Pipe \subseteq objs)
  /\ <>[][PodmanTells]_vars
    => <>[](status = Truth)
=============================================================================
