------------------------------ MODULE Measurement ------------------------------
(***************************************************************************)
(* What the console measures and shows: the events every part publishes on *)
(* one tokio broadcast channel (state.rs), the aggregator that measures    *)
(* the alerts, the clients' sockets (ws.rs), the status poller as far as   *)
(* it publishes (status.rs), the handlers that begin a measurement epoch   *)
(* (api.rs), and the store of a browser (static/js/state.js).              *)
(*                                                                         *)
(* A step ends where another thread can see the difference.  An alert is   *)
(* its place among the alerts and the time its row was ingested; the       *)
(* percentiles of a set of samples are that set; what a browser shows is   *)
(* its feed and its status.  A socket delivers in order: what is sent is   *)
(* shown at once.  Log, Rate, Metrics, Probe and Stats events only take    *)
(* room in the channel.                                                    *)
(***************************************************************************)
EXTENDS Naturals, SequencesExt

CONSTANTS
  Agg,         \* the aggregator
  Clients,     \* browsers
  Handlers,    \* the requests that begin an epoch: load/start, pipeline/rebuild
  Worlds,      \* what the poller can find of cluster and pipeline
  Loads,       \* what the handlers say of the load
  None,        \* no time, or no status, yet
  ChannelCap,  \* room in the channel, per receiver
  RecentCap,   \* RECENT_CAPACITY, and the FEED_CAPACITY of the browser
  MaxAlerts,   \* bounds the alerts
  MaxTime      \* bounds the clock

ASSUME AggAssumption == Agg \notin Clients
ASSUME NoneAssumption == None \notin Nat
ASSUME CapAssumption ==
  /\ ChannelCap \in Nat \ {0} /\ RecentCap \in Nat \ {0}
  /\ MaxAlerts \in Nat /\ MaxTime \in Nat

VARIABLES
  now,       \* the clock, on which rows are ingested and epochs begin
  alerts,    \* how many alerts the reader has published
  queue,     \* what each receiver has still to receive
  lagged,    \* the receivers that lost events since they last received
  samples,   \* the aggregator's latencies: the ingest times of those counted
  epoch,     \* its epoch_ms
  ticking,   \* it has set last_stats and is about to publish them
  lastStats, \* AppState::last_stats, {} if it is None
  recent,    \* AppState::recent
  status,    \* AppState::status
  poller,    \* where the poller is in its round
  polled,    \* the status it read back and has still to publish
  step,      \* where each handler is
  stamp,     \* the epoch it has still to publish
  conn,      \* the socket of each client
  feed,      \* what its browser shows while connected: alerts, newest first
  shown,     \* and the status
  resynced,  \* the clients that lagged since they connected
  sent,      \* history: the epoch of the last StatsReset published
  missed     \* history: the aggregator lost that StatsReset

channelVars == <<queue, lagged, missed>>
aggVars == <<samples, epoch, ticking>>
pollerVars == <<poller, polled>>
handlerVars == <<step, stamp, sent>>
clientVars == <<conn, feed, shown, resynced>>
vars == <<now, alerts, channelVars, aggVars, lastStats, recent, status, pollerVars,
          handlerVars, clientVars>>

Receivers == Clients \cup {Agg}
Statuses == [world : Worlds, load : Loads]
Times == 0 .. MaxTime
Ids == 1 .. MaxAlerts

AlertEvent(i, t) == [type |-> "alert", id |-> i, at |-> t]
ResetEvent(t) == [type |-> "reset", at |-> t]
StatusEvent(s) == [type |-> "status", status |-> s]
OtherEvent == [type |-> "other"]

Events ==
  {AlertEvent(i, t) : i \in Ids, t \in Times} \cup {ResetEvent(t) : t \in Times}
    \cup {StatusEvent(s) : s \in Statuses} \cup {OtherEvent}

Init ==
  /\ now = 0
  /\ alerts = 0
  /\ queue = [r \in Receivers |-> <<>>]
  /\ lagged = {}
  /\ samples = {}
  /\ epoch = None
  /\ ticking = FALSE
  /\ lastStats = {}
  /\ recent = <<>>
  /\ status \in Statuses
  /\ poller = "sleeping"
  /\ polled = None
  /\ step = [h \in Handlers |-> "begin"]
  /\ stamp = [h \in Handlers |-> None]
  /\ conn = [c \in Clients |-> "off"]
  /\ feed = [c \in Clients |-> <<>>]
  /\ shown = [c \in Clients |-> None]
  /\ resynced = {}
  /\ sent = None
  /\ missed = FALSE

-----------------------------------------------------------------------------
(* The channel.                                                            *)

Subscribed == {Agg} \cup {c \in Clients : conn[c] \in {"on", "lagging"}}

IsReset(e) == e.type = "reset"
Full(r) == Len(queue[r]) = ChannelCap

(* What a receiver keeps: at its limit it loses the oldest event.          *)
Kept(r) == IF Full(r) THEN Tail(queue[r]) ELSE queue[r]

(* tx.send: every receiver gets the event, and no sender ever waits.       *)
Publish(e) ==
  /\ queue' = [r \in Receivers |->
                 IF r \in Subscribed THEN Append(Kept(r), e) ELSE queue[r]]
  /\ lagged' = lagged \cup {r \in Subscribed : Full(r)}
  /\ missed' = /\ ~IsReset(e)
               /\ \/ missed
                  \/ /\ Full(Agg)
                     /\ IsReset(Head(queue[Agg]))
                     /\ \A i \in 2 .. ChannelCap : ~IsReset(queue[Agg][i])

(* rx.recv() returns an event: the receiver has lost none before it.       *)
Receives(r) ==
  /\ r \notin lagged
  /\ queue[r] # <<>>
  /\ queue' = [queue EXCEPT ![r] = Tail(queue[r])]
  /\ UNCHANGED <<lagged, missed>>

(* rx.recv() returns Lagged; the next call gives the oldest event it has.  *)
Lags(r) ==
  /\ r \in lagged
  /\ lagged' = lagged \ {r}
  /\ UNCHANGED <<queue, missed>>

-----------------------------------------------------------------------------
(* Those who publish.                                                      *)

Advance ==
  /\ now < MaxTime
  /\ now' = now + 1
  /\ UNCHANGED <<alerts, channelVars, aggVars, lastStats, recent, status, pollerVars,
                 handlerVars, clientVars>>

(* The reader decodes a row: its trigger may have been ingested long ago.  *)
ReaderPublishes ==
  /\ alerts < MaxAlerts
  /\ alerts' = alerts + 1
  /\ \E t \in 0 .. now : Publish(AlertEvent(alerts + 1, t))
  /\ UNCHANGED <<now, aggVars, lastStats, recent, status, pollerVars, handlerVars, clientVars>>

HandlerGoes(h, from, to) == step[h] = from /\ step' = [step EXCEPT ![h] = to]

(* load/start has its run, or the rebuild its tables: the status says so,  *)
(* and nothing is published.                                               *)
HandlerSetsStatus(h) ==
  /\ HandlerGoes(h, "begin", "clear")
  /\ status' \in Statuses
  /\ UNCHANGED <<now, alerts, channelVars, aggVars, lastStats, recent, pollerVars, stamp, sent,
                 clientVars>>

HandlerClearsStats(h) ==
  /\ HandlerGoes(h, "clear", "stamp")
  /\ lastStats' = {}
  /\ UNCHANGED <<now, alerts, channelVars, aggVars, recent, status, pollerVars, stamp, sent,
                 clientVars>>

HandlerStamps(h) ==
  /\ HandlerGoes(h, "stamp", "send")
  /\ stamp' = [stamp EXCEPT ![h] = now]
  /\ UNCHANGED <<now, alerts, channelVars, aggVars, lastStats, recent, status, pollerVars, sent,
                 clientVars>>

HandlerSendsReset(h) ==
  /\ HandlerGoes(h, "send", "end")
  /\ Publish(ResetEvent(stamp[h]))
  /\ sent' = stamp[h]
  /\ stamp' = [stamp EXCEPT ![h] = None]
  /\ UNCHANGED <<now, alerts, aggVars, lastStats, recent, status, pollerVars, clientVars>>

(* The poller overwrites all but the load, reads the status back, and      *)
(* publishes what it read, whether or not it has changed.                  *)
PollerWrites ==
  /\ poller = "sleeping"
  /\ \E w \in Worlds : status' = [world |-> w, load |-> status.load]
  /\ poller' = "wrote"
  /\ UNCHANGED <<now, alerts, channelVars, aggVars, lastStats, recent, polled, handlerVars,
                 clientVars>>

PollerReads ==
  /\ poller = "wrote"
  /\ poller' = "read"
  /\ polled' = status
  /\ UNCHANGED <<now, alerts, channelVars, aggVars, lastStats, recent, status, handlerVars,
                 clientVars>>

PollerPublishes ==
  /\ poller = "read"
  /\ poller' = "sleeping"
  /\ polled' = None
  /\ Publish(StatusEvent(polled))
  /\ UNCHANGED <<now, alerts, aggVars, lastStats, recent, status, handlerVars, clientVars>>

-----------------------------------------------------------------------------
(* The aggregator.  Its select takes an event or a tick, as it likes.      *)

(* record_alert.                                                           *)
Recorded(e) == Append(IF Len(recent) = RecentCap THEN Tail(recent) ELSE recent, e)

Stale(e) == epoch # None /\ e.at < epoch

AggReceivesAlert ==
  /\ ~ticking
  /\ Receives(Agg)
  /\ Head(queue[Agg]).type = "alert"
  /\ samples' = IF Stale(Head(queue[Agg])) THEN samples ELSE samples \cup {Head(queue[Agg]).at}
  /\ recent' = Recorded(Head(queue[Agg]))
  /\ UNCHANGED <<now, alerts, epoch, ticking, lastStats, status, pollerVars, handlerVars,
                 clientVars>>

(* Fault: the boundary moves, but what was accumulated stays.              *)
AggKeepsSamples ==
  /\ ~ticking
  /\ Receives(Agg)
  /\ IsReset(Head(queue[Agg]))
  /\ epoch' = Head(queue[Agg]).at
  /\ UNCHANGED <<now, alerts, samples, ticking, lastStats, recent, status, pollerVars, handlerVars,
                 clientVars>>

AggReceivesReset ==
  /\ ~ticking
  /\ Receives(Agg)
  /\ IsReset(Head(queue[Agg]))
  /\ samples' = {}
  /\ epoch' = Head(queue[Agg]).at
  /\ UNCHANGED <<now, alerts, ticking, lastStats, recent, status, pollerVars, handlerVars,
                 clientVars>>

AggIgnores ==
  /\ ~ticking
  /\ Receives(Agg)
  /\ Head(queue[Agg]).type \in {"status", "other"}
  /\ UNCHANGED <<now, alerts, aggVars, lastStats, recent, status, pollerVars, handlerVars,
                 clientVars>>

(* It has no one to resync: it keeps accumulating from what it still has.  *)
AggLags ==
  /\ ~ticking
  /\ Lags(Agg)
  /\ UNCHANGED <<now, alerts, aggVars, lastStats, recent, status, pollerVars, handlerVars,
                 clientVars>>

(* A tick publishes the rate; with samples, it also remembers their        *)
(* percentiles and then publishes them.                                    *)
AggTicks ==
  /\ ~ticking
  /\ Publish(OtherEvent)
  /\ ticking' = (samples # {})
  /\ lastStats' = IF samples # {} THEN samples ELSE lastStats
  /\ UNCHANGED <<now, alerts, samples, epoch, recent, status, pollerVars, handlerVars, clientVars>>

AggPublishesStats ==
  /\ ticking
  /\ ticking' = FALSE
  /\ Publish(OtherEvent)
  /\ UNCHANGED <<now, alerts, samples, epoch, lastStats, recent, status, pollerVars, handlerVars,
                 clientVars>>

-----------------------------------------------------------------------------
(* A client's socket, and its browser.                                     *)

SocketGoes(c, from, to) == conn[c] \in from /\ conn' = [conn EXCEPT ![c] = to]

(* Fault: a Snapshot's alerts are put on top of those already shown.       *)
SnapshotOnTop(c) ==
  /\ shown' = [shown EXCEPT ![c] = status]
  /\ feed' = [feed EXCEPT ![c] = Reverse(recent) \o @]

(* A Snapshot replaces the status and the feed, which shows newest first.  *)
ShowSnapshot(c) ==
  /\ shown' = [shown EXCEPT ![c] = status]
  /\ feed' = [feed EXCEPT ![c] = Reverse(recent)]

(* Fault: the socket subscribes first and is sent its snapshot afterwards. *)
SubscribeFirst(c) ==
  /\ SocketGoes(c, {"off"}, "lagging")
  /\ UNCHANGED <<now, alerts, channelVars, aggVars, lastStats, recent, status, pollerVars,
                 handlerVars, feed, shown, resynced>>

(* A browser opens its socket, for the first time or again, and is sent a  *)
(* snapshot; only then does the socket subscribe.                          *)
Connect(c) ==
  /\ SocketGoes(c, {"off"}, "greeted")
  /\ ShowSnapshot(c)
  /\ UNCHANGED <<now, alerts, channelVars, aggVars, lastStats, recent, status, pollerVars,
                 handlerVars, resynced>>

Subscribe(c) ==
  /\ SocketGoes(c, {"greeted"}, "on")
  /\ UNCHANGED <<now, alerts, channelVars, aggVars, lastStats, recent, status, pollerVars,
                 handlerVars, feed, shown, resynced>>

(* Fault: the feed is not trimmed.                                         *)
ClientKeepsAll(c) ==
  /\ conn[c] = "on"
  /\ Receives(c)
  /\ Head(queue[c]).type = "alert"
  /\ feed' = [feed EXCEPT ![c] = <<Head(queue[c])>> \o @]
  /\ UNCHANGED <<now, alerts, aggVars, lastStats, recent, status, pollerVars, handlerVars, conn,
                 shown, resynced>>

(* The browser puts an alert on top and trims the feed.                    *)
Trimmed(f) == IF Len(f) > RecentCap THEN SubSeq(f, 1, RecentCap) ELSE f

ClientReceivesAlert(c) ==
  /\ conn[c] = "on"
  /\ Receives(c)
  /\ Head(queue[c]).type = "alert"
  /\ feed' = [feed EXCEPT ![c] = Trimmed(<<Head(queue[c])>> \o @)]
  /\ UNCHANGED <<now, alerts, aggVars, lastStats, recent, status, pollerVars, handlerVars, conn,
                 shown, resynced>>

(* Fault: the sampler thins whatever it is given.                          *)
ClientThinsAll(c) ==
  /\ conn[c] = "on"
  /\ Receives(c)
  /\ UNCHANGED <<now, alerts, aggVars, lastStats, recent, status, pollerVars, handlerVars,
                 clientVars>>

(* An alert the sampler thins, or an event that changes neither the feed   *)
(* nor the status.                                                         *)
ClientSkips(c) ==
  /\ conn[c] = "on"
  /\ Receives(c)
  /\ Head(queue[c]).type # "status"
  /\ UNCHANGED <<now, alerts, aggVars, lastStats, recent, status, pollerVars, handlerVars,
                 clientVars>>

ClientReceivesStatus(c) ==
  /\ conn[c] = "on"
  /\ Receives(c)
  /\ Head(queue[c]).type = "status"
  /\ shown' = [shown EXCEPT ![c] = Head(queue[c]).status]
  /\ UNCHANGED <<now, alerts, aggVars, lastStats, recent, status, pollerVars, handlerVars, conn,
                 feed, resynced>>

(* The socket fell behind: it backs off, for as long as it takes ...       *)
ClientLags(c) ==
  /\ SocketGoes(c, {"on"}, "lagging")
  /\ Lags(c)
  /\ resynced' = resynced \cup {c}
  /\ UNCHANGED <<now, alerts, aggVars, lastStats, recent, status, pollerVars, handlerVars, feed,
                 shown>>

(* ... sends a new snapshot, and goes on with the events it still has.     *)
Resync(c) ==
  /\ SocketGoes(c, {"lagging"}, "on")
  /\ ShowSnapshot(c)
  /\ UNCHANGED <<now, alerts, channelVars, aggVars, lastStats, recent, status, pollerVars,
                 handlerVars, resynced>>

(* The connection breaks.  What the page goes on showing is of no account: *)
(* the first thing it gets when it is back is a snapshot.                  *)
Disconnect(c) ==
  /\ SocketGoes(c, {"greeted", "on", "lagging"}, "off")
  /\ queue' = [queue EXCEPT ![c] = <<>>]
  /\ lagged' = lagged \ {c}
  /\ feed' = [feed EXCEPT ![c] = <<>>]
  /\ shown' = [shown EXCEPT ![c] = None]
  /\ resynced' = resynced \ {c}
  /\ UNCHANGED <<now, alerts, missed, aggVars, lastStats, recent, status, pollerVars,
                 handlerVars>>

-----------------------------------------------------------------------------
Poll == PollerWrites \/ PollerReads \/ PollerPublishes

HandlerStep(h) ==
  HandlerSetsStatus(h) \/ HandlerClearsStats(h) \/ HandlerStamps(h) \/ HandlerSendsReset(h)

AggStep ==
  \/ AggReceivesAlert \/ AggReceivesReset \/ AggIgnores \/ AggLags
  \/ AggTicks \/ AggPublishesStats

ClientStep(c) ==
  \/ Subscribe(c) \/ ClientReceivesAlert(c) \/ ClientSkips(c) \/ ClientReceivesStatus(c)
  \/ ClientLags(c) \/ Resync(c)

Next ==
  \/ Advance \/ ReaderPublishes \/ Poll \/ AggStep
  \/ \E h \in Handlers : HandlerStep(h)
  \/ \E c \in Clients : Connect(c) \/ ClientStep(c) \/ Disconnect(c)

(* The poller never stops, and a socket handles what it has received.      *)
Fairness == WF_vars(Poll) /\ \A c \in Clients : WF_vars(ClientStep(c))

Spec == Init /\ [][Next]_vars /\ Fairness

-----------------------------------------------------------------------------
(* Properties.                                                             *)

AlertEvents == {AlertEvent(i, t) : i \in Ids, t \in Times}

ChannelOK ==
  /\ queue \in [Receivers -> Seq(Events)]
  /\ \A r \in Receivers : Len(queue[r]) <= ChannelCap
  /\ lagged \subseteq Receivers
  /\ missed \in BOOLEAN

AggOK ==
  /\ samples \subseteq Times /\ epoch \in Times \cup {None}
  /\ ticking \in BOOLEAN
  /\ lastStats \subseteq Times
  /\ recent \in Seq(AlertEvents) /\ Len(recent) <= RecentCap

StatusOK ==
  /\ status \in Statuses /\ polled \in Statuses \cup {None}
  /\ poller \in {"sleeping", "wrote", "read"}
  /\ poller = "read" => polled \in Statuses

HandlersOK ==
  /\ step \in [Handlers -> {"begin", "clear", "stamp", "send", "end"}]
  /\ stamp \in [Handlers -> Times \cup {None}]
  /\ \A h \in Handlers : step[h] = "send" => stamp[h] \in Times
  /\ sent \in Times \cup {None}

ClientsOK ==
  /\ conn \in [Clients -> {"off", "greeted", "on", "lagging"}]
  /\ feed \in [Clients -> Seq(AlertEvents)]
  /\ \A c \in Clients : Len(feed[c]) <= RecentCap
  /\ shown \in [Clients -> Statuses \cup {None}]
  /\ resynced \subseteq Clients

(* Type invariant: in particular the ring buffer and the feed are bounded, *)
(* and no receiver holds more than the channel has room for.               *)
TypeOK ==
  /\ now \in Times /\ alerts \in 0 .. MaxAlerts
  /\ ChannelOK /\ AggOK /\ StatusOK /\ HandlersOK /\ ClientsOK

From(S, t) == t # None => \A s \in S : s >= t

ResetPending == \E i \in DOMAIN queue[Agg] : IsReset(queue[Agg][i])

(* The percentiles describe one run: no sample is older than the           *)
(* aggregator's epoch, and once it has received what was published, and    *)
(* unless it lost it, that is the epoch last begun.                        *)
SamplesOfEpoch ==
  /\ From(samples, epoch)
  /\ ~ResetPending /\ ~missed => epoch = sent

(* A browser that has not lagged since it connected shows the alerts newest *)
(* first and none twice, however its snapshot and the live events met.      *)
FeedInOrder ==
  \A c \in Clients \ resynced :
    \A i, j \in DOMAIN feed[c] : i < j => feed[c][i].id > feed[c][j].id

(* The ring buffer and the feeds, as Board sees them.                       *)
AsBoard == INSTANCE Board WITH
  Pages <- Clients, Alerts <- AlertEvents, Room <- RecentCap,
  published <- alerts, kept <- recent, page <- feed, behind <- resynced

(* Channel, aggregator and sockets keep the promise of Board: whatever is   *)
(* lost, thinned or cut off, the ring buffer takes each alert once and in   *)
(* order, and a page that did not fall behind is only ever given newer ones *)
(* on top of the snapshot it was shown.                                     *)
BoardSpec == AsBoard!Spec

(* What a connected browser says of the cluster, the pipeline and the load  *)
(* agrees in the end with what the console holds, whichever events it       *)
(* missed - between snapshot and subscription, by lagging - and although    *)
(* handlers change the status without a word.                               *)
StatusConverges ==
  \A c \in Clients : \A s \in Statuses :
    <>[](status = s /\ conn[c] # "off") => <>[](shown[c] = s)

(* "A Snapshot built after this must not hand new clients the previous      *)
(* run's numbers": with every handler past its clear_last_stats and its     *)
(* StatsReset, the statistics kept are those of the epoch last begun.       *)
StatsOfRun ==
  (\A h \in Handlers : step[h] \in {"begin", "end"}) => From(lastStats, sent)
=================================================================================
