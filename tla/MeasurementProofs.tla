--------------------------- MODULE MeasurementProofs ----------------------------
(***************************************************************************)
(* Proofs about Measurement, for any number of browsers, requests and      *)
(* alerts and any room in the channel.                                     *)
(***************************************************************************)
EXTENDS Measurement, SequenceTheorems, TLAPS

LEMMA EventFields ==
  ASSUME NEW e \in Events
  PROVE  /\ e.type = "alert" => e \in AlertEvents
         /\ e.type = "reset" => e.at \in Times
         /\ e.type = "status" => e.status \in Statuses
<1>1. CASE e \in {AlertEvent(i, t) : i \in Ids, t \in Times}
  BY <1>1 DEF AlertEvent, AlertEvents
<1>2. CASE e \in {ResetEvent(t) : t \in Times}
  BY <1>2 DEF ResetEvent
<1>3. CASE e \in {StatusEvent(s) : s \in Statuses}
  BY <1>3 DEF StatusEvent
<1>4. CASE e = OtherEvent
  BY <1>4 DEF OtherEvent
<1> QED
  BY <1>1, <1>2, <1>3, <1>4 DEF Events

LEMMA AlertFields ==
  ASSUME NEW e \in AlertEvents
  PROVE  e.type = "alert" /\ e.id \in Ids /\ e.at \in Times
BY DEF AlertEvents, AlertEvent

LEMMA MadeEvents ==
  /\ \A i \in Ids, t \in Times : AlertEvent(i, t) \in Events
  /\ \A t \in Times : ResetEvent(t) \in Events
  /\ \A s \in Statuses : StatusEvent(s) \in Events
  /\ OtherEvent \in Events
BY DEF Events

(* A receiver has room for one more event once it has lost its oldest.     *)
LEMMA KeptHasRoom ==
  ASSUME ChannelOK, NEW r \in Receivers
  PROVE  Kept(r) \in Seq(Events) /\ Len(Kept(r)) < ChannelCap
<1>1. queue[r] \in Seq(Events) /\ Len(queue[r]) <= ChannelCap /\ Len(queue[r]) \in Nat
  BY LenProperties DEF ChannelOK
<1>2. CASE Full(r)
  <2>1. queue[r] # <<>>
    BY <1>1, <1>2, CapAssumption, EmptySeq DEF Full
  <2> QED
    BY <1>1, <1>2, <2>1, HeadTailProperties, CapAssumption DEF Kept, Full
<1>3. CASE ~Full(r)
  BY <1>1, <1>3, CapAssumption DEF Kept, Full
<1> QED
  BY <1>2, <1>3

LEMMA SubscribedReceive == Subscribed \subseteq Receivers
BY DEF Subscribed, Receivers

LEMMA PublishType ==
  ASSUME ChannelOK, NEW e \in Events, Publish(e)
  PROVE  ChannelOK'
<1>1. \A r \in Receivers : queue'[r] \in Seq(Events) /\ Len(queue'[r]) <= ChannelCap
  <2> SUFFICES ASSUME NEW r \in Receivers
               PROVE  queue'[r] \in Seq(Events) /\ Len(queue'[r]) <= ChannelCap
    OBVIOUS
  <2>1. Append(Kept(r), e) \in Seq(Events) /\ Len(Append(Kept(r), e)) = Len(Kept(r)) + 1
    BY KeptHasRoom, AppendProperties
  <2>2. Len(Kept(r)) \in Nat /\ Len(Kept(r)) < ChannelCap
    BY KeptHasRoom, LenProperties
  <2> QED
    BY <2>1, <2>2, CapAssumption DEF Publish, ChannelOK
<1>2. queue' \in [Receivers -> Seq(Events)]
  BY <1>1 DEF Publish
<1>3. lagged' \subseteq Receivers /\ missed' \in BOOLEAN
  BY SubscribedReceive DEF Publish, ChannelOK
<1> QED
  BY <1>1, <1>2, <1>3 DEF ChannelOK

LEMMA ReceivesType ==
  ASSUME ChannelOK, NEW r \in Receivers, Receives(r)
  PROVE  /\ ChannelOK'
         /\ Head(queue[r]) \in Events
         /\ queue'[r] = Tail(queue[r]) /\ \A x \in Receivers \ {r} : queue'[x] = queue[x]
         /\ Tail(queue[r]) \in Seq(Events)
         /\ Len(Tail(queue[r])) = Len(queue[r]) - 1
         /\ \A i \in 1 .. Len(queue[r]) - 1 : Tail(queue[r])[i] = queue[r][i + 1]
<1>1. queue[r] \in Seq(Events) /\ queue[r] # <<>> /\ Len(queue[r]) \in Nat
  BY LenProperties DEF Receives, ChannelOK
<1>2. /\ Head(queue[r]) \in Events /\ Tail(queue[r]) \in Seq(Events)
      /\ Len(Tail(queue[r])) = Len(queue[r]) - 1
      /\ \A i \in 1 .. Len(queue[r]) - 1 : Tail(queue[r])[i] = queue[r][i + 1]
  BY <1>1, HeadTailProperties
<1>3. queue'[r] = Tail(queue[r]) /\ \A x \in Receivers \ {r} : queue'[x] = queue[x]
  BY DEF Receives, ChannelOK
<1>4. ChannelOK'
  BY <1>1, <1>2, <1>3, CapAssumption DEF Receives, ChannelOK
<1> QED
  BY <1>2, <1>3, <1>4

LEMMA LagsType ==
  ASSUME ChannelOK, NEW r, Lags(r)
  PROVE  ChannelOK'
BY DEF ChannelOK, Lags

(* The ring buffer keeps to its capacity.                                  *)
LEMMA RecordedType ==
  ASSUME AggOK, NEW e \in AlertEvents
  PROVE  Recorded(e) \in Seq(AlertEvents) /\ Len(Recorded(e)) <= RecentCap
<1> DEFINE kept == IF Len(recent) = RecentCap THEN Tail(recent) ELSE recent
<1>1. recent \in Seq(AlertEvents) /\ Len(recent) \in Nat /\ Len(recent) <= RecentCap
  BY LenProperties DEF AggOK
<1>2. kept \in Seq(AlertEvents) /\ Len(kept) < RecentCap /\ Len(kept) \in Nat
  <2>1. CASE Len(recent) = RecentCap
    <3>1. recent # <<>>
      BY <1>1, <2>1, CapAssumption, EmptySeq
    <3> QED
      BY <1>1, <2>1, <3>1, HeadTailProperties, CapAssumption
  <2>2. CASE Len(recent) # RecentCap
    BY <1>1, <2>2, CapAssumption
  <2> QED
    BY <2>1, <2>2
<1>3. Append(kept, e) \in Seq(AlertEvents) /\ Len(Append(kept, e)) = Len(kept) + 1
  BY <1>2, AppendProperties
<1>4. Recorded(e) = Append(kept, e)
  BY DEF Recorded
<1> QED
  BY <1>2, <1>3, <1>4, CapAssumption

LEMMA ReverseType ==
  ASSUME NEW S, NEW s \in Seq(S)
  PROVE  /\ Reverse(s) \in Seq(S) /\ Len(Reverse(s)) = Len(s)
         /\ \A i \in 1 .. Len(s) : Reverse(s)[i] = s[Len(s) - i + 1]
<1>1. Len(s) \in Nat /\ s \in [1 .. Len(s) -> S]
  BY LenProperties
<1>2. \A i \in 1 .. Len(s) : Len(s) - i + 1 \in 1 .. Len(s)
  BY <1>1
<1>3. Reverse(s) \in [1 .. Len(s) -> S]
  BY <1>1, <1>2 DEF Reverse
<1> QED
  BY <1>1, <1>3, SeqDef DEF Reverse

LEMMA TrimmedType ==
  ASSUME NEW S, NEW f \in Seq(S)
  PROVE  /\ Trimmed(f) \in Seq(S) /\ Len(Trimmed(f)) <= RecentCap /\ Len(Trimmed(f)) <= Len(f)
         /\ \A i \in 1 .. Len(Trimmed(f)) : Trimmed(f)[i] = f[i]
<1>1. Len(f) \in Nat /\ \A i \in 1 .. Len(f) : f[i] \in S
  BY LenProperties, ElementOfSeq
<1>2. CASE Len(f) > RecentCap
  <2>1. \A i \in 1 .. RecentCap : f[i] \in S
    BY <1>1, <1>2, CapAssumption
  <2>2. /\ SubSeq(f, 1, RecentCap) \in Seq(S)
        /\ Len(SubSeq(f, 1, RecentCap)) = RecentCap
        /\ \A i \in 1 .. RecentCap : SubSeq(f, 1, RecentCap)[i] = f[i]
    BY <2>1, SubSeqProperties, CapAssumption
  <2> QED
    BY <1>1, <1>2, <2>2, CapAssumption DEF Trimmed
<1>3. CASE ~(Len(f) > RecentCap)
  BY <1>1, <1>3, CapAssumption DEF Trimmed
<1> QED
  BY <1>2, <1>3

LEMMA SnapshotType ==
  ASSUME TypeOK, NEW c \in Clients, ShowSnapshot(c)
  PROVE  /\ feed' \in [Clients -> Seq(AlertEvents)]
         /\ \A x \in Clients : Len(feed'[x]) <= RecentCap
         /\ shown' \in [Clients -> Statuses \cup {None}]
<1>1. Reverse(recent) \in Seq(AlertEvents) /\ Len(Reverse(recent)) <= RecentCap
  BY ReverseType DEF TypeOK, AggOK
<1> QED
  BY <1>1 DEF ShowSnapshot, TypeOK, ClientsOK, StatusOK

LEMMA TypeInductive ==
  ASSUME TypeOK, [Next]_vars
  PROVE  TypeOK'
<1> USE DEF TypeOK, channelVars, aggVars, pollerVars, handlerVars, clientVars
<1>r. Agg \in Receivers /\ Clients \subseteq Receivers
  BY DEF Receivers
<1>t. now \in Times /\ (0 .. now) \subseteq Times
  BY CapAssumption DEF Times
<1>1. CASE Advance
  BY <1>1, CapAssumption
     DEF Advance, Times, ChannelOK, AggOK, StatusOK, HandlersOK, ClientsOK
<1>2. CASE ReaderPublishes
  <2>1. PICK t \in 0 .. now : Publish(AlertEvent(alerts + 1, t))
    BY <1>2 DEF ReaderPublishes
  <2>2. alerts + 1 \in Ids /\ alerts' \in 0 .. MaxAlerts
    BY <1>2, CapAssumption DEF ReaderPublishes, Ids
  <2>3. ChannelOK'
    BY <1>t, <2>1, <2>2, MadeEvents, PublishType
  <2> QED
    BY <1>2, <2>2, <2>3 DEF ReaderPublishes, AggOK, StatusOK, HandlersOK, ClientsOK
<1>3. ASSUME NEW h \in Handlers, HandlerSetsStatus(h) PROVE TypeOK'
  BY <1>3 DEF HandlerSetsStatus, HandlerGoes, ChannelOK, AggOK, StatusOK, HandlersOK, ClientsOK
<1>4. ASSUME NEW h \in Handlers, HandlerClearsStats(h) PROVE TypeOK'
  BY <1>4 DEF HandlerClearsStats, HandlerGoes, ChannelOK, AggOK, StatusOK, HandlersOK, ClientsOK
<1>5. ASSUME NEW h \in Handlers, HandlerStamps(h) PROVE TypeOK'
  BY <1>5 DEF HandlerStamps, HandlerGoes, ChannelOK, AggOK, StatusOK, HandlersOK, ClientsOK
<1>6. ASSUME NEW h \in Handlers, HandlerSendsReset(h) PROVE TypeOK'
  <2>1. stamp[h] \in Times
    BY <1>6 DEF HandlerSendsReset, HandlerGoes, HandlersOK
  <2>2. ChannelOK'
    BY <1>6, <2>1, MadeEvents, PublishType DEF HandlerSendsReset
  <2> QED
    BY <1>6, <2>1, <2>2
       DEF HandlerSendsReset, HandlerGoes, AggOK, StatusOK, HandlersOK, ClientsOK
<1>7. CASE PollerWrites
  <2>1. status' \in Statuses
    BY <1>7 DEF PollerWrites, StatusOK, Statuses
  <2> QED
    BY <1>7, <2>1 DEF PollerWrites, ChannelOK, AggOK, StatusOK, HandlersOK, ClientsOK
<1>8. CASE PollerReads
  BY <1>8 DEF PollerReads, ChannelOK, AggOK, StatusOK, HandlersOK, ClientsOK
<1>9. CASE PollerPublishes
  <2>1. ChannelOK'
    BY <1>9, MadeEvents, PublishType DEF PollerPublishes, StatusOK
  <2> QED
    BY <1>9, <2>1 DEF PollerPublishes, AggOK, StatusOK, HandlersOK, ClientsOK
<1>10. CASE AggReceivesAlert
  <2>1. ChannelOK' /\ Head(queue[Agg]) \in AlertEvents
    BY <1>10, <1>r, ReceivesType, EventFields DEF AggReceivesAlert
  <2>2. samples' \subseteq Times
    BY <1>10, <2>1, AlertFields DEF AggReceivesAlert, AggOK
  <2>3. recent' \in Seq(AlertEvents) /\ Len(recent') <= RecentCap
    BY <1>10, <2>1, RecordedType DEF AggReceivesAlert
  <2> QED
    BY <1>10, <2>1, <2>2, <2>3 DEF AggReceivesAlert, AggOK, StatusOK, HandlersOK, ClientsOK
<1>11. CASE AggReceivesReset
  <2>1. ChannelOK' /\ Head(queue[Agg]).at \in Times
    BY <1>11, <1>r, ReceivesType, EventFields DEF AggReceivesReset, IsReset
  <2> QED
    BY <1>11, <2>1 DEF AggReceivesReset, AggOK, StatusOK, HandlersOK, ClientsOK
<1>12. CASE AggIgnores
  BY <1>12, <1>r, ReceivesType DEF AggIgnores, AggOK, StatusOK, HandlersOK, ClientsOK
<1>13. CASE AggLags
  BY <1>13, LagsType DEF AggLags, AggOK, StatusOK, HandlersOK, ClientsOK
<1>14. CASE AggTicks
  BY <1>14, MadeEvents, PublishType DEF AggTicks, AggOK, StatusOK, HandlersOK, ClientsOK
<1>15. CASE AggPublishesStats
  BY <1>15, MadeEvents, PublishType DEF AggPublishesStats, AggOK, StatusOK, HandlersOK, ClientsOK
<1>16. ASSUME NEW c \in Clients, Connect(c) PROVE TypeOK'
  BY <1>16, SnapshotType
     DEF Connect, SocketGoes, ChannelOK, AggOK, StatusOK, HandlersOK, ClientsOK
<1>17. ASSUME NEW c \in Clients, Subscribe(c) PROVE TypeOK'
  BY <1>17 DEF Subscribe, SocketGoes, ChannelOK, AggOK, StatusOK, HandlersOK, ClientsOK
<1>18. ASSUME NEW c \in Clients, ClientReceivesAlert(c) PROVE TypeOK'
  <2>1. ChannelOK' /\ Head(queue[c]) \in AlertEvents
    BY <1>18, <1>r, ReceivesType, EventFields DEF ClientReceivesAlert
  <2>2. <<Head(queue[c])>> \o feed[c] \in Seq(AlertEvents)
    BY <2>1 DEF ClientsOK
  <2>3. /\ Trimmed(<<Head(queue[c])>> \o feed[c]) \in Seq(AlertEvents)
        /\ Len(Trimmed(<<Head(queue[c])>> \o feed[c])) <= RecentCap
    BY <2>2, TrimmedType
  <2> QED
    BY <1>18, <2>1, <2>3 DEF ClientReceivesAlert, AggOK, StatusOK, HandlersOK, ClientsOK
<1>19. ASSUME NEW c \in Clients, ClientSkips(c) PROVE TypeOK'
  BY <1>19, <1>r, ReceivesType DEF ClientSkips, AggOK, StatusOK, HandlersOK, ClientsOK
<1>20. ASSUME NEW c \in Clients, ClientReceivesStatus(c) PROVE TypeOK'
  <2>1. ChannelOK' /\ Head(queue[c]).status \in Statuses
    BY <1>20, <1>r, ReceivesType, EventFields DEF ClientReceivesStatus
  <2> QED
    BY <1>20, <2>1 DEF ClientReceivesStatus, AggOK, StatusOK, HandlersOK, ClientsOK
<1>21. ASSUME NEW c \in Clients, ClientLags(c) PROVE TypeOK'
  BY <1>21, LagsType DEF ClientLags, SocketGoes, AggOK, StatusOK, HandlersOK, ClientsOK
<1>22. ASSUME NEW c \in Clients, Resync(c) PROVE TypeOK'
  BY <1>22, SnapshotType
     DEF Resync, SocketGoes, ChannelOK, AggOK, StatusOK, HandlersOK, ClientsOK
<1>23. ASSUME NEW c \in Clients, Disconnect(c) PROVE TypeOK'
  <2>1. <<>> \in Seq(Events) /\ <<>> \in Seq(AlertEvents) /\ Len(<<>>) = 0
    BY EmptySeq
  <2>2. ChannelOK'
    <3>1. queue' \in [Receivers -> Seq(Events)]
      BY <1>23, <2>1 DEF Disconnect, ChannelOK
    <3>2. \A r \in Receivers : Len(queue'[r]) <= ChannelCap
      BY <1>23, <2>1, CapAssumption DEF Disconnect, ChannelOK
    <3> QED
      BY <1>23, <3>1, <3>2 DEF Disconnect, ChannelOK
  <2>3. ClientsOK'
    BY <1>23, <2>1, CapAssumption DEF Disconnect, SocketGoes, ClientsOK
  <2> QED
    BY <1>23, <2>2, <2>3 DEF Disconnect, AggOK, StatusOK, HandlersOK
<1>24. CASE UNCHANGED vars
  BY <1>24 DEF vars, ChannelOK, AggOK, StatusOK, HandlersOK, ClientsOK
<1> QED
  BY <1>1, <1>2, <1>3, <1>4, <1>5, <1>6, <1>7, <1>8, <1>9, <1>10, <1>11, <1>12, <1>13, <1>14,
     <1>15, <1>16, <1>17, <1>18, <1>19, <1>20, <1>21, <1>22, <1>23, <1>24
     DEF Next, Poll, HandlerStep, AggStep, ClientStep

LEMMA InitType == Init => TypeOK
<1>1. <<>> \in Seq(Events) /\ <<>> \in Seq(AlertEvents) /\ Len(<<>>) = 0
  BY EmptySeq
<1> SUFFICES ASSUME Init PROVE TypeOK
  OBVIOUS
<1>2. now \in Times /\ alerts \in 0 .. MaxAlerts
  BY CapAssumption DEF Init, Times
<1>3. ChannelOK /\ AggOK
  <2>1. queue \in [Receivers -> Seq(Events)]
    BY <1>1 DEF Init
  <2>2. \A r \in Receivers : Len(queue[r]) <= ChannelCap
    BY <1>1, CapAssumption DEF Init
  <2>3. recent \in Seq(AlertEvents) /\ Len(recent) <= RecentCap
    BY <1>1, CapAssumption DEF Init
  <2> QED
    BY <2>1, <2>2, <2>3 DEF Init, ChannelOK, AggOK
<1>4. StatusOK /\ HandlersOK
  BY DEF Init, StatusOK, HandlersOK
<1>5. ClientsOK
  BY <1>1, CapAssumption DEF Init, ClientsOK
<1> QED
  BY <1>2, <1>3, <1>4, <1>5 DEF TypeOK

(* The types of all variables, the capacity of the ring buffer and of the  *)
(* feed, and the room in the channel, are preserved by every step.         *)
THEOREM TypeCorrect == Spec => []TypeOK
BY InitType, TypeInductive, PTL DEF Spec

-----------------------------------------------------------------------------
(***************************************************************************)
(* The epoch.  Until the aggregator receives or loses it, the last reset   *)
(* in its queue is the one published last; so once none is left, and none  *)
(* was lost, the epoch it holds is that one.                               *)
(***************************************************************************)

NoReset(q) == \A i \in 1 .. Len(q) : ~IsReset(q[i])

LastReset(q, t) ==
  \E i \in 1 .. Len(q) : /\ IsReset(q[i]) /\ q[i].at = t
                         /\ \A j \in i + 1 .. Len(q) : ~IsReset(q[j])

LEMMA TailResets ==
  ASSUME NEW q \in Seq(Events), q # <<>>, NEW t
  PROVE  /\ NoReset(q) => NoReset(Tail(q))
         /\ LastReset(q, t) => \/ LastReset(Tail(q), t)
                               \/ NoReset(Tail(q)) /\ IsReset(Head(q)) /\ Head(q).at = t
<1>1. /\ Len(q) \in Nat /\ Len(Tail(q)) = Len(q) - 1 /\ Head(q) = q[1]
      /\ \A i \in 1 .. Len(Tail(q)) : Tail(q)[i] = q[i + 1]
  BY HeadTailProperties, LenProperties
<1>2. NoReset(q) => NoReset(Tail(q))
  BY <1>1 DEF NoReset
<1>3. ASSUME LastReset(q, t)
      PROVE  \/ LastReset(Tail(q), t)
             \/ NoReset(Tail(q)) /\ IsReset(Head(q)) /\ Head(q).at = t
  <2>1. PICK i \in 1 .. Len(q) : /\ IsReset(q[i]) /\ q[i].at = t
                                 /\ \A j \in i + 1 .. Len(q) : ~IsReset(q[j])
    BY <1>3 DEF LastReset
  <2>2. CASE i = 1
    BY <1>1, <2>1, <2>2 DEF NoReset
  <2>3. CASE i # 1
    <3>1. i - 1 \in 1 .. Len(Tail(q)) /\ Tail(q)[i - 1] = q[i]
      BY <1>1, <2>3
    <3>2. \A j \in (i - 1) + 1 .. Len(Tail(q)) : ~IsReset(Tail(q)[j])
      BY <1>1, <2>1
    <3> QED
      BY <2>1, <3>1, <3>2 DEF LastReset
  <2> QED
    BY <2>2, <2>3
<1> QED
  BY <1>2, <1>3

LEMMA AppendResets ==
  ASSUME NEW q \in Seq(Events), NEW e \in Events, NEW t
  PROVE  /\ ~IsReset(e) /\ NoReset(q) => NoReset(Append(q, e))
         /\ ~IsReset(e) /\ LastReset(q, t) => LastReset(Append(q, e), t) /\ ~NoReset(Append(q, e))
         /\ IsReset(e) => LastReset(Append(q, e), e.at) /\ ~NoReset(Append(q, e))
<1>1. /\ Len(q) \in Nat /\ Len(Append(q, e)) = Len(q) + 1
      /\ \A i \in 1 .. Len(q) : Append(q, e)[i] = q[i]
      /\ Append(q, e)[Len(q) + 1] = e
  BY AppendProperties, LenProperties
<1>2. ~IsReset(e) /\ NoReset(q) => NoReset(Append(q, e))
  BY <1>1 DEF NoReset
<1>3. ASSUME ~IsReset(e), LastReset(q, t)
      PROVE  LastReset(Append(q, e), t) /\ ~NoReset(Append(q, e))
  <2>1. PICK i \in 1 .. Len(q) : /\ IsReset(q[i]) /\ q[i].at = t
                                 /\ \A j \in i + 1 .. Len(q) : ~IsReset(q[j])
    BY <1>3 DEF LastReset
  <2>2. i \in 1 .. Len(Append(q, e)) /\ Append(q, e)[i] = q[i]
    BY <1>1
  <2>3. \A j \in i + 1 .. Len(Append(q, e)) : ~IsReset(Append(q, e)[j])
    BY <1>1, <1>3, <2>1
  <2> QED
    BY <2>1, <2>2, <2>3 DEF LastReset, NoReset
<1>4. IsReset(e) => LastReset(Append(q, e), e.at) /\ ~NoReset(Append(q, e))
  <2>1. Len(q) + 1 \in 1 .. Len(Append(q, e))
    BY <1>1
  <2>2. \A j \in (Len(q) + 1) + 1 .. Len(Append(q, e)) : FALSE
    BY <1>1
  <2> QED
    BY <1>1, <2>1, <2>2 DEF LastReset, NoReset
<1> QED
  BY <1>2, <1>3, <1>4

EpochPending ==
  /\ NoReset(queue[Agg]) \/ LastReset(queue[Agg], sent)
  /\ NoReset(queue[Agg]) /\ ~missed => epoch = sent

EpochInv == From(samples, epoch) /\ EpochPending

LEMMA AggIsReceiver ==
  ASSUME TypeOK
  PROVE  /\ Agg \in Receivers /\ Agg \in Subscribed
         /\ queue[Agg] \in Seq(Events) /\ Len(queue[Agg]) \in Nat /\ DOMAIN queue[Agg] = 1 .. Len(queue[Agg])
         /\ epoch \in Nat \cup {None} /\ samples \subseteq Nat
BY LenProperties, CapAssumption DEF TypeOK, ChannelOK, AggOK, Receivers, Subscribed, Times

(* What a publication does to the pending resets.                          *)
LEMMA PublishPending ==
  ASSUME TypeOK, EpochPending, NEW e \in Events, Publish(e), epoch' = epoch,
         IsReset(e) => sent' = e.at, ~IsReset(e) => sent' = sent
  PROVE  EpochPending'
<1> DEFINE q == Kept(Agg)
<1>1. queue'[Agg] = Append(q, e) /\ q \in Seq(Events)
  BY AggIsReceiver, KeptHasRoom DEF Publish, TypeOK
<1>2. CASE IsReset(e)
  BY <1>1, <1>2, AppendResets DEF EpochPending
<1>3. CASE ~IsReset(e) /\ ~Full(Agg)
  <2>1. q = queue[Agg] /\ missed' = missed
    BY <1>3 DEF Kept, Publish, TypeOK, ChannelOK
  <2> QED
    BY <1>1, <1>3, <2>1, AppendResets DEF EpochPending
<1>4. CASE ~IsReset(e) /\ Full(Agg)
  <2>1. queue[Agg] # <<>> /\ q = Tail(queue[Agg])
    BY <1>4, AggIsReceiver, EmptySeq, CapAssumption DEF Full, Kept
  <2>2. CASE NoReset(queue[Agg])
    <3>1. NoReset(q) /\ ~IsReset(Head(queue[Agg]))
      BY <2>1, <2>2, AggIsReceiver, TailResets, EmptySeq DEF NoReset
    <3>2. missed' = missed
      BY <1>4, <3>1 DEF Publish, TypeOK, ChannelOK
    <3> QED
      BY <1>1, <1>4, <2>2, <3>1, <3>2, AppendResets DEF EpochPending
  <2>3. CASE LastReset(queue[Agg], sent)
    <3>1. CASE LastReset(q, sent)
      BY <1>1, <1>4, <3>1, AppendResets DEF EpochPending
    <3>2. CASE NoReset(q) /\ IsReset(Head(queue[Agg]))
      <4>1. \A i \in 2 .. ChannelCap : ~IsReset(queue[Agg][i])
        <5> SUFFICES ASSUME NEW i \in 2 .. ChannelCap PROVE ~IsReset(queue[Agg][i])
          OBVIOUS
        <5>1. i - 1 \in 1 .. Len(q) /\ q[i - 1] = queue[Agg][i]
          BY <1>4, <2>1, AggIsReceiver, HeadTailProperties, CapAssumption DEF Full
        <5> QED
          BY <3>2, <5>1 DEF NoReset
      <4>2. missed'
        BY <1>4, <3>2, <4>1 DEF Publish
      <4> QED
        BY <1>1, <1>4, <3>2, <4>2, AppendResets DEF EpochPending
    <3> QED
      BY <2>1, <2>3, <3>1, <3>2, AggIsReceiver, TailResets
  <2> QED
    BY <2>2, <2>3 DEF EpochPending
<1> QED
  BY <1>2, <1>3, <1>4

LEMMA EpochStep ==
  ASSUME TypeOK, EpochInv, [Next]_vars
  PROVE  EpochInv'
<1> USE DEF EpochInv, channelVars, aggVars, pollerVars, handlerVars, clientVars
<1>q. ASSUME UNCHANGED <<queue, missed, epoch, sent>> PROVE EpochPending'
  BY <1>q DEF EpochPending
<1>s. ASSUME UNCHANGED <<samples, epoch>> PROVE From(samples, epoch)'
  BY <1>s DEF From
<1>1. CASE Advance
  BY <1>1, <1>q, <1>s DEF Advance
<1>2. CASE ReaderPublishes
  <2>1. PICK t \in 0 .. now : Publish(AlertEvent(alerts + 1, t))
    BY <1>2 DEF ReaderPublishes
  <2>2. alerts + 1 \in Ids /\ t \in Times
    BY <1>2, CapAssumption DEF ReaderPublishes, Ids, Times, TypeOK
  <2>3. AlertEvent(alerts + 1, t) \in Events /\ ~IsReset(AlertEvent(alerts + 1, t))
    BY <2>2, MadeEvents DEF AlertEvent, IsReset
  <2> QED
    BY <1>2, <1>s, <2>1, <2>3, PublishPending DEF ReaderPublishes
<1>3. ASSUME NEW h \in Handlers, HandlerSetsStatus(h) PROVE EpochInv'
  BY <1>3, <1>q, <1>s DEF HandlerSetsStatus
<1>4. ASSUME NEW h \in Handlers, HandlerClearsStats(h) PROVE EpochInv'
  BY <1>4, <1>q, <1>s DEF HandlerClearsStats
<1>5. ASSUME NEW h \in Handlers, HandlerStamps(h) PROVE EpochInv'
  BY <1>5, <1>q, <1>s DEF HandlerStamps
<1>6. ASSUME NEW h \in Handlers, HandlerSendsReset(h) PROVE EpochInv'
  <2>1. stamp[h] \in Times
    BY <1>6 DEF HandlerSendsReset, HandlerGoes, TypeOK, HandlersOK
  <2>2. ResetEvent(stamp[h]) \in Events
    BY <2>1, MadeEvents
  <2>3. IsReset(ResetEvent(stamp[h])) /\ ResetEvent(stamp[h]).at = stamp[h]
    BY DEF ResetEvent, IsReset
  <2> QED
    BY <1>6, <1>s, <2>2, <2>3, PublishPending DEF HandlerSendsReset
<1>7. CASE PollerWrites
  BY <1>7, <1>q, <1>s DEF PollerWrites
<1>8. CASE PollerReads
  BY <1>8, <1>q, <1>s DEF PollerReads
<1>9. CASE PollerPublishes
  <2>1. StatusEvent(polled) \in Events /\ ~IsReset(StatusEvent(polled))
    BY <1>9, MadeEvents DEF PollerPublishes, TypeOK, StatusOK, StatusEvent, IsReset
  <2> QED
    BY <1>9, <1>s, <2>1, PublishPending DEF PollerPublishes
<1>o. ASSUME Receives(Agg), ~IsReset(Head(queue[Agg])), UNCHANGED <<epoch, sent>>
      PROVE  EpochPending'
  <2>1. queue[Agg] # <<>> /\ queue'[Agg] = Tail(queue[Agg]) /\ missed' = missed
    BY <1>o, AggIsReceiver, ReceivesType DEF Receives, TypeOK
  <2>2. ~NoReset(queue[Agg]) => ~NoReset(Tail(queue[Agg]))
    BY <1>o, <2>1, AggIsReceiver, HeadTailProperties DEF NoReset
  <2> QED
    BY <1>o, <2>1, <2>2, AggIsReceiver, TailResets DEF EpochPending
<1>10. CASE AggReceivesAlert
  <2>1. Head(queue[Agg]) \in AlertEvents
    BY <1>10, AggIsReceiver, ReceivesType, EventFields DEF AggReceivesAlert, TypeOK
  <2>2. ~IsReset(Head(queue[Agg])) /\ Head(queue[Agg]).at \in Nat
    BY <1>10, <2>1, AlertFields, CapAssumption DEF AggReceivesAlert, IsReset, Times
  <2>3. From(samples, epoch)'
    BY <1>10, <2>2, AggIsReceiver DEF AggReceivesAlert, From, Stale
  <2> QED
    BY <1>10, <1>o, <2>2, <2>3 DEF AggReceivesAlert
<1>11. CASE AggReceivesReset
  <2>1. queue[Agg] # <<>> /\ queue'[Agg] = Tail(queue[Agg]) /\ UNCHANGED <<missed, sent>>
    BY <1>11, AggIsReceiver, ReceivesType DEF AggReceivesReset, Receives, TypeOK
  <2>2. ~NoReset(queue[Agg])
    BY <1>11, <2>1, AggIsReceiver, HeadTailProperties, EmptySeq DEF AggReceivesReset, NoReset
  <2>3. \/ LastReset(Tail(queue[Agg]), sent)
        \/ NoReset(Tail(queue[Agg])) /\ Head(queue[Agg]).at = sent
    BY <2>1, <2>2, AggIsReceiver, TailResets DEF EpochPending
  <2>4. LastReset(Tail(queue[Agg]), sent) => ~NoReset(Tail(queue[Agg]))
    BY DEF LastReset, NoReset
  <2>5. EpochPending'
    BY <1>11, <2>1, <2>3, <2>4 DEF AggReceivesReset, EpochPending
  <2> QED
    BY <1>11, <2>5 DEF AggReceivesReset, From
<1>12. CASE AggIgnores
  BY <1>12, <1>o, <1>s DEF AggIgnores, IsReset
<1>13. CASE AggLags
  BY <1>13, <1>q, <1>s DEF AggLags, Lags
<1>14. CASE AggTicks
  <2>1. OtherEvent \in Events /\ ~IsReset(OtherEvent)
    BY MadeEvents DEF OtherEvent, IsReset
  <2> QED
    BY <1>14, <1>s, <2>1, PublishPending DEF AggTicks
<1>15. CASE AggPublishesStats
  <2>1. OtherEvent \in Events /\ ~IsReset(OtherEvent)
    BY MadeEvents DEF OtherEvent, IsReset
  <2> QED
    BY <1>15, <1>s, <2>1, PublishPending DEF AggPublishesStats
<1>c. ASSUME NEW c \in Clients, queue'[Agg] = queue[Agg], UNCHANGED <<missed, epoch, sent>>
      PROVE  EpochPending'
  BY <1>c DEF EpochPending
<1>d. ASSUME NEW c \in Clients, Receives(c) PROVE queue'[Agg] = queue[Agg] /\ missed' = missed
  BY <1>d, AggAssumption, AggIsReceiver DEF Receives, TypeOK, ChannelOK
<1>16. ASSUME NEW c \in Clients, Connect(c) PROVE EpochInv'
  BY <1>16, <1>q, <1>s DEF Connect
<1>17. ASSUME NEW c \in Clients, Subscribe(c) PROVE EpochInv'
  BY <1>17, <1>q, <1>s DEF Subscribe
<1>18. ASSUME NEW c \in Clients, ClientReceivesAlert(c) PROVE EpochInv'
  BY <1>18, <1>c, <1>d, <1>s DEF ClientReceivesAlert
<1>19. ASSUME NEW c \in Clients, ClientSkips(c) PROVE EpochInv'
  BY <1>19, <1>c, <1>d, <1>s DEF ClientSkips
<1>20. ASSUME NEW c \in Clients, ClientReceivesStatus(c) PROVE EpochInv'
  BY <1>20, <1>c, <1>d, <1>s DEF ClientReceivesStatus
<1>21. ASSUME NEW c \in Clients, ClientLags(c) PROVE EpochInv'
  BY <1>21, <1>q, <1>s DEF ClientLags, Lags
<1>22. ASSUME NEW c \in Clients, Resync(c) PROVE EpochInv'
  BY <1>22, <1>q, <1>s DEF Resync
<1>23. ASSUME NEW c \in Clients, Disconnect(c) PROVE EpochInv'
  <2>1. queue'[Agg] = queue[Agg]
    BY <1>23, AggAssumption, AggIsReceiver DEF Disconnect, TypeOK, ChannelOK
  <2> QED
    BY <1>23, <1>c, <1>s, <2>1 DEF Disconnect
<1>24. CASE UNCHANGED vars
  BY <1>24, <1>q, <1>s DEF vars
<1> QED
  BY <1>1, <1>2, <1>3, <1>4, <1>5, <1>6, <1>7, <1>8, <1>9, <1>10, <1>11, <1>12, <1>13, <1>14,
     <1>15, <1>16, <1>17, <1>18, <1>19, <1>20, <1>21, <1>22, <1>23, <1>24
     DEF Next, Poll, HandlerStep, AggStep, ClientStep

LEMMA EpochInit == Init => EpochInv
<1> SUFFICES ASSUME Init PROVE EpochInv
  OBVIOUS
<1>1. NoReset(queue[Agg])
  BY DEF Init, NoReset, Receivers
<1> QED
  BY <1>1 DEF Init, EpochInv, EpochPending, From

(* For any number of requests that begin an epoch, however they interleave, *)
(* the samples behind the percentiles are of one epoch.                     *)
THEOREM PercentilesOfOneEpoch == Spec => []SamplesOfEpoch
<1>1. TypeOK /\ EpochInv => SamplesOfEpoch
  BY AggIsReceiver DEF EpochInv, EpochPending, SamplesOfEpoch, ResetPending, NoReset
<1>2. Init /\ [][Next]_vars => [](TypeOK /\ EpochInv)
  BY InitType, TypeInductive, EpochInit, EpochStep, PTL
<1> QED
  BY <1>1, <1>2, PTL DEF Spec

-----------------------------------------------------------------------------
(***************************************************************************)
(* The feed.  Alerts are numbered as they are published, every queue and   *)
(* the ring buffer hold them in that order, and what a socket subscribed   *)
(* after its snapshot receives is younger than all the snapshot showed.    *)
(***************************************************************************)

IsAlert(e) == e.type = "alert"

(* The alerts of q are in the order they were published, the last no        *)
(* younger than n.                                                          *)
Upward(q, n) ==
  /\ \A i \in 1 .. Len(q) : IsAlert(q[i]) => q[i].id <= n
  /\ \A i, j \in 1 .. Len(q) : i < j /\ IsAlert(q[i]) /\ IsAlert(q[j]) => q[i].id < q[j].id

(* Every alert of s was published before every alert of q.                  *)
Before(s, q) ==
  \A i \in 1 .. Len(s) : \A j \in 1 .. Len(q) : IsAlert(q[j]) => s[i].id < q[j].id

Downward(f) == \A i, j \in 1 .. Len(f) : i < j => f[i].id > f[j].id

FeedOrder(c) ==
  /\ conn[c] = "lagging" => c \in resynced
  /\ conn[c] \in {"off", "greeted"} => queue[c] = <<>>
  /\ c \notin resynced => /\ Downward(feed[c])
                          /\ Before(feed[c], queue[c])
                          /\ \A i \in 1 .. Len(feed[c]) : feed[c][i].id <= alerts

OrderInv ==
  /\ \A r \in Receivers : Upward(queue[r], alerts)
  /\ Upward(recent, alerts) /\ Before(recent, queue[Agg])
  /\ \A c \in Clients : FeedOrder(c)

LEMMA TailUpward ==
  ASSUME NEW q \in Seq(Events), q # <<>>, NEW n
  PROVE  /\ Upward(q, n) => Upward(Tail(q), n)
         /\ \A s : Before(s, q) => Before(s, Tail(q))
         /\ Upward(q, n) /\ IsAlert(Head(q)) =>
              /\ Head(q).id <= n
              /\ \A j \in 1 .. Len(Tail(q)) : IsAlert(Tail(q)[j]) => Head(q).id < Tail(q)[j].id
<1>1. /\ Len(q) \in Nat /\ Len(q) >= 1 /\ Len(Tail(q)) = Len(q) - 1 /\ Head(q) = q[1]
      /\ \A i \in 1 .. Len(Tail(q)) : Tail(q)[i] = q[i + 1]
  BY HeadTailProperties, LenProperties, EmptySeq
<1>2. \A i \in 1 .. Len(Tail(q)) : i + 1 \in 1 .. Len(q) /\ 1 < i + 1
  BY <1>1
<1>3. 1 \in 1 .. Len(q)
  BY <1>1
<1>4. Upward(q, n) => Upward(Tail(q), n)
  BY <1>1, <1>2 DEF Upward
<1>5. \A s : Before(s, q) => Before(s, Tail(q))
  BY <1>1, <1>2 DEF Before
<1> QED
  BY <1>1, <1>2, <1>3, <1>4, <1>5 DEF Upward

(* A new event that is no alert, or the youngest alert.                     *)
LEMMA AppendUpward ==
  ASSUME NEW q \in Seq(Events), NEW e \in Events, NEW n \in Nat, NEW m \in Nat, n <= m,
         IsAlert(e) => e.id = m /\ n < m,
         Upward(q, n)
  PROVE  /\ Upward(Append(q, e), m)
         /\ \A s : Before(s, q) /\ (\A i \in 1 .. Len(s) : s[i].id \in Nat /\ s[i].id <= n)
                     => Before(s, Append(q, e))
<1>1. /\ Len(q) \in Nat /\ Len(Append(q, e)) = Len(q) + 1
      /\ \A i \in 1 .. Len(q) : Append(q, e)[i] = q[i]
      /\ Append(q, e)[Len(q) + 1] = e
  BY AppendProperties, LenProperties
<1>2. \A i \in 1 .. Len(q) : IsAlert(q[i]) => q[i].id \in Nat
  BY ElementOfSeq, EventFields, AlertFields, CapAssumption DEF IsAlert, Ids
<1>3. \A i \in 1 .. Len(Append(q, e)) : i \in 1 .. Len(q) \/ i = Len(q) + 1
  BY <1>1
<1>4. Upward(Append(q, e), m)
  BY <1>1, <1>2, <1>3 DEF Upward
<1>5. ASSUME NEW s, Before(s, q), \A i \in 1 .. Len(s) : s[i].id \in Nat /\ s[i].id <= n
      PROVE  Before(s, Append(q, e))
  BY <1>1, <1>3, <1>5 DEF Before
<1> QED
  BY <1>4, <1>5

LEMMA ReceiverQueues ==
  ASSUME TypeOK, NEW r \in Receivers
  PROVE  queue[r] \in Seq(Events) /\ Len(queue[r]) \in Nat /\ alerts \in Nat
BY LenProperties, CapAssumption DEF TypeOK, ChannelOK

LEMMA KeptOrder ==
  ASSUME TypeOK, NEW r \in Receivers
  PROVE  /\ \A n : Upward(queue[r], n) => Upward(Kept(r), n)
         /\ \A s : Before(s, queue[r]) => Before(s, Kept(r))
<1>1. CASE Full(r)
  <2>1. queue[r] # <<>>
    BY <1>1, ReceiverQueues, EmptySeq, CapAssumption DEF Full
  <2> QED
    BY <1>1, <2>1, ReceiverQueues, TailUpward DEF Kept
<1>2. CASE ~Full(r)
  BY <1>2 DEF Kept
<1> QED
  BY <1>1, <1>2

LEMMA AlertIds ==
  ASSUME NEW s \in Seq(AlertEvents)
  PROVE  /\ Len(s) \in Nat
         /\ \A i \in 1 .. Len(s) : s[i] \in AlertEvents /\ IsAlert(s[i]) /\ s[i].id \in Nat
BY LenProperties, ElementOfSeq, AlertFields, CapAssumption DEF IsAlert, Ids

(* A publication keeps everything in order.                                 *)
LEMMA PublishOrder ==
  ASSUME TypeOK, OrderInv, NEW e \in Events, Publish(e),
         alerts' \in Nat, alerts <= alerts',
         IsAlert(e) => e.id = alerts' /\ alerts < alerts',
         UNCHANGED <<recent, clientVars>>
  PROVE  OrderInv'
<1> USE DEF clientVars
<1>1. ASSUME NEW r \in Receivers
      PROVE  /\ Upward(queue'[r], alerts')
             /\ \A s : Before(s, queue[r]) /\ (\A i \in 1 .. Len(s) : s[i].id \in Nat /\ s[i].id <= alerts)
                         => Before(s, queue'[r])
  <2>1. queue'[r] = (IF r \in Subscribed THEN Append(Kept(r), e) ELSE queue[r])
    BY DEF Publish
  <2>2. CASE r \notin Subscribed
    <3>1. Upward(queue[r], alerts) /\ alerts \in Nat
      BY ReceiverQueues DEF OrderInv
    <3>2. \A i \in 1 .. Len(queue[r]) : IsAlert(queue[r][i]) => queue[r][i].id \in Nat
      BY ReceiverQueues, ElementOfSeq, EventFields, AlertFields, CapAssumption DEF IsAlert, Ids
    <3> QED
      BY <2>1, <2>2, <3>1, <3>2 DEF Upward
  <2>3. CASE r \in Subscribed
    <3>1. Kept(r) \in Seq(Events) /\ Upward(Kept(r), alerts) /\ alerts \in Nat
      BY KeptHasRoom, KeptOrder, ReceiverQueues DEF TypeOK, OrderInv
    <3>2. \A s : Before(s, queue[r]) => Before(s, Kept(r))
      BY KeptOrder
    <3> QED
      BY <2>1, <2>3, <3>1, <3>2, AppendUpward
  <2> QED
    BY <2>2, <2>3
<1>2. /\ recent \in Seq(AlertEvents) /\ alerts \in Nat
      /\ \A c \in Clients : feed[c] \in Seq(AlertEvents)
  BY CapAssumption DEF TypeOK, AggOK, ClientsOK
<1>3. Upward(recent', alerts')
  BY <1>2, AlertIds DEF OrderInv, Upward
<1>4. Before(recent, queue[Agg]) /\ \A i \in 1 .. Len(recent) : recent[i].id \in Nat /\ recent[i].id <= alerts
  BY <1>2, AlertIds DEF OrderInv, Upward
<1>5. Before(recent', queue'[Agg])
  BY <1>1, <1>4, AggIsReceiver
<1>6. ASSUME NEW c \in Clients PROVE FeedOrder(c)'
  <2>1. c \in Receivers /\ FeedOrder(c)
    BY DEF Receivers, OrderInv
  <2>2. conn[c] \in {"off", "greeted"} => queue'[c] = <<>>
    BY <2>1, AggAssumption DEF Publish, Subscribed, FeedOrder
  <2>3. ASSUME c \notin resynced
        PROVE  /\ Downward(feed[c]) /\ Before(feed[c], queue'[c])
               /\ \A i \in 1 .. Len(feed[c]) : feed[c][i].id <= alerts'
    <3>1. \A i \in 1 .. Len(feed[c]) : feed[c][i].id \in Nat /\ feed[c][i].id <= alerts
      BY <1>2, <2>1, <2>3, AlertIds DEF FeedOrder
    <3>2. Before(feed[c], queue[c]) /\ Downward(feed[c])
      BY <2>1, <2>3 DEF FeedOrder
    <3>3. Before(feed[c], queue'[c])
      BY <1>1, <2>1, <3>1, <3>2
    <3> QED
      BY <1>2, <3>1, <3>2, <3>3
  <2> QED
    BY <2>1, <2>2, <2>3 DEF FeedOrder
<1> QED
  BY <1>1, <1>3, <1>5, <1>6 DEF OrderInv

LEMMA ReceiveOrder ==
  ASSUME TypeOK, OrderInv, NEW r \in Receivers, Receives(r), NEW x \in Receivers
  PROVE  /\ Upward(queue'[x], alerts)
         /\ \A s : Before(s, queue[x]) => Before(s, queue'[x])
         /\ queue[x] = <<>> => queue'[x] = <<>>
<1>1. Upward(queue[x], alerts)
  BY DEF OrderInv
<1>2. CASE x = r
  <2>1. queue[r] \in Seq(Events) /\ queue[r] # <<>> /\ queue'[r] = Tail(queue[r])
    BY ReceiverQueues, ReceivesType DEF Receives, TypeOK
  <2> QED
    BY <1>1, <1>2, <2>1, TailUpward
<1>3. CASE x # r
  BY <1>1, <1>3, ReceivesType DEF TypeOK
<1> QED
  BY <1>2, <1>3

(* The alert recorded is younger than those in the ring buffer, and older  *)
(* than those the aggregator has still to receive.                         *)
LEMMA RecordOrder ==
  ASSUME TypeOK, OrderInv, queue[Agg] # <<>>, Head(queue[Agg]) \in AlertEvents
  PROVE  LET new == Recorded(Head(queue[Agg]))
         IN  Upward(new, alerts) /\ Before(new, Tail(queue[Agg]))
<1> DEFINE q == queue[Agg]
           e == Head(q)
           kept == IF Len(recent) = RecentCap THEN Tail(recent) ELSE recent
           new == Append(kept, e)
<1>1. /\ q \in Seq(Events) /\ Len(q) \in Nat /\ q # <<>> /\ alerts \in Nat
      /\ Upward(q, alerts) /\ Before(recent, q) /\ Upward(recent, alerts)
  BY AggIsReceiver, ReceiverQueues DEF OrderInv
<1>2. recent \in Seq(AlertEvents)
  BY DEF TypeOK, AggOK
<1>3. kept \in Seq(AlertEvents) /\ Upward(kept, alerts) /\ Before(kept, q)
  <2>1. CASE Len(recent) = RecentCap
    <3>1. /\ recent # <<>> /\ Len(recent) \in Nat /\ Len(Tail(recent)) = Len(recent) - 1
          /\ Tail(recent) \in Seq(AlertEvents)
          /\ \A i \in 1 .. Len(Tail(recent)) : Tail(recent)[i] = recent[i + 1]
      BY <1>2, <2>1, EmptySeq, LenProperties, HeadTailProperties, CapAssumption
    <3>2. \A i \in 1 .. Len(Tail(recent)) : i + 1 \in 1 .. Len(recent)
      BY <3>1
    <3>3. Upward(Tail(recent), alerts)
      BY <1>1, <3>1, <3>2 DEF Upward
    <3>4. Before(Tail(recent), q)
      BY <1>1, <3>1, <3>2 DEF Before
    <3> QED
      BY <2>1, <3>1, <3>3, <3>4
  <2>2. CASE Len(recent) # RecentCap
    BY <1>1, <1>2, <2>2
  <2> QED
    BY <2>1, <2>2
<1>4. IsAlert(e) /\ e.id \in Nat /\ e.id <= alerts /\ q[1] = e /\ 1 \in 1 .. Len(q)
  BY <1>1, AlertFields, TailUpward, HeadTailProperties, EmptySeq, CapAssumption DEF IsAlert, Ids
<1>5. /\ Len(new) = Len(kept) + 1 /\ Len(kept) \in Nat
      /\ \A i \in 1 .. Len(kept) : new[i] = kept[i] /\ IsAlert(kept[i]) /\ kept[i].id \in Nat
      /\ new[Len(kept) + 1] = e
  BY <1>3, AppendProperties, AlertIds
<1>6. \A i \in 1 .. Len(kept) : kept[i].id < e.id
  BY <1>3, <1>4 DEF Before
<1>7. \A i \in 1 .. Len(new) : i \in 1 .. Len(kept) \/ i = Len(kept) + 1
  BY <1>5
<1>8. Upward(new, alerts)
  <2> HIDE DEF new, kept, e
  <2>1. \A i \in 1 .. Len(new) : IsAlert(new[i]) => new[i].id <= alerts
    BY <1>3, <1>4, <1>5, <1>7 DEF Upward
  <2>2. ASSUME NEW i \in 1 .. Len(new), NEW j \in 1 .. Len(new), i < j
        PROVE  new[i].id < new[j].id
    <3>1. i \in 1 .. Len(kept)
      BY <1>5, <1>7, <2>2
    <3>2. CASE j \in 1 .. Len(kept)
      BY <1>3, <1>5, <2>2, <3>1, <3>2 DEF Upward
    <3>3. CASE j = Len(kept) + 1
      BY <1>5, <1>6, <3>1, <3>3
    <3> QED
      BY <1>7, <3>2, <3>3
  <2> QED
    BY <2>1, <2>2 DEF Upward
<1>9. Before(kept, Tail(q)) /\ \A j \in 1 .. Len(Tail(q)) : IsAlert(Tail(q)[j]) => e.id < Tail(q)[j].id
  BY <1>1, <1>3, <1>4, TailUpward
<1>10. Before(new, Tail(q))
  BY <1>5, <1>7, <1>9 DEF Before
<1> QED
  BY <1>8, <1>10 DEF Recorded

(* A snapshot shows alerts newest first.                                   *)
LEMMA SnapshotOrder ==
  ASSUME TypeOK, OrderInv
  PROVE  /\ Downward(Reverse(recent))
         /\ \A i \in 1 .. Len(Reverse(recent)) : Reverse(recent)[i].id <= alerts
<1>1. /\ recent \in Seq(AlertEvents) /\ Len(recent) \in Nat /\ Upward(recent, alerts)
      /\ \A i \in 1 .. Len(recent) : IsAlert(recent[i]) /\ recent[i].id \in Nat
  BY AlertIds DEF TypeOK, AggOK, OrderInv
<1>2. /\ Len(Reverse(recent)) = Len(recent)
      /\ \A i \in 1 .. Len(recent) : Reverse(recent)[i] = recent[Len(recent) - i + 1]
  BY <1>1, ReverseType
<1>3. \A i \in 1 .. Len(recent) : Len(recent) - i + 1 \in 1 .. Len(recent)
  BY <1>1
<1>4. \A i, j \in 1 .. Len(recent) : i < j => Len(recent) - j + 1 < Len(recent) - i + 1
  BY <1>1
<1> QED
  BY <1>1, <1>2, <1>3, <1>4 DEF Upward, Downward

(* An alert put on top of a feed that shows only older ones.               *)
LEMMA PushOrder ==
  ASSUME NEW f \in Seq(AlertEvents), NEW e \in AlertEvents, Downward(f),
         \A i \in 1 .. Len(f) : f[i].id < e.id
  PROVE  /\ Downward(Trimmed(<<e>> \o f))
         /\ \A i \in 1 .. Len(Trimmed(<<e>> \o f)) :
              Trimmed(<<e>> \o f)[i] = e \/ \E k \in 1 .. Len(f) : Trimmed(<<e>> \o f)[i] = f[k]
<1> DEFINE g == <<e>> \o f
<1>1. /\ <<e>> \in Seq(AlertEvents) /\ Len(<<e>>) = 1 /\ <<e>>[1] = e
      /\ Len(f) \in Nat
  BY LenProperties
<1>2. /\ g \in Seq(AlertEvents) /\ Len(g) = 1 + Len(f)
      /\ \A i \in 1 .. 1 + Len(f) : g[i] = IF i <= 1 THEN <<e>>[i] ELSE f[i - 1]
  BY <1>1, ConcatProperties
<1>3. g[1] = e /\ \A i \in 2 .. Len(g) : i - 1 \in 1 .. Len(f) /\ g[i] = f[i - 1]
  BY <1>1, <1>2
<1>4. /\ Len(Trimmed(g)) <= Len(g) /\ Len(Trimmed(g)) \in Nat
      /\ \A i \in 1 .. Len(Trimmed(g)) : Trimmed(g)[i] = g[i]
  BY <1>2, TrimmedType, LenProperties
<1>5. \A i \in 1 .. Len(Trimmed(g)) : i = 1 \/ i \in 2 .. Len(g)
  BY <1>1, <1>2, <1>4
<1>6. Downward(Trimmed(g))
  <2> SUFFICES ASSUME NEW i \in 1 .. Len(Trimmed(g)), NEW j \in 1 .. Len(Trimmed(g)), i < j
               PROVE  g[i].id > g[j].id
    BY <1>4 DEF Downward
  <2>1. j \in 2 .. Len(g) /\ j - 1 \in 1 .. Len(f) /\ g[j] = f[j - 1]
    BY <1>3, <1>4, <1>5
  <2>2. CASE i = 1
    <3>1. g[i] = e /\ f[j - 1].id < e.id /\ f[j - 1].id \in Nat
      BY <1>3, <2>1, <2>2, AlertIds
    <3>2. e.id \in Nat
      BY AlertFields, CapAssumption DEF Ids
    <3> QED
      BY <2>1, <3>1, <3>2
  <2>3. CASE i \in 2 .. Len(g)
    <3>1. i - 1 \in 1 .. Len(f) /\ g[i] = f[i - 1] /\ i - 1 < j - 1
      BY <1>1, <1>3, <2>1, <2>3
    <3>2. f[i - 1].id > f[j - 1].id
      BY <2>1, <3>1 DEF Downward
    <3> QED
      BY <2>1, <3>1, <3>2
  <2> QED
    BY <1>5, <2>2, <2>3
<1>7. \A i \in 1 .. Len(Trimmed(g)) : Trimmed(g)[i] = e \/ \E k \in 1 .. Len(f) : Trimmed(g)[i] = f[k]
  BY <1>3, <1>4, <1>5
<1> QED
  BY <1>6, <1>7

LEMMA OrderStep ==
  ASSUME TypeOK, OrderInv, [Next]_vars
  PROVE  OrderInv'
<1> USE DEF channelVars, aggVars, pollerVars, handlerVars, clientVars
<1>n. alerts \in Nat /\ Agg \in Receivers /\ Clients \subseteq Receivers
  BY CapAssumption DEF TypeOK, Receivers
<1>q. ASSUME UNCHANGED <<alerts, queue, recent, clientVars>> PROVE OrderInv'
  BY <1>q DEF OrderInv, FeedOrder
<1>p. ASSUME NEW e \in Events, Publish(e), ~IsAlert(e), UNCHANGED <<alerts, recent, clientVars>>
      PROVE  OrderInv'
  BY <1>p, <1>n, PublishOrder
<1>1. CASE Advance
  BY <1>1, <1>q DEF Advance
<1>2. CASE ReaderPublishes
  <2>1. PICK t \in 0 .. now : Publish(AlertEvent(alerts + 1, t))
    BY <1>2 DEF ReaderPublishes
  <2>2. alerts + 1 \in Ids /\ t \in Times
    BY <1>2, CapAssumption DEF ReaderPublishes, Ids, Times, TypeOK
  <2>3. /\ AlertEvent(alerts + 1, t) \in Events
        /\ AlertEvent(alerts + 1, t).id = alerts + 1
    BY <2>2, MadeEvents DEF AlertEvent
  <2>4. alerts' = alerts + 1 /\ UNCHANGED <<recent, clientVars>>
    BY <1>2 DEF ReaderPublishes
  <2> QED
    BY <1>n, <2>1, <2>3, <2>4, PublishOrder
<1>3. ASSUME NEW h \in Handlers, HandlerSetsStatus(h) PROVE OrderInv'
  BY <1>3, <1>q DEF HandlerSetsStatus
<1>4. ASSUME NEW h \in Handlers, HandlerClearsStats(h) PROVE OrderInv'
  BY <1>4, <1>q DEF HandlerClearsStats
<1>5. ASSUME NEW h \in Handlers, HandlerStamps(h) PROVE OrderInv'
  BY <1>5, <1>q DEF HandlerStamps
<1>6. ASSUME NEW h \in Handlers, HandlerSendsReset(h) PROVE OrderInv'
  <2>1. ResetEvent(stamp[h]) \in Events /\ ~IsAlert(ResetEvent(stamp[h]))
    BY <1>6, MadeEvents
       DEF HandlerSendsReset, HandlerGoes, TypeOK, HandlersOK, ResetEvent, IsAlert
  <2> QED
    BY <1>6, <1>p, <2>1 DEF HandlerSendsReset
<1>7. CASE PollerWrites
  BY <1>7, <1>q DEF PollerWrites
<1>8. CASE PollerReads
  BY <1>8, <1>q DEF PollerReads
<1>9. CASE PollerPublishes
  <2>1. StatusEvent(polled) \in Events /\ ~IsAlert(StatusEvent(polled))
    BY <1>9, MadeEvents DEF PollerPublishes, TypeOK, StatusOK, StatusEvent, IsAlert
  <2> QED
    BY <1>9, <1>p, <2>1 DEF PollerPublishes
<1>10. CASE AggReceivesAlert
  <2>1. /\ queue[Agg] # <<>> /\ Head(queue[Agg]) \in AlertEvents
        /\ queue'[Agg] = Tail(queue[Agg])
    BY <1>10, AggIsReceiver, ReceivesType, EventFields DEF AggReceivesAlert, Receives, TypeOK
  <2>2. Upward(recent', alerts) /\ Before(recent', queue'[Agg])
    BY <1>10, <2>1, RecordOrder DEF AggReceivesAlert
  <2>3. ASSUME NEW c \in Clients PROVE queue'[c] = queue[c]
    BY <1>n, <1>10, <2>3, AggAssumption, ReceivesType DEF AggReceivesAlert, TypeOK
  <2>4. \A c \in Clients : FeedOrder(c)'
    BY <1>10, <2>3 DEF AggReceivesAlert, OrderInv, FeedOrder
  <2>5. \A r \in Receivers : Upward(queue'[r], alerts)
    BY <1>n, <1>10, ReceiveOrder DEF AggReceivesAlert
  <2>6. alerts' = alerts
    BY <1>10 DEF AggReceivesAlert
  <2> QED
    BY <2>2, <2>4, <2>5, <2>6 DEF OrderInv
<1>r. ASSUME NEW r \in Receivers, Receives(r), UNCHANGED <<alerts, recent, clientVars>>
      PROVE  OrderInv'
  <2>1. \A x \in Receivers : Upward(queue'[x], alerts)
    BY <1>r, ReceiveOrder
  <2>2. Before(recent, queue'[Agg])
    BY <1>n, <1>r, ReceiveOrder DEF OrderInv
  <2>3. ASSUME NEW c \in Clients PROVE FeedOrder(c)'
    <3>1. FeedOrder(c) /\ c \in Receivers
      BY <1>n DEF OrderInv
    <3>2. Before(feed[c], queue[c]) => Before(feed[c], queue'[c])
      BY <1>r, <3>1, ReceiveOrder
    <3>3. queue[c] = <<>> => queue'[c] = <<>>
      BY <1>r, <3>1, ReceiveOrder
    <3> QED
      BY <1>r, <3>1, <3>2, <3>3 DEF FeedOrder
  <2> QED
    BY <1>r, <2>1, <2>2, <2>3 DEF OrderInv
<1>11. CASE AggReceivesReset
  BY <1>11, <1>n, <1>r DEF AggReceivesReset
<1>12. CASE AggIgnores
  BY <1>12, <1>n, <1>r DEF AggIgnores
<1>13. CASE AggLags
  BY <1>13, <1>q DEF AggLags, Lags
<1>14. CASE AggTicks
  <2>1. OtherEvent \in Events /\ ~IsAlert(OtherEvent)
    BY MadeEvents DEF OtherEvent, IsAlert
  <2> QED
    BY <1>14, <1>p, <2>1 DEF AggTicks
<1>15. CASE AggPublishesStats
  <2>1. OtherEvent \in Events /\ ~IsAlert(OtherEvent)
    BY MadeEvents DEF OtherEvent, IsAlert
  <2> QED
    BY <1>15, <1>p, <2>1 DEF AggPublishesStats
(* A step of one client that leaves the queues alone.                      *)
<1>c. ASSUME NEW c \in Clients, UNCHANGED <<alerts, queue, recent>>,
             \A x \in Clients \ {c} : /\ conn'[x] = conn[x] /\ feed'[x] = feed[x]
                                      /\ x \in resynced' <=> x \in resynced,
             FeedOrder(c)'
      PROVE  OrderInv'
  BY <1>c DEF OrderInv, FeedOrder
<1>16. ASSUME NEW c \in Clients, Connect(c) PROVE OrderInv'
  <2>1. queue[c] = <<>> /\ conn'[c] = "greeted" /\ feed'[c] = Reverse(recent)
    BY <1>16 DEF Connect, SocketGoes, ShowSnapshot, OrderInv, FeedOrder, TypeOK, ClientsOK
  <2>2. Before(feed'[c], <<>>)
    BY DEF Before
  <2>3. FeedOrder(c)'
    BY <1>16, <2>1, <2>2, SnapshotOrder DEF Connect, FeedOrder
  <2> QED
    BY <1>16, <1>c, <2>3 DEF Connect, SocketGoes, ShowSnapshot, TypeOK, ClientsOK
<1>17. ASSUME NEW c \in Clients, Subscribe(c) PROVE OrderInv'
  <2>1. FeedOrder(c)'
    BY <1>17 DEF Subscribe, SocketGoes, OrderInv, FeedOrder, TypeOK, ClientsOK
  <2> QED
    BY <1>17, <1>c, <2>1 DEF Subscribe, SocketGoes, TypeOK, ClientsOK
<1>18. ASSUME NEW c \in Clients, ClientReceivesAlert(c) PROVE OrderInv'
  <2> DEFINE e == Head(queue[c])
  <2>1. /\ queue[c] # <<>> /\ queue[c] \in Seq(Events) /\ e \in AlertEvents
        /\ queue'[c] = Tail(queue[c]) /\ \A x \in Clients \ {c} : queue'[x] = queue[x]
        /\ feed[c] \in Seq(AlertEvents) /\ conn[c] = "on" /\ c \in Receivers
    BY <1>18, <1>n, ReceiverQueues, ReceivesType, EventFields
       DEF ClientReceivesAlert, Receives, TypeOK, ClientsOK
  <2>2. /\ feed'[c] = Trimmed(<<e>> \o feed[c])
        /\ \A x \in Clients \ {c} : feed'[x] = feed[x]
        /\ UNCHANGED <<alerts, recent, conn, resynced>>
    BY <1>18 DEF ClientReceivesAlert, TypeOK, ClientsOK
  <2>3. /\ IsAlert(e) /\ e.id \in Nat /\ e.id <= alerts
        /\ \A j \in 1 .. Len(Tail(queue[c])) :
             IsAlert(Tail(queue[c])[j]) => e.id < Tail(queue[c])[j].id
    BY <2>1, AlertFields, TailUpward, CapAssumption DEF OrderInv, IsAlert, Ids
  <2>4. ASSUME c \notin resynced
        PROVE  /\ Downward(feed'[c]) /\ Before(feed'[c], queue'[c])
               /\ \A i \in 1 .. Len(feed'[c]) : feed'[c][i].id <= alerts
    <3>1. /\ Downward(feed[c]) /\ Before(feed[c], queue[c])
          /\ \A i \in 1 .. Len(feed[c]) : feed[c][i].id <= alerts
      BY <2>4 DEF OrderInv, FeedOrder
    <3>2. 1 \in 1 .. Len(queue[c]) /\ queue[c][1] = e
      BY <2>1, LenProperties, EmptySeq, HeadTailProperties
    <3>3. \A i \in 1 .. Len(feed[c]) : feed[c][i].id < e.id
      BY <2>3, <3>1, <3>2 DEF Before
    <3>4. Before(feed[c], Tail(queue[c]))
      BY <2>1, <3>1, TailUpward
    <3>5. /\ Downward(feed'[c])
          /\ \A i \in 1 .. Len(feed'[c]) :
               feed'[c][i] = e \/ \E k \in 1 .. Len(feed[c]) : feed'[c][i] = feed[c][k]
      BY <2>1, <2>2, <3>1, <3>3, PushOrder
    <3>6. Before(feed'[c], queue'[c])
      BY <2>1, <2>3, <3>4, <3>5 DEF Before
    <3> QED
      BY <2>3, <3>1, <3>5, <3>6
  <2>5. FeedOrder(c)'
    BY <2>1, <2>2, <2>4 DEF FeedOrder
  <2>6. \A x \in Clients \ {c} : FeedOrder(x)'
    BY <2>1, <2>2 DEF OrderInv, FeedOrder
  <2>7. \A x \in Receivers : Upward(queue'[x], alerts)
    BY <1>18, <2>1, ReceiveOrder DEF ClientReceivesAlert
  <2>8. Before(recent, queue'[Agg])
    BY <1>18, <1>n, <2>1, ReceiveOrder DEF ClientReceivesAlert, OrderInv
  <2>9. Upward(recent, alerts)
    BY DEF OrderInv
  <2> QED
    BY <2>2, <2>5, <2>6, <2>7, <2>8, <2>9 DEF OrderInv
<1>19. ASSUME NEW c \in Clients, ClientSkips(c) PROVE OrderInv'
  BY <1>19, <1>n, <1>r DEF ClientSkips
<1>20. ASSUME NEW c \in Clients, ClientReceivesStatus(c) PROVE OrderInv'
  <2>1. Receives(c) /\ UNCHANGED <<alerts, recent, conn, feed, resynced>> /\ c \in Receivers
    BY <1>20, <1>n DEF ClientReceivesStatus
  <2>2. \A x \in Receivers : Upward(queue'[x], alerts)
    BY <2>1, ReceiveOrder
  <2>3. Before(recent, queue'[Agg])
    BY <1>n, <2>1, ReceiveOrder DEF OrderInv
  <2>4. ASSUME NEW x \in Clients PROVE FeedOrder(x)'
    <3>1. FeedOrder(x) /\ x \in Receivers
      BY <1>n DEF OrderInv
    <3>2. Before(feed[x], queue[x]) => Before(feed[x], queue'[x])
      BY <2>1, <3>1, ReceiveOrder
    <3>3. queue[x] = <<>> => queue'[x] = <<>>
      BY <2>1, <3>1, ReceiveOrder
    <3> QED
      BY <2>1, <3>1, <3>2, <3>3 DEF FeedOrder
  <2> QED
    BY <2>1, <2>2, <2>3, <2>4 DEF OrderInv
<1>21. ASSUME NEW c \in Clients, ClientLags(c) PROVE OrderInv'
  <2>1. FeedOrder(c)'
    BY <1>21 DEF ClientLags, SocketGoes, FeedOrder, TypeOK, ClientsOK
  <2> QED
    BY <1>21, <1>c, <2>1 DEF ClientLags, Lags, SocketGoes, TypeOK, ClientsOK
<1>22. ASSUME NEW c \in Clients, Resync(c) PROVE OrderInv'
  <2>1. FeedOrder(c)'
    BY <1>22 DEF Resync, SocketGoes, OrderInv, FeedOrder, TypeOK, ClientsOK
  <2> QED
    BY <1>22, <1>c, <2>1 DEF Resync, SocketGoes, ShowSnapshot, TypeOK, ClientsOK
<1>23. ASSUME NEW c \in Clients, Disconnect(c) PROVE OrderInv'
  <2>1. /\ queue'[c] = <<>> /\ feed'[c] = <<>> /\ conn'[c] = "off"
        /\ \A x \in Receivers \ {c} : queue'[x] = queue[x]
        /\ \A x \in Clients \ {c} : /\ conn'[x] = conn[x] /\ feed'[x] = feed[x]
                                    /\ x \in resynced' <=> x \in resynced
        /\ UNCHANGED <<alerts, recent>>
    BY <1>23, <1>n DEF Disconnect, SocketGoes, TypeOK, ChannelOK, ClientsOK
  <2>2. Len(<<>>) = 0 /\ Before(<<>>, <<>>) /\ Downward(<<>>) /\ Upward(<<>>, alerts)
    BY EmptySeq DEF Before, Downward, Upward
  <2>3. FeedOrder(c)'
    BY <2>1, <2>2 DEF FeedOrder
  <2>4. \A x \in Clients \ {c} : FeedOrder(x)'
    BY <1>n, <2>1 DEF OrderInv, FeedOrder
  <2>5. \A x \in Receivers : Upward(queue'[x], alerts)
    BY <2>1, <2>2 DEF OrderInv
  <2>6. Before(recent, queue'[Agg]) /\ Upward(recent, alerts)
    BY <1>n, <2>1, AggAssumption DEF OrderInv
  <2> QED
    BY <2>1, <2>3, <2>4, <2>5, <2>6 DEF OrderInv
<1>24. CASE UNCHANGED vars
  BY <1>24, <1>q DEF vars
<1> QED
  BY <1>1, <1>2, <1>3, <1>4, <1>5, <1>6, <1>7, <1>8, <1>9, <1>10, <1>11, <1>12, <1>13, <1>14,
     <1>15, <1>16, <1>17, <1>18, <1>19, <1>20, <1>21, <1>22, <1>23, <1>24
     DEF Next, Poll, HandlerStep, AggStep, ClientStep

LEMMA OrderInit == Init => OrderInv
<1> SUFFICES ASSUME Init PROVE OrderInv
  OBVIOUS
<1>1. Len(<<>>) = 0 /\ Before(<<>>, <<>>) /\ Downward(<<>>) /\ Upward(<<>>, 0)
  BY EmptySeq DEF Before, Downward, Upward
<1>2. \A r \in Receivers : queue[r] = <<>>
  BY DEF Init
<1>3. \A c \in Clients : c \in Receivers /\ feed[c] = <<>> /\ conn[c] = "off"
  BY DEF Init, Receivers
<1>4. \A c \in Clients : FeedOrder(c)
  BY <1>1, <1>2, <1>3 DEF FeedOrder
<1>5. Agg \in Receivers /\ recent = <<>> /\ alerts = 0
  BY DEF Receivers, Init
<1> QED
  BY <1>1, <1>2, <1>4, <1>5 DEF OrderInv

(* For any number of alerts and of browsers, and any room in the channel:  *)
(* a browser that has not lagged shows its alerts newest first, none twice. *)
THEOREM FeedNewestFirst == Spec => []FeedInOrder
<1>1. TypeOK /\ OrderInv => FeedInOrder
  <2> SUFFICES ASSUME TypeOK, OrderInv, NEW c \in Clients \ resynced
               PROVE  \A i, j \in DOMAIN feed[c] : i < j => feed[c][i].id > feed[c][j].id
    BY DEF FeedInOrder
  <2>1. DOMAIN feed[c] = 1 .. Len(feed[c])
    BY LenProperties DEF TypeOK, ClientsOK
  <2> QED
    BY <2>1 DEF OrderInv, FeedOrder, Downward
<1>2. Init /\ [][Next]_vars => [](TypeOK /\ OrderInv)
  BY InitType, TypeInductive, OrderInit, OrderStep, PTL
<1> QED
  BY <1>1, <1>2, PTL DEF Spec

-----------------------------------------------------------------------------
(***************************************************************************)
(* The promise of Board.  Every step of Measurement is one of its steps, or *)
(* leaves the alerts, the ring buffer and the pages as they are.           *)
(***************************************************************************)

LEMMA BoardStep ==
  ASSUME TypeOK, OrderInv, [Next]_vars
  PROVE  [AsBoard!Next]_(AsBoard!vars)
<1> USE DEF channelVars, aggVars, pollerVars, handlerVars, clientVars
<1>q. UNCHANGED <<alerts, recent, feed, resynced>> => UNCHANGED AsBoard!vars
  BY DEF AsBoard!vars
<1>n. /\ AsBoard!Publish => AsBoard!Next
      /\ \A a \in AlertEvents : AsBoard!Keep(a) => AsBoard!Next
      /\ \A c \in Clients : AsBoard!Show(c) => AsBoard!Next
      /\ \A c \in Clients : AsBoard!FallBehind(c) => AsBoard!Next
      /\ \A c \in Clients : AsBoard!Leave(c) => AsBoard!Next
      /\ \A c \in Clients, a \in AlertEvents : AsBoard!Put(c, a) => AsBoard!Next
  BY DEF AsBoard!Next
<1>1. CASE Advance \/ Poll
  BY <1>q, <1>1 DEF Advance, Poll, PollerWrites, PollerReads, PollerPublishes
<1>2. ASSUME NEW h \in Handlers, HandlerStep(h) PROVE UNCHANGED AsBoard!vars
  BY <1>q, <1>2 DEF HandlerStep, HandlerSetsStatus, HandlerClearsStats, HandlerStamps,
     HandlerSendsReset
<1>3. CASE ReaderPublishes
  BY <1>3, <1>n DEF ReaderPublishes, AsBoard!Publish
<1>4. CASE AggReceivesReset \/ AggIgnores \/ AggLags \/ AggTicks \/ AggPublishesStats
  BY <1>q, <1>4 DEF AggReceivesReset, AggIgnores, AggLags, AggTicks, AggPublishesStats
<1>5. CASE AggReceivesAlert
  <2>1. PICK e \in AlertEvents : e = Head(queue[Agg]) /\ queue[Agg] # <<>>
    BY <1>5, AggIsReceiver, ReceivesType, EventFields DEF AggReceivesAlert, Receives, TypeOK
  <2>2. /\ queue[Agg] \in Seq(Events) /\ 1 \in 1 .. Len(queue[Agg]) /\ queue[Agg][1] = e
        /\ IsAlert(e)
    BY <2>1, AggIsReceiver, ReceiverQueues, LenProperties, EmptySeq, HeadTailProperties,
       AlertFields DEF IsAlert
  <2>3. e.id <= alerts
    BY <2>2, AggIsReceiver DEF OrderInv, Upward
  <2>4. \A i \in DOMAIN recent : recent[i].id < e.id
    BY <2>2, LenProperties DEF OrderInv, Before, TypeOK, AggOK
  <2>5. recent' = Recorded(e) /\ UNCHANGED <<alerts, feed, resynced>>
    BY <1>5, <2>1 DEF AggReceivesAlert
  <2>6. AsBoard!Keep(e)
    BY <2>3, <2>4, <2>5 DEF AsBoard!Keep, AsBoard!Newer, Recorded
  <2> QED
    BY <1>n, <2>6
<1>6. ASSUME NEW c \in Clients, Subscribe(c) \/ ClientSkips(c) \/ ClientReceivesStatus(c)
      PROVE  UNCHANGED AsBoard!vars
  BY <1>q, <1>6 DEF Subscribe, ClientSkips, ClientReceivesStatus
<1>7. ASSUME NEW c \in Clients, Connect(c) \/ Resync(c) PROVE AsBoard!Next
  <2>1. feed' = [feed EXCEPT ![c] = Reverse(recent)] /\ UNCHANGED <<alerts, recent, resynced>>
    BY <1>7 DEF Connect, Resync, ShowSnapshot
  <2>2. AsBoard!Show(c)
    BY <2>1 DEF AsBoard!Show, AsBoard!Reverse, Reverse
  <2> QED
    BY <1>n, <2>2
<1>8. ASSUME NEW c \in Clients, ClientLags(c) PROVE AsBoard!Next
  <2>1. AsBoard!FallBehind(c)
    BY <1>8 DEF ClientLags, Lags, AsBoard!FallBehind
  <2> QED
    BY <1>n, <2>1
<1>9. ASSUME NEW c \in Clients, Disconnect(c) PROVE AsBoard!Next
  <2>1. AsBoard!Leave(c)
    BY <1>9 DEF Disconnect, AsBoard!Leave
  <2> QED
    BY <1>n, <2>1
<1>10. ASSUME NEW c \in Clients, ClientReceivesAlert(c) PROVE AsBoard!Next
  <2>0. c \in Receivers
    BY DEF Receivers
  <2>1. PICK e \in AlertEvents : e = Head(queue[c]) /\ queue[c] # <<>>
    BY <1>10, <2>0, ReceivesType, EventFields DEF ClientReceivesAlert, Receives, TypeOK
  <2>2. /\ queue[c] \in Seq(Events) /\ 1 \in 1 .. Len(queue[c]) /\ queue[c][1] = e
        /\ IsAlert(e)
    BY <2>0, <2>1, ReceiverQueues, LenProperties, EmptySeq, HeadTailProperties, AlertFields
       DEF IsAlert
  <2>3. e.id <= alerts
    BY <2>0, <2>2 DEF OrderInv, Upward
  <2>4. c \notin resynced => \A i \in DOMAIN feed[c] : feed[c][i].id < e.id
    BY <2>2, LenProperties DEF OrderInv, FeedOrder, Before, TypeOK, ClientsOK
  <2>5. /\ feed' = [feed EXCEPT ![c] = Trimmed(<<e>> \o @)]
        /\ UNCHANGED <<alerts, recent, resynced>>
    BY <1>10, <2>1 DEF ClientReceivesAlert
  <2>6. AsBoard!Put(c, e)
    BY <2>3, <2>4, <2>5 DEF AsBoard!Put, AsBoard!Newer, Trimmed
  <2> QED
    BY <1>n, <2>6
<1>11. CASE UNCHANGED vars
  BY <1>q, <1>11 DEF vars
<1> QED
  BY <1>1, <1>2, <1>3, <1>4, <1>5, <1>6, <1>7, <1>8, <1>9, <1>10, <1>11
     DEF Next, AggStep, ClientStep

(* For any number of browsers and any room in the channel: whatever is     *)
(* lost, late or cut off, the console keeps the promise of Board.          *)
THEOREM ImplementsBoard == Spec => BoardSpec
<1>1. Init => AsBoard!Init
  BY DEF Init, AsBoard!Init
<1>2. Init /\ [][Next]_vars => [](TypeOK /\ OrderInv)
  BY InitType, TypeInductive, OrderInit, OrderStep, PTL
<1> QED
  BY <1>1, <1>2, BoardStep, PTL DEF Spec, BoardSpec, AsBoard!Spec
=================================================================================
