------------------------------ MODULE RunLoopProofs ------------------------------
(***************************************************************************)
(* Proofs about RunLoop, for every set of configurations and rates.        *)
(***************************************************************************)
EXTENDS RunLoop, SequenceTheorems, TLAPS

(***************************************************************************)
(* Type correctness.                                                       *)
(***************************************************************************)

(* Every variable keeps its type, for any configuration validate() accepts  *)
(* and any sequence of calls on the handle.                                 *)
THEOREM TypeCorrect == Spec => []TypeOK
<1>1. Init => TypeOK
  <2> SUFFICES ASSUME Init PROVE TypeOK
    OBVIOUS
  <2>1. cfg \in Configs /\ cfg \in Config /\ Valid(cfg)
    BY ConfigsAssumption DEF Init
  <2>2. cfg.period \in Nat \ {0}
    BY <2>1 DEF Valid, Config
  <2>3. <<>> \in Seq(Row)
    OBVIOUS
  <2> QED
    BY <2>1, <2>2, <2>3 DEF Init, TypeOK
<1>2. TypeOK /\ [Next]_vars => TypeOK'
  <2> SUFFICES ASSUME TypeOK, [Next]_vars PROVE TypeOK'
    OBVIOUS
  <2> USE DEF TypeOK
  <2>0. cfg \in Config
    BY ConfigsAssumption
  <2>1. CASE NextRow
    BY <2>1 DEF NextRow, NewRate, Rebase, pacerVars, clockVars, stampVars, handleVars
  <2>2. CASE Panic
    BY <2>2 DEF Panic, pacerVars, clockVars, stampVars, handleVars
  <2>3. CASE LeaveLoop
    BY <2>3 DEF LeaveLoop, AfterLoop, pacerVars, clockVars, stampVars, handleVars
  <2>4. CASE Interrupt
    BY <2>4 DEF Interrupt, AfterLoop, pacerVars, clockVars, stampVars, handleVars
  <2>5. CASE Emit
    <3>1. [id |-> sent + 1, ts |-> Stamp] \in Row
      BY DEF Row, Stamp
    <3>2. buf' \in Seq(Row)
      BY <3>1, <2>5, AppendProperties DEF Emit
    <3> QED
      BY <2>5, <3>2 DEF Emit, AdvanceTick, pacerVars, clockVars, stampVars, handleVars
  <2>6. CASE Write
    <3>1. table' \in Seq(Row)
      BY <2>6, ConcatProperties DEF Write
    <3> QED
      BY <2>6, <3>1 DEF Write, Progress, pacerVars, clockVars, stampVars, handleVars
  <2>7. CASE Flush
    <3>1. table' \in Seq(Row)
      BY <2>7, ConcatProperties DEF Flush
    <3> QED
      BY <2>7, <3>1 DEF Flush, pacerVars, clockVars, stampVars, handleVars
  <2>8. CASE WriteError
    <3>1. table \o buf \in Seq(Row)
      BY ConcatProperties
    <3>2. table' \in Seq(Row)
      BY <2>8, <3>1 DEF WriteError
    <3> QED
      BY <2>8, <3>2 DEF WriteError, pacerVars, clockVars, stampVars, handleVars
  <2>9. CASE Finish
    BY <2>9 DEF Finish, Progress, pacerVars, clockVars, stampVars, handleVars
  <2>10. CASE Return
    BY <2>10 DEF Return, pacerVars, clockVars, stampVars, handleVars
  <2>11. ASSUME NEW p \in Periods, SetRate(p) PROVE TypeOK'
    BY <2>11, PeriodsAssumption DEF SetRate, loopVars, clockVars, stampVars
  <2>12. CASE Stop
    BY <2>12 DEF Stop, loopVars, clockVars, stampVars
  <2>13. CASE Tick
    BY <2>13, HorizonAssumption DEF Tick, Saturate, loopVars, stampVars, handleVars
  <2>14. CASE UNCHANGED vars
    BY <2>14 DEF vars, loopVars, clockVars, stampVars, handleVars
  <2> QED
    BY <2>1, <2>2, <2>3, <2>4, <2>5, <2>6, <2>7, <2>8, <2>9, <2>10, <2>11,
       <2>12, <2>13, <2>14 DEF Next, Task
<1> QED
  BY <1>1, <1>2, PTL DEF Spec

-----------------------------------------------------------------------------
(***************************************************************************)
(* The buffer.                                                             *)
(***************************************************************************)

(* How full the buffer is wherever the task can be.                        *)
SizeInv ==
  /\ Valid(cfg)
  /\ Len(buf) <= cfg.batch
  /\ pc \in {"row", "due"} => cfg.batch = 0 \/ Len(buf) < cfg.batch
  /\ pc \in {"due", "write", "flush"} => cfg.batch > 0
  /\ pc = "write" => Len(buf) = cfg.batch
  /\ pc = "flush" => buf # <<>>

LEMMA BufferSize == Spec => []SizeInv
<1>1. Init => SizeInv
  <2> SUFFICES ASSUME Init PROVE SizeInv
    OBVIOUS
  <2>1. cfg \in Config /\ Valid(cfg)
    BY ConfigsAssumption DEF Init
  <2>2. cfg.batch \in Nat
    BY <2>1 DEF Config
  <2> QED
    BY <2>1, <2>2 DEF Init, SizeInv
<1>2. TypeOK /\ SizeInv /\ [Next]_vars => SizeInv'
  <2> SUFFICES ASSUME TypeOK, SizeInv, [Next]_vars PROVE SizeInv'
    OBVIOUS
  <2>0. cfg \in Config /\ cfg.batch \in Nat /\ buf \in Seq(Row) /\ Len(buf) \in Nat
    BY ConfigsAssumption, LenProperties DEF TypeOK, Config
  <2>1. CASE NextRow
    BY <2>0, <2>1 DEF SizeInv, Valid, NextRow
  <2>2. CASE Panic
    BY <2>0, <2>2 DEF SizeInv, Valid, Panic
  <2>3. CASE LeaveLoop
    BY <2>0, <2>3 DEF SizeInv, Valid, LeaveLoop, AfterLoop
  <2>4. CASE Interrupt
    BY <2>0, <2>4 DEF SizeInv, Valid, Interrupt, AfterLoop
  <2>5. CASE Emit
    <3>1. [id |-> sent + 1, ts |-> Stamp] \in Row
      BY DEF Row, Stamp, TypeOK
    <3>2. Len(buf') = Len(buf) + 1
      BY <2>0, <2>5, <3>1, AppendProperties DEF Emit
    <3> QED
      BY <2>0, <2>5, <3>2 DEF SizeInv, Valid, Emit
  <2>6. CASE Write
    BY <2>0, <2>6 DEF SizeInv, Valid, Write
  <2>7. CASE Flush
    BY <2>0, <2>7 DEF SizeInv, Valid, Flush
  <2>8. CASE WriteError
    BY <2>0, <2>8 DEF SizeInv, Valid, WriteError
  <2>9. CASE Finish
    BY <2>0, <2>9 DEF SizeInv, Valid, Finish
  <2>10. CASE Return
    BY <2>0, <2>10 DEF SizeInv, Valid, Return
  <2>11. ASSUME NEW p \in Periods, SetRate(p) PROVE SizeInv'
    BY <2>0, <2>11 DEF SizeInv, Valid, SetRate, loopVars
  <2>12. CASE Stop
    BY <2>0, <2>12 DEF SizeInv, Valid, Stop, loopVars
  <2>13. CASE Tick
    BY <2>0, <2>13 DEF SizeInv, Valid, Tick, loopVars
  <2>14. CASE UNCHANGED vars
    BY <2>0, <2>14 DEF SizeInv, Valid, vars, loopVars
  <2> QED
    BY <2>1, <2>2, <2>3, <2>4, <2>5, <2>6, <2>7, <2>8, <2>9, <2>10, <2>11,
       <2>12, <2>13, <2>14 DEF Next, Task
<1> QED
  BY <1>1, <1>2, TypeCorrect, PTL DEF Spec

LEMMA TimesMonotone ==
  ASSUME NEW a \in Nat, NEW b \in Nat, NEW c \in Nat, a <= b
  PROVE  a * c <= b * c
<1>1. b = a + (b - a) /\ b - a \in Nat
  OBVIOUS
<1>2. b * c = a * c + (b - a) * c
  BY <1>1
<1>3. (b - a) * c \in Nat
  BY <1>1
<1> QED
  BY <1>2, <1>3

(* No INSERT of any run exceeds the bind parameter limit.                  *)
THEOREM StatementLimit == Spec => []StatementWithinLimit
<1>1. TypeOK /\ SizeInv => StatementWithinLimit
  <2> SUFFICES ASSUME TypeOK, SizeInv PROVE StatementWithinLimit
    OBVIOUS
  <2>0. cfg \in Config /\ cfg.batch \in Nat /\ cfg.cols \in Nat /\ Len(buf) \in Nat
    BY ConfigsAssumption, LenProperties DEF TypeOK, Config
  <2>1. Len(buf) * (4 + cfg.cols) <= cfg.batch * (4 + cfg.cols)
    BY <2>0, TimesMonotone DEF SizeInv
  <2>2. cfg.batch * (4 + cfg.cols) <= MaxBindParams
    BY DEF SizeInv, Valid
  <2>3. /\ Len(buf) * (4 + cfg.cols) \in Nat
        /\ cfg.batch * (4 + cfg.cols) \in Nat
        /\ MaxBindParams \in Nat
    BY <2>0, LimitAssumption
  <2> QED
    BY <2>1, <2>2, <2>3 DEF StatementWithinLimit
<1> QED
  BY <1>1, TypeCorrect, BufferSize, PTL

-----------------------------------------------------------------------------
(***************************************************************************)
(* Rows.                                                                   *)
(***************************************************************************)

(* The buffer continues the stream where the table stops.                  *)
BufferFollowsTable ==
  pc \in {"row", "due", "write", "flush"} =>
    \A k \in DOMAIN buf : buf[k].id = Len(table) + k

RowsInv == NoRowLostOrRepeated /\ BufferFollowsTable

(* What an INSERT that lands does to the table.                            *)
LEMMA Insert ==
  ASSUME TypeOK, RowsInv, pc \in {"write", "flush"}
  PROVE  /\ table \o buf \in Seq(Row)
         /\ Len(table \o buf) = Len(table) + Len(buf)
         /\ Len(table \o buf) = sent
         /\ \A k \in DOMAIN (table \o buf) : (table \o buf)[k].id = k
<1>1. /\ table \in Seq(Row) /\ buf \in Seq(Row)
      /\ Len(table) \in Nat /\ Len(buf) \in Nat
      /\ DOMAIN table = 1 .. Len(table) /\ DOMAIN buf = 1 .. Len(buf)
  BY LenProperties DEF TypeOK
<1>2. /\ table \o buf \in Seq(Row)
      /\ Len(table \o buf) = Len(table) + Len(buf)
      /\ \A k \in 1 .. Len(table) + Len(buf) :
           (table \o buf)[k] = IF k <= Len(table) THEN table[k] ELSE buf[k - Len(table)]
  BY <1>1, ConcatProperties
<1>3. DOMAIN (table \o buf) = 1 .. Len(table) + Len(buf)
  BY <1>2, LenProperties
<1>4. Len(table) + Len(buf) = sent
  BY DEF RowsInv, NoRowLostOrRepeated, Pending
<1>5. ASSUME NEW k \in 1 .. Len(table) + Len(buf)
      PROVE  (table \o buf)[k].id = k
  <2>1. CASE k <= Len(table)
    <3>1. k \in DOMAIN table
      BY <1>1, <2>1
    <3> QED
      BY <1>2, <2>1, <3>1 DEF RowsInv, NoRowLostOrRepeated
  <2>2. CASE ~(k <= Len(table))
    <3>1. k - Len(table) \in DOMAIN buf
      BY <1>1, <2>2
    <3>2. buf[k - Len(table)].id = Len(table) + (k - Len(table))
      BY <3>1 DEF RowsInv, BufferFollowsTable
    <3> QED
      BY <1>1, <1>2, <2>2, <3>2
  <2> QED
    BY <2>1, <2>2
<1> QED
  BY <1>2, <1>3, <1>4, <1>5

LEMMA RowsInvariant == Spec => []RowsInv
<1>1. Init => RowsInv
  BY DEF Init, RowsInv, NoRowLostOrRepeated, BufferFollowsTable, Pending
<1>2. TypeOK /\ RowsInv /\ SizeInv /\ [Next]_vars => RowsInv'
  <2> SUFFICES ASSUME TypeOK, RowsInv, SizeInv, [Next]_vars PROVE RowsInv'
    OBVIOUS
  <2>0. /\ buf \in Seq(Row) /\ Len(buf) \in Nat /\ DOMAIN buf = 1 .. Len(buf)
        /\ table \in Seq(Row) /\ Len(table) \in Nat /\ sent \in Nat
    BY LenProperties DEF TypeOK
  <2> USE DEF RowsInv, NoRowLostOrRepeated, BufferFollowsTable, Pending
  <2>1. CASE NextRow
    BY <2>1 DEF NextRow
  <2>2. CASE Panic
    <3>1. buf = <<>>
      BY <2>0, <2>2, EmptySeq DEF SizeInv, Panic
    <3> QED
      BY <2>2, <3>1 DEF Panic
  <2>3. CASE LeaveLoop
    BY <2>3 DEF LeaveLoop, AfterLoop
  <2>4. CASE Interrupt
    BY <2>4 DEF Interrupt, AfterLoop
  <2>5. CASE Emit
    <3> DEFINE new == [id |-> sent + 1, ts |-> Stamp]
    <3>1. new \in Row
      BY DEF Row, Stamp, TypeOK
    <3>2. /\ buf' \in Seq(Row)
          /\ Len(buf') = Len(buf) + 1
          /\ \A k \in 1 .. Len(buf) : buf'[k] = buf[k]
          /\ buf'[Len(buf) + 1] = new
      BY <2>0, <2>5, <3>1, AppendProperties DEF Emit
    <3>3. DOMAIN buf' = 1 .. Len(buf) + 1
      BY <3>2, LenProperties
    <3>4. pc = "due" /\ pc' \in {"write", "row"} /\ table' = table /\ sent' = sent + 1
      BY <2>5 DEF Emit
    <3>5. Len(table) + Len(buf) = sent
      BY <3>4
    <3>6. \A k \in 1 .. Len(buf) : buf[k].id = Len(table) + k
      BY <3>4, <2>0
    <3>7. ASSUME NEW k \in DOMAIN buf'
          PROVE  buf'[k].id = Len(table) + k
      <4>1. CASE k \in 1 .. Len(buf)
        BY <3>2, <3>6, <4>1
      <4>2. CASE k = Len(buf) + 1
        <5>1. buf'[k].id = sent + 1
          BY <3>2, <4>2 DEF new
        <5> QED
          BY <2>0, <3>5, <4>2, <5>1
      <4> QED
        BY <2>0, <3>3, <4>1, <4>2
    <3>8. Len(table) + Len(buf') = sent + 1
      BY <2>0, <3>2, <3>5
    <3>9. Pending' = buf'
      BY <3>4
    <3>10. NoRowLostOrRepeated'
      BY <3>4, <3>8, <3>9
    <3>11. BufferFollowsTable'
      BY <3>4, <3>7
    <3> QED
      BY <3>10, <3>11
  <2>6. CASE Write
    BY <2>6, Insert DEF Write
  <2>7. CASE Flush
    BY <2>7, Insert DEF Flush
  <2>8. CASE WriteError
    BY <2>8, Insert DEF WriteError
  <2>9. CASE Finish
    BY <2>9 DEF Finish
  <2>10. CASE Return
    BY <2>10 DEF Return
  <2>11. ASSUME NEW p \in Periods, SetRate(p) PROVE RowsInv'
    BY <2>11 DEF SetRate, loopVars
  <2>12. CASE Stop
    BY <2>12 DEF Stop, loopVars
  <2>13. CASE Tick
    BY <2>13 DEF Tick, loopVars
  <2>14. CASE UNCHANGED vars
    BY <2>14 DEF vars, loopVars
  <2> QED
    BY <2>1, <2>2, <2>3, <2>4, <2>5, <2>6, <2>7, <2>8, <2>9, <2>10, <2>11,
       <2>12, <2>13, <2>14 DEF Next, Task
<1> QED
  BY <1>1, <1>2, TypeCorrect, BufferSize, PTL DEF Spec

(* Whatever the configuration, the calls on the handle and the INSERTs that *)
(* fail, the table holds the start of the generator's stream and no         *)
(* generated row is lost or stored twice.                                   *)
THEOREM NoRowLost == Spec => []NoRowLostOrRepeated
<1>1. RowsInv => NoRowLostOrRepeated
  BY DEF RowsInv
<1> QED
  BY <1>1, RowsInvariant, PTL

-----------------------------------------------------------------------------
(***************************************************************************)
(* Progress, and the promise of Feed.                                      *)
(***************************************************************************)

(* Past the loop, a run nobody stopped has generated its whole target.     *)
TargetInv ==
  /\ sent <= cfg.rows
  /\ pc = "due" => sent < cfg.rows
  /\ pc \in {"flush", "finish", "done", "ok"} => cancelled \/ sent = cfg.rows

ReportInv ==
  /\ progress.rowsSent <= Len(table)
  /\ progress.done <=> pc \in {"done", "ok"}
  /\ progress.done => progress.rowsSent = sent

ProgressInv == TargetInv /\ ReportInv

LEMMA ProgressInvariant == Spec => []ProgressInv
<1>1. Init => ProgressInv
  <2> SUFFICES ASSUME Init PROVE ProgressInv
    OBVIOUS
  <2>1. cfg.rows \in Nat
    BY ConfigsAssumption DEF Init, Config
  <2> QED
    BY <2>1 DEF Init, ProgressInv, TargetInv, ReportInv
<1>2. TypeOK /\ RowsInv /\ ProgressInv /\ [Next]_vars => ProgressInv'
  <2> SUFFICES ASSUME TypeOK, RowsInv, ProgressInv, [Next]_vars PROVE ProgressInv'
    OBVIOUS
  <2>0. /\ cfg.rows \in Nat /\ sent \in Nat /\ Len(table) \in Nat /\ Len(buf) \in Nat
        /\ progress.rowsSent \in Nat /\ progress.done \in BOOLEAN /\ cancelled \in BOOLEAN
    BY ConfigsAssumption, LenProperties DEF TypeOK, Config
  <2> USE <2>0 DEF ProgressInv, TargetInv, ReportInv
  <2>1. CASE NextRow
    BY <2>1 DEF NextRow, handleVars
  <2>2. CASE Panic
    BY <2>2 DEF Panic, handleVars
  <2>3. CASE LeaveLoop
    BY <2>3 DEF LeaveLoop, AfterLoop, handleVars
  <2>4. CASE Interrupt
    BY <2>4 DEF Interrupt, AfterLoop, handleVars
  <2>5. CASE Emit
    BY <2>5 DEF Emit, handleVars
  <2>6. CASE Write
    BY <2>6, Insert DEF Write, Progress, handleVars
  <2>7. CASE Flush
    BY <2>7, Insert DEF Flush, handleVars
  <2>8. CASE WriteError
    BY <2>8, Insert DEF WriteError, handleVars
  <2>9. CASE Finish
    <3>1. Len(table) = sent
      BY <2>9 DEF Finish, RowsInv, NoRowLostOrRepeated, Pending
    <3> QED
      BY <2>9, <3>1 DEF Finish, Progress, handleVars
  <2>10. CASE Return
    BY <2>10 DEF Return, handleVars
  <2>11. ASSUME NEW p \in Periods, SetRate(p) PROVE ProgressInv'
    BY <2>11 DEF SetRate, loopVars
  <2>12. CASE Stop
    BY <2>12 DEF Stop, loopVars
  <2>13. CASE Tick
    BY <2>13 DEF Tick, loopVars, handleVars
  <2>14. CASE UNCHANGED vars
    BY <2>14 DEF vars, loopVars, handleVars
  <2> QED
    BY <2>1, <2>2, <2>3, <2>4, <2>5, <2>6, <2>7, <2>8, <2>9, <2>10, <2>11,
       <2>12, <2>13, <2>14 DEF Next, Task
<1> QED
  BY <1>1, <1>2, TypeCorrect, RowsInvariant, PTL DEF Spec

(* Reported rows are stored rows, and `done' is the exact count - the full  *)
(* row target unless somebody stopped the run.                              *)
THEOREM ProgressIsHonest == Spec => []ProgressHonest
<1>1. TypeOK /\ RowsInv /\ ProgressInv => ProgressHonest
  <2> SUFFICES ASSUME TypeOK, RowsInv, ProgressInv PROVE ProgressHonest
    OBVIOUS
  <2>1. pc \in {"done", "ok"} => Len(table) = sent
    <3>1. Len(<<>>) = 0 /\ Len(table) \in Nat /\ sent \in Nat
      BY LenProperties DEF TypeOK
    <3> QED
      BY <3>1 DEF RowsInv, NoRowLostOrRepeated, Pending
  <2> QED
    BY <2>1 DEF ProgressHonest, ProgressInv, TargetInv, ReportInv
<1> QED
  BY <1>1, TypeCorrect, RowsInvariant, ProgressInvariant, PTL

(* The run loop implements Feed: every step of the task stores rows,        *)
(* completes or fails the feed, or leaves it alone.                         *)
THEOREM ImplementsFeed == Spec => FeedSpec
<1>1. Init => AsFeed!Init
  BY DEF Init, AsFeed!Init, Outcome
<1>2. TypeOK /\ SizeInv /\ RowsInv /\ ProgressInv /\ [Next]_vars
        => [AsFeed!Next]_AsFeed!vars
  <2> SUFFICES ASSUME TypeOK, SizeInv, RowsInv, ProgressInv, [Next]_vars
               PROVE  [AsFeed!Next]_AsFeed!vars
    OBVIOUS
  <2>0. /\ sent \in Nat /\ Len(table) \in Nat /\ Len(buf) \in Nat
        /\ progress.rowsSent \in Nat /\ progress.done \in BOOLEAN
        /\ cfg.batch \in Nat
    BY ConfigsAssumption, LenProperties DEF TypeOK, Config
  <2>r. progress.done <=> pc \in {"done", "ok"}
    BY DEF ProgressInv, ReportInv
  <2>s. ASSUME UNCHANGED <<pc, table, progress>> PROVE UNCHANGED AsFeed!vars
    BY <2>s DEF AsFeed!vars, Outcome
  <2>t. ASSUME pc \in {"row", "due", "write", "flush", "finish"},
               pc' \in {"row", "due", "write", "flush", "finish"},
               UNCHANGED <<table, progress>>
        PROVE  UNCHANGED AsFeed!vars
    BY <2>t DEF AsFeed!vars, Outcome
  <2>1. CASE NextRow
    BY <2>1, <2>t DEF NextRow
  <2>2. CASE Panic
    <3>1. Outcome = "running" /\ Outcome' = "failed"
      BY <2>2, <2>r DEF Panic, Outcome
    <3>2. AsFeed!Fail
      BY <2>0, <2>2, <3>1 DEF Panic, AsFeed!Fail
    <3> QED
      BY <3>2 DEF AsFeed!Next
  <2>3. CASE LeaveLoop
    BY <2>3, <2>t DEF LeaveLoop, AfterLoop
  <2>4. CASE Interrupt
    BY <2>4, <2>t DEF Interrupt, AfterLoop
  <2>5. CASE Emit
    BY <2>5, <2>t DEF Emit
  <2>6. CASE Write
    <3>1. Outcome = "running" /\ Outcome' = "running"
      BY <2>6, <2>r DEF Write, Progress, Outcome
    <3>2. /\ Len(table') = Len(table) + Len(buf)
          /\ Len(table') = sent
          /\ Len(buf) > 0
      BY <2>0, <2>6, Insert DEF Write, SizeInv
    <3>3. progress'.rowsSent = sent
      BY <2>6 DEF Write, Progress
    <3>4. AsFeed!Store
      BY <2>0, <3>1, <3>2, <3>3 DEF AsFeed!Store
    <3> QED
      BY <3>4 DEF AsFeed!Next
  <2>7. CASE Flush
    <3>1. Outcome = "running" /\ Outcome' = "running"
      BY <2>7, <2>r DEF Flush, Outcome
    <3>2. Len(buf) \in Nat \ {0}
      BY <2>7, EmptySeq DEF Flush, SizeInv, TypeOK
    <3>3. Len(table') = Len(table) + Len(buf)
      BY <2>7, Insert DEF Flush
    <3>4. progress' = progress
      BY <2>7 DEF Flush
    <3>5. AsFeed!Store
      BY <2>0, <3>1, <3>2, <3>3, <3>4 DEF AsFeed!Store
    <3> QED
      BY <3>5 DEF AsFeed!Next
  <2>8. CASE WriteError
    <3>1. Outcome = "running" /\ Outcome' = "failed"
      BY <2>8, <2>r DEF WriteError, Outcome
    <3>2. Len(table') \in Nat /\ Len(table') >= Len(table)
      BY <2>0, <2>8, Insert DEF WriteError
    <3>3. progress' = progress
      BY <2>8 DEF WriteError
    <3>4. AsFeed!Fail
      BY <2>0, <3>1, <3>2, <3>3 DEF AsFeed!Fail
    <3> QED
      BY <3>4 DEF AsFeed!Next
  <2>9. CASE Finish
    <3>1. Outcome = "running" /\ Outcome' = "done"
      BY <2>9, <2>r DEF Finish, Progress, Outcome
    <3>2. Len(table) = sent
      BY <2>0, <2>9 DEF Finish, RowsInv, NoRowLostOrRepeated, Pending
    <3>3. progress'.rowsSent = sent /\ table' = table
      BY <2>9 DEF Finish, Progress
    <3>4. AsFeed!Complete
      BY <3>1, <3>2, <3>3 DEF AsFeed!Complete
    <3> QED
      BY <3>4 DEF AsFeed!Next
  <2>10. CASE Return
    BY <2>10, <2>r DEF Return, AsFeed!vars, Outcome
  <2>11. ASSUME NEW p \in Periods, SetRate(p) PROVE UNCHANGED AsFeed!vars
    BY <2>11, <2>s DEF SetRate, loopVars
  <2>12. CASE Stop
    BY <2>12, <2>s DEF Stop, loopVars
  <2>13. CASE Tick
    BY <2>13, <2>s DEF Tick, loopVars
  <2>14. CASE UNCHANGED vars
    BY <2>14, <2>s DEF vars, loopVars
  <2> QED
    BY <2>1, <2>2, <2>3, <2>4, <2>5, <2>6, <2>7, <2>8, <2>9, <2>10, <2>11,
       <2>12, <2>13, <2>14 DEF Next, Task
<1> QED
  BY <1>1, <1>2, TypeCorrect, BufferSize, RowsInvariant, ProgressInvariant, PTL
     DEF Spec, FeedSpec, AsFeed!Spec

-----------------------------------------------------------------------------
(***************************************************************************)
(* Batch boundaries, and how long a stop or a changed rate can wait.       *)
(***************************************************************************)

LEMMA ModUnique ==
  ASSUME NEW n \in Nat, NEW b \in Nat \ {0}, NEW q \in Nat, NEW r \in 0 .. (b - 1),
         n = b * q + r
  PROVE  n % b = r
<1> SUFFICES ASSUME NEW t, t = n % b PROVE t = r
  OBVIOUS
<1>1. PICK p \in Nat : t \in 0 .. (b - 1) /\ n = b * p + t
  <2>1. n \div b \in Nat /\ n % b \in 0 .. (b - 1) /\ n = b * (n \div b) + (n % b)
    OBVIOUS
  <2> QED
    BY <2>1
<1>2. CASE p = q
  BY <1>1, <1>2
<1>3. CASE p > q
  <2>1. b * p = b * q + b * (p - q) /\ p - q \in Nat \ {0}
    BY <1>1, <1>3
  <2>2. b * (p - q) >= b * 1
    BY <2>1, <1>1, TimesMonotone
  <2> QED
    BY <1>1, <2>1, <2>2
<1>4. CASE p < q
  <2>1. b * q = b * p + b * (q - p) /\ q - p \in Nat \ {0}
    BY <1>1, <1>4
  <2>2. b * (q - p) >= b * 1
    BY <2>1, <1>1, TimesMonotone
  <2> QED
    BY <1>1, <2>1, <2>2
<1> QED
  BY <1>1, <1>2, <1>3, <1>4

LEMMA DivUnique ==
  ASSUME NEW n \in Nat, NEW b \in Nat \ {0}, NEW q \in Nat, NEW r \in 0 .. (b - 1),
         n = b * q + r
  PROVE  n \div b = q
<1> SUFFICES ASSUME NEW p, p = n \div b PROVE p = q
  OBVIOUS
<1>1. p \in Nat /\ n % b = r /\ n = b * p + r
  <2>1. n \div b \in Nat /\ n % b \in 0 .. (b - 1) /\ n = b * (n \div b) + (n % b)
    OBVIOUS
  <2> QED
    BY <2>1, ModUnique
<1>2. CASE p > q
  <2>1. b * p = b * q + b * (p - q) /\ p - q \in Nat \ {0}
    BY <1>1, <1>2
  <2>2. b * (p - q) >= b * 1
    BY <2>1, <1>1, TimesMonotone
  <2> QED
    BY <1>1, <2>1, <2>2
<1>3. CASE p < q
  <2>1. b * q = b * p + b * (q - p) /\ q - p \in Nat \ {0}
    BY <1>1, <1>3
  <2>2. b * (q - p) >= b * 1
    BY <2>1, <1>1, TimesMonotone
  <2> QED
    BY <1>1, <2>1, <2>2
<1> QED
  BY <1>1, <1>2, <1>3

LEMMA ModStep ==
  ASSUME NEW n \in Nat, NEW b \in Nat \ {0}
  PROVE  /\ (n % b) + 1 < b => (n + 1) % b = (n % b) + 1
         /\ (n % b) + 1 = b => (n + 1) % b = 0
<1> DEFINE q == n \div b
           r == n % b
<1>1. q \in Nat /\ r \in 0 .. (b - 1) /\ n = b * q + r
  OBVIOUS
<1> HIDE DEF q, r
<1>2. ASSUME r + 1 < b PROVE (n + 1) % b = r + 1
  <2>1. n + 1 = b * q + (r + 1) /\ r + 1 \in 0 .. (b - 1)
    BY <1>1, <1>2
  <2> QED
    BY <1>1, <2>1, ModUnique
<1>3. ASSUME r + 1 = b PROVE (n + 1) % b = 0
  <2>1. b * (q + 1) = b * q + b /\ q + 1 \in Nat
    BY <1>1
  <2>2. n + 1 = b * (q + 1) + 0 /\ 0 \in 0 .. (b - 1)
    BY <1>1, <1>3, <2>1
  <2> QED
    BY <1>1, <2>1, <2>2, ModUnique
<1> QED
  BY <1>2, <1>3 DEF r

LEMMA DivStep ==
  ASSUME NEW n \in Nat, NEW b \in Nat \ {0}
  PROVE  /\ n \div b \in Nat
         /\ (n % b) + 1 < b => (n + 1) \div b = n \div b
         /\ (n % b) + 1 >= b => (n + 1) \div b = n \div b + 1 /\ (n + 1) % b = 0
<1> DEFINE q == n \div b
           r == n % b
<1>1. q \in Nat /\ r \in 0 .. (b - 1) /\ n = b * q + r
  OBVIOUS
<1> HIDE DEF q, r
<1>2. ASSUME r + 1 < b PROVE (n + 1) \div b = q
  <2>1. n + 1 = b * q + (r + 1) /\ r + 1 \in 0 .. (b - 1)
    BY <1>1, <1>2
  <2> QED
    BY <1>1, <2>1, DivUnique
<1>3. ASSUME r + 1 >= b PROVE (n + 1) \div b = q + 1 /\ (n + 1) % b = 0
  <2>1. r + 1 = b
    BY <1>1, <1>3
  <2>2. b * (q + 1) = b * q + b /\ q + 1 \in Nat
    BY <1>1
  <2>3. n + 1 = b * (q + 1) + 0 /\ 0 \in 0 .. (b - 1)
    BY <1>1, <2>1, <2>2
  <2> QED
    BY <1>1, <2>2, <2>3, DivUnique, ModUnique
<1> QED
  BY <1>1, <1>2, <1>3 DEF q, r

(* Before a row is generated the buffer holds exactly the rows since the    *)
(* last batch boundary.                                                     *)
BoundaryInv ==
  cfg.batch > 0 =>
    /\ pc \in {"row", "due"} => sent % cfg.batch = Len(buf)
    /\ pc = "write" => sent % cfg.batch = 0

LEMMA Boundary == Spec => []BoundaryInv
<1>1. Init => BoundaryInv
  <2> SUFFICES ASSUME Init PROVE BoundaryInv
    OBVIOUS
  <2>1. cfg.batch \in Nat
    BY ConfigsAssumption DEF Init, Config
  <2>2. cfg.batch > 0 => 0 % cfg.batch = 0
    BY <2>1
  <2> QED
    BY <2>1, <2>2 DEF Init, BoundaryInv
<1>2. TypeOK /\ SizeInv /\ BoundaryInv /\ [Next]_vars => BoundaryInv'
  <2> SUFFICES ASSUME TypeOK, SizeInv, BoundaryInv, [Next]_vars PROVE BoundaryInv'
    OBVIOUS
  <2>0. /\ sent \in Nat /\ Len(buf) \in Nat /\ cfg.batch \in Nat
        /\ buf \in Seq(Row) /\ Len(<<>>) = 0
    BY ConfigsAssumption, LenProperties DEF TypeOK, Config
  <2> USE DEF BoundaryInv
  <2>1. CASE NextRow
    BY <2>1 DEF NextRow
  <2>2. CASE Panic
    BY <2>2 DEF Panic
  <2>3. CASE LeaveLoop
    BY <2>3 DEF LeaveLoop, AfterLoop
  <2>4. CASE Interrupt
    BY <2>4 DEF Interrupt, AfterLoop
  <2>5. CASE Emit
    <3>1. [id |-> sent + 1, ts |-> Stamp] \in Row
      BY DEF Row, Stamp, TypeOK
    <3>2. Len(buf') = Len(buf) + 1 /\ sent' = sent + 1 /\ cfg' = cfg
      BY <2>0, <2>5, <3>1, AppendProperties DEF Emit
    <3>3. cfg.batch \in Nat \ {0} /\ sent % cfg.batch = Len(buf) /\ Len(buf) < cfg.batch
      BY <2>0, <2>5 DEF Emit, SizeInv
    <3>4. /\ (sent % cfg.batch) + 1 < cfg.batch => (sent + 1) % cfg.batch = (sent % cfg.batch) + 1
          /\ (sent % cfg.batch) + 1 = cfg.batch => (sent + 1) % cfg.batch = 0
      <4> DEFINE b == cfg.batch
      <4>1. sent \in Nat /\ b \in Nat \ {0}
        BY <2>0, <3>3
      <4> HIDE DEF b
      <4>2. /\ (sent % b) + 1 < b => (sent + 1) % b = (sent % b) + 1
            /\ (sent % b) + 1 = b => (sent + 1) % b = 0
        BY <4>1, ModStep
      <4> QED
        BY <4>2 DEF b
    <3>5. /\ Len(buf) + 1 < cfg.batch => (sent + 1) % cfg.batch = Len(buf) + 1
          /\ Len(buf) + 1 = cfg.batch => (sent + 1) % cfg.batch = 0
      BY <2>0, <3>3, <3>4
    <3> QED
      BY <2>0, <2>5, <3>2, <3>3, <3>5 DEF Emit
  <2>6. CASE Write
    BY <2>0, <2>6 DEF Write
  <2>7. CASE Flush
    BY <2>7 DEF Flush
  <2>8. CASE WriteError
    BY <2>8 DEF WriteError
  <2>9. CASE Finish
    BY <2>9 DEF Finish
  <2>10. CASE Return
    BY <2>10 DEF Return
  <2>11. ASSUME NEW p \in Periods, SetRate(p) PROVE BoundaryInv'
    BY <2>11 DEF SetRate, loopVars
  <2>12. CASE Stop
    BY <2>12 DEF Stop, loopVars
  <2>13. CASE Tick
    BY <2>13 DEF Tick, loopVars
  <2>14. CASE UNCHANGED vars
    BY <2>14 DEF vars, loopVars
  <2> QED
    BY <2>1, <2>2, <2>3, <2>4, <2>5, <2>6, <2>7, <2>8, <2>9, <2>10, <2>11,
       <2>12, <2>13, <2>14 DEF Next, Task
<1> QED
  BY <1>1, <1>2, TypeCorrect, BufferSize, PTL DEF Spec

(* Rows generated since a request was made at `mark' and not yet looked at: *)
(* those of the batch in hand, or, at a boundary, those of the batch just   *)
(* written.                                                                 *)
Unseen(mark) ==
  /\ mark <= sent
  /\ pc = "row" => \/ sent - mark <= Len(buf)
                   \/ buf = <<>> /\ sent - mark <= cfg.batch
  /\ pc \in {"due", "write"} => sent - mark <= Len(buf)
  /\ sent - mark <= cfg.batch

RequestInv ==
  /\ cancelled => Unseen(stopMark)
  /\ rate # period => Unseen(rateMark)

LEMMA RequestInvariant == Spec => []RequestInv
<1>1. Init => RequestInv
  BY DEF Init, RequestInv
<1>2. TypeOK /\ SizeInv /\ BoundaryInv /\ RequestInv /\ [Next]_vars => RequestInv'
  <2> SUFFICES ASSUME TypeOK, SizeInv, BoundaryInv, RequestInv, [Next]_vars
               PROVE  RequestInv'
    OBVIOUS
  <2>0. /\ sent \in Nat /\ Len(buf) \in Nat /\ cfg.batch \in Nat /\ buf \in Seq(Row)
        /\ stopMark \in Nat /\ rateMark \in Nat /\ Len(<<>>) = 0 /\ cancelled \in BOOLEAN
        /\ Len(buf) <= cfg.batch
    BY ConfigsAssumption, LenProperties DEF TypeOK, Config, SizeInv
  <2> USE <2>0 DEF RequestInv, Unseen
  <2>1. CASE NextRow
    <3>1. AtBoundary <=> Len(buf) = 0
      BY <2>1 DEF NextRow, BoundaryInv, AtBoundary
    <3>2. Len(buf) = 0 <=> buf = <<>>
      BY EmptySeq
    <3>3. cancelled' => Unseen(stopMark)'
      BY <2>1, <3>1, <3>2 DEF NextRow, handleVars
    <3>4. rate' # period' => Unseen(rateMark)'
      <4>1. CASE AtBoundary
        BY <2>1, <4>1 DEF NextRow, handleVars, NewRate, Rebase, pacerVars
      <4>2. CASE ~AtBoundary
        BY <2>1, <3>1, <3>2, <4>2 DEF NextRow, handleVars, pacerVars
      <4> QED
        BY <4>1, <4>2
    <3> QED
      BY <3>3, <3>4
  <2>2. CASE Panic
    BY <2>2 DEF Panic, handleVars, pacerVars
  <2>3. CASE LeaveLoop
    BY <2>3 DEF LeaveLoop, AfterLoop, handleVars, pacerVars
  <2>4. CASE Interrupt
    BY <2>4 DEF Interrupt, AfterLoop, handleVars, pacerVars
  <2>5. CASE Emit
    <3>1. [id |-> sent + 1, ts |-> Stamp] \in Row
      BY DEF Row, Stamp, TypeOK
    <3>2. Len(buf') = Len(buf) + 1 /\ sent' = sent + 1 /\ cfg' = cfg
      BY <2>5, <3>1, AppendProperties DEF Emit
    <3>3. Len(buf) + 1 <= cfg.batch
      BY <2>5 DEF Emit, SizeInv
    <3> QED
      BY <2>5, <3>2, <3>3 DEF Emit, handleVars, pacerVars
  <2>6. CASE Write
    BY <2>6 DEF Write, handleVars, pacerVars
  <2>7. CASE Flush
    BY <2>7 DEF Flush, handleVars, pacerVars
  <2>8. CASE WriteError
    BY <2>8 DEF WriteError, handleVars, pacerVars
  <2>9. CASE Finish
    BY <2>9 DEF Finish, handleVars, pacerVars
  <2>10. CASE Return
    BY <2>10 DEF Return, handleVars, pacerVars
  <2>11. ASSUME NEW p \in Periods, SetRate(p) PROVE RequestInv'
    BY <2>11 DEF SetRate, loopVars
  <2>12. CASE Stop
    BY <2>12 DEF Stop, loopVars
  <2>13. CASE Tick
    BY <2>13 DEF Tick, loopVars, handleVars
  <2>14. CASE UNCHANGED vars
    BY <2>14 DEF vars, loopVars, handleVars
  <2> QED
    BY <2>1, <2>2, <2>3, <2>4, <2>5, <2>6, <2>7, <2>8, <2>9, <2>10, <2>11,
       <2>12, <2>13, <2>14 DEF Next, Task
<1> QED
  BY <1>1, <1>2, TypeCorrect, BufferSize, Boundary, PTL DEF Spec

(* Once stop() is called, no run generates more than one batch of rows.    *)
THEOREM StopWithinABatch == Spec => []StopBound
<1>1. RequestInv => StopBound
  BY DEF RequestInv, Unseen, StopBound
<1> QED
  BY <1>1, RequestInvariant, PTL

(* A changed rate is in force within one batch of rows.                    *)
THEOREM RateWithinABatch == Spec => []RateBound
<1>1. RequestInv => RateBound
  BY DEF RequestInv, Unseen, RateBound
<1> QED
  BY <1>1, RequestInvariant, PTL

-----------------------------------------------------------------------------
(***************************************************************************)
(* Pacing.                                                                 *)
(***************************************************************************)

(* The pacer's epoch is the moment the rate in force came into force.      *)
PaceInv ==
  /\ heldFrom = epochRow
  /\ held = elapsed
  /\ elapsed <= Horizon
  /\ epochRow <= sent
  /\ NeverAheadOfClock

LEMMA PaceInvariant == Spec => []PaceInv
<1>1. Init => PaceInv
  BY HorizonAssumption DEF Init, PaceInv, NeverAheadOfClock
<1>2. TypeOK /\ PaceInv /\ [Next]_vars => PaceInv'
  <2> SUFFICES ASSUME TypeOK, PaceInv, [Next]_vars PROVE PaceInv'
    OBVIOUS
  <2>0. /\ sent \in Nat /\ epochRow \in Nat /\ elapsed \in Nat /\ period \in Nat
        /\ Horizon \in Nat
    BY HorizonAssumption DEF TypeOK
  <2> USE <2>0 DEF PaceInv, NeverAheadOfClock
  <2>s. ASSUME UNCHANGED <<cfg, sent, pacerVars>> PROVE PaceInv'
    BY <2>s DEF pacerVars, clockVars
  <2>1. CASE NextRow
    <3>1. CASE NewRate
      BY <2>1, <3>1 DEF NextRow, NewRate, Rebase
    <3>2. CASE UNCHANGED pacerVars
      BY <2>1, <2>s, <3>2 DEF NextRow
    <3> QED
      BY <2>1, <3>1, <3>2 DEF NextRow
  <2>2. CASE Panic
    BY <2>2, <2>s DEF Panic
  <2>3. CASE LeaveLoop
    BY <2>3, <2>s DEF LeaveLoop
  <2>4. CASE Interrupt
    BY <2>4, <2>s DEF Interrupt
  <2>5. CASE Emit
    <3>1. sent' = sent + 1 /\ cfg' = cfg /\ UNCHANGED pacerVars /\ (cfg.realtime => Due)
      BY <2>5 DEF Emit
    <3>2. (sent + 1) - 1 - epochRow = sent - epochRow
      OBVIOUS
    <3> QED
      BY <3>1, <3>2 DEF pacerVars, clockVars, Due
  <2>6. CASE Write
    BY <2>6, <2>s DEF Write
  <2>7. CASE Flush
    BY <2>7, <2>s DEF Flush
  <2>8. CASE WriteError
    BY <2>8, <2>s DEF WriteError
  <2>9. CASE Finish
    BY <2>9, <2>s DEF Finish
  <2>10. CASE Return
    BY <2>10, <2>s DEF Return
  <2>11. ASSUME NEW p \in Periods, SetRate(p) PROVE PaceInv'
    BY <2>11, <2>s DEF SetRate, loopVars, pacerVars
  <2>12. CASE Stop
    BY <2>12, <2>s DEF Stop, loopVars, pacerVars
  <2>13. CASE Tick
    <3>1. /\ elapsed' = Saturate(elapsed + 1) /\ held' = elapsed'
          /\ UNCHANGED <<cfg, sent, period, epochRow, heldFrom>>
      BY <2>13 DEF Tick, loopVars
    <3>2. elapsed' <= Horizon /\ elapsed <= elapsed' /\ elapsed' \in Nat
      BY <3>1 DEF Saturate
    <3>3. (sent - 1 - epochRow) * period \in Int
      OBVIOUS
    <3> QED
      BY <3>1, <3>2, <3>3
  <2>14. CASE UNCHANGED vars
    BY <2>14, <2>s DEF vars, loopVars, pacerVars
  <2> QED
    BY <2>1, <2>2, <2>3, <2>4, <2>5, <2>6, <2>7, <2>8, <2>9, <2>10, <2>11,
       <2>12, <2>13, <2>14 DEF Next, Task
<1> QED
  BY <1>1, <1>2, TypeCorrect, PTL DEF Spec

(* Across every change of rate, a realtime run generates no row before the  *)
(* rate in force allows it.                                                 *)
THEOREM PacedByClock == Spec => []NeverAheadOfClock
<1>1. PaceInv => NeverAheadOfClock
  BY DEF PaceInv
<1> QED
  BY <1>1, PaceInvariant, PTL

(* What the control plane takes of its runs.                               *)
THEOREM ImplementsRun == Spec => RunSpec
<1> DEFINE Reached == progress.done /\ progress.rowsSent = cfg.rows
<1>1. Init => AsRun!Init
  BY DEF Init, AsRun!Init, Phase
<1>2. TypeOK /\ ProgressInv /\ [Next]_vars => [AsRun!Next]_AsRun!vars
  <2> SUFFICES ASSUME TypeOK, ProgressInv, [Next]_vars PROVE [AsRun!Next]_AsRun!vars
    OBVIOUS
  <2>0. /\ pc \in {"flush", "finish", "done", "ok"} => cancelled \/ sent = cfg.rows
        /\ progress.done <=> pc \in {"done", "ok"}
        /\ progress.done => progress.rowsSent = sent
        /\ cancelled \in BOOLEAN
    BY DEF ProgressInv, TargetInv, ReportInv, TypeOK
  <2>s. ASSUME Phase' = Phase, Reached' = Reached, cancelled' = cancelled
        PROVE  UNCHANGED AsRun!vars
    BY <2>s DEF AsRun!vars
  (* A step of the loop.                                                   *)
  <2>t. ASSUME pc \in {"row", "due", "write", "flush", "finish"},
               pc' \in {"row", "due", "write", "flush", "finish"},
               cancelled' = cancelled, ~progress'.done
        PROVE  UNCHANGED AsRun!vars
    <3>1. ~progress.done
      BY <2>0, <2>t
    <3> QED
      BY <2>s, <2>t, <3>1 DEF Phase
  (* A step into an error.                                                 *)
  <2>f. ASSUME pc \in {"row", "write", "flush"}, pc' \in {"err", "panic"},
               UNCHANGED <<cfg, progress, cancelled>>
        PROVE  AsRun!Next
    <3>1. AsRun!Fail
      BY <2>f DEF AsRun!Fail, Phase
    <3> QED
      BY <3>1 DEF AsRun!Next
  <2>1. CASE NextRow \/ LeaveLoop \/ Interrupt \/ Emit \/ Flush
    <3>1. /\ pc \in {"row", "due", "write", "flush", "finish"}
          /\ pc' \in {"row", "due", "write", "flush", "finish"}
          /\ UNCHANGED <<progress, cancelled>>
      BY <2>1 DEF NextRow, LeaveLoop, Interrupt, Emit, Flush, AfterLoop, handleVars
    <3> QED
      BY <2>0, <2>t, <3>1
  <2>2. CASE Write
    BY <2>2, <2>t DEF Write, Progress, handleVars
  <2>3. CASE Panic
    BY <2>3, <2>f DEF Panic, handleVars
  <2>4. CASE WriteError
    BY <2>4, <2>f DEF WriteError, handleVars
  <2>5. CASE Finish
    <3>1. /\ Phase = "live" /\ Phase' = "done" /\ cancelled' = cancelled
          /\ Reached' \in BOOLEAN
          /\ (Reached' \/ cancelled)
      BY <2>0, <2>5 DEF Finish, Progress, Phase, handleVars
    <3>2. AsRun!SayDone
      BY <3>1 DEF AsRun!SayDone
    <3> QED
      BY <3>2 DEF AsRun!Next
  <2>6. CASE Return
    <3>1. Phase = "done" /\ Phase' = "ok" /\ UNCHANGED <<cfg, progress, cancelled>>
      BY <2>6 DEF Return, Phase, handleVars
    <3>2. AsRun!Return
      BY <3>1 DEF AsRun!Return
    <3> QED
      BY <3>2 DEF AsRun!Next
  <2>7. CASE Stop
    <3>1. Phase # "unused" /\ Phase' = Phase /\ cancelled' = TRUE /\ UNCHANGED <<cfg, progress>>
      BY <2>7 DEF Stop, loopVars, Phase
    <3>2. AsRun!Cancel
      BY <3>1 DEF AsRun!Cancel
    <3> QED
      BY <3>2 DEF AsRun!Next
  <2>8. CASE (\E p \in Periods : SetRate(p)) \/ Tick \/ UNCHANGED vars
    <3>1. UNCHANGED <<pc, cfg, progress, cancelled>>
      BY <2>8 DEF SetRate, Tick, vars, loopVars, handleVars
    <3> QED
      BY <2>s, <3>1 DEF Phase
  <2> QED
    BY <2>1, <2>2, <2>3, <2>4, <2>5, <2>6, <2>7, <2>8 DEF Next, Task
<1> QED
  BY <1>1, <1>2, TypeCorrect, ProgressInvariant, PTL DEF Spec, RunSpec, AsRun!Spec

-----------------------------------------------------------------------------
(***************************************************************************)
(* The event-time clock of a bulk run.                                     *)
(***************************************************************************)

(* The tick of the row at position k of the stream.                        *)
TickOf(k) == 10 + (k - 1) \div cfg.ties

(* The tick and the place in its group are those of the next row, and every *)
(* row, stored or buffered, has the tick of its position.                   *)
StampInv ==
  ~cfg.realtime =>
    /\ tick = 10 + sent \div cfg.ties
    /\ inGroup = sent % cfg.ties
    /\ \A k \in DOMAIN table : table[k].ts = TickOf(k)
    /\ pc \in {"row", "due", "write", "flush"} =>
         \A k \in DOMAIN buf : buf[k].ts = TickOf(Len(table) + k)

(* The rows of an INSERT keep their ticks.                                 *)
LEMMA InsertStamps ==
  ASSUME TypeOK, RowsInv, StampInv, ~cfg.realtime, pc \in {"write", "flush"}
  PROVE  \A k \in DOMAIN (table \o buf) : (table \o buf)[k].ts = TickOf(k)
<1>1. /\ table \in Seq(Row) /\ buf \in Seq(Row)
      /\ Len(table) \in Nat /\ Len(buf) \in Nat
      /\ DOMAIN table = 1 .. Len(table) /\ DOMAIN buf = 1 .. Len(buf)
  BY LenProperties DEF TypeOK
<1>2. /\ DOMAIN (table \o buf) = 1 .. Len(table) + Len(buf)
      /\ \A k \in 1 .. Len(table) + Len(buf) :
           (table \o buf)[k] = IF k <= Len(table) THEN table[k] ELSE buf[k - Len(table)]
  BY <1>1, ConcatProperties, LenProperties
<1>3. ASSUME NEW k \in 1 .. Len(table) + Len(buf)
      PROVE  (table \o buf)[k].ts = TickOf(k)
  <2>1. CASE k <= Len(table)
    <3>1. k \in DOMAIN table
      BY <1>1, <2>1
    <3> QED
      BY <1>2, <2>1, <3>1 DEF StampInv
  <2>2. CASE ~(k <= Len(table))
    <3>1. k - Len(table) \in DOMAIN buf /\ Len(table) + (k - Len(table)) = k
      BY <1>1, <2>2
    <3>2. buf[k - Len(table)].ts = TickOf(Len(table) + (k - Len(table)))
      BY <3>1 DEF StampInv
    <3> QED
      BY <1>2, <2>2, <3>1, <3>2
  <2> QED
    BY <2>1, <2>2
<1> QED
  BY <1>2, <1>3

LEMMA EmitStamps ==
  ASSUME TypeOK, SizeInv, RowsInv, StampInv, ~cfg.realtime, Emit
  PROVE  StampInv'
<1> DEFINE new == [id |-> sent + 1, ts |-> tick]
<1>1. /\ table \in Seq(Row) /\ buf \in Seq(Row) /\ sent \in Nat
      /\ Len(table) \in Nat /\ Len(buf) \in Nat /\ DOMAIN buf = 1 .. Len(buf)
      /\ cfg.ties \in Nat \ {0} /\ inGroup \in Nat /\ tick \in Nat
  <2>1. cfg.ties \in Nat /\ cfg.ties >= 1
    BY ConfigsAssumption DEF TypeOK, Config, SizeInv, Valid
  <2> QED
    BY <2>1, LenProperties DEF TypeOK
<1>2. /\ pc = "due" /\ cfg' = cfg /\ table' = table /\ sent' = sent + 1
      /\ buf' = Append(buf, new)
  BY DEF Emit, Stamp
<1>3. new \in Row
  BY <1>1 DEF Row
<1>4. /\ Len(buf') = Len(buf) + 1 /\ DOMAIN buf' = 1 .. Len(buf) + 1
      /\ \A k \in 1 .. Len(buf) : buf'[k] = buf[k]
      /\ buf'[Len(buf) + 1] = new
  BY <1>1, <1>2, <1>3, AppendProperties, LenProperties
<1>5. Len(table) + Len(buf) = sent
  BY <1>2 DEF RowsInv, NoRowLostOrRepeated, Pending
<1>6. /\ tick = 10 + sent \div cfg.ties /\ inGroup = sent % cfg.ties
      /\ \A k \in DOMAIN buf : buf[k].ts = TickOf(Len(table) + k)
      /\ \A k \in DOMAIN table : table[k].ts = TickOf(k)
  BY <1>2 DEF StampInv
<1>7. tick' = 10 + (sent + 1) \div cfg.ties /\ inGroup' = (sent + 1) % cfg.ties
  <2> DEFINE b == cfg.ties
  <2>1. /\ sent \in Nat /\ b \in Nat \ {0}
        /\ tick = 10 + sent \div b /\ inGroup = sent % b /\ inGroup \in Nat
        /\ inGroup' = (IF inGroup + 1 >= b THEN 0 ELSE inGroup + 1)
        /\ tick' = (IF inGroup + 1 >= b THEN tick + 1 ELSE tick)
    BY <1>1, <1>6 DEF Emit, AdvanceTick
  <2> HIDE DEF b
  <2>2. /\ sent \div b \in Nat
        /\ inGroup + 1 < b => (sent + 1) \div b = sent \div b /\ (sent + 1) % b = inGroup + 1
        /\ inGroup + 1 >= b => (sent + 1) \div b = sent \div b + 1 /\ (sent + 1) % b = 0
    BY <2>1, DivStep, ModStep
  <2>3. ASSUME inGroup + 1 >= b
        PROVE  tick' = 10 + (sent + 1) \div b /\ inGroup' = (sent + 1) % b
    BY <2>1, <2>2, <2>3
  <2>4. ASSUME ~(inGroup + 1 >= b)
        PROVE  tick' = 10 + (sent + 1) \div b /\ inGroup' = (sent + 1) % b
    BY <2>1, <2>2, <2>4
  <2>5. tick' = 10 + (sent + 1) \div b /\ inGroup' = (sent + 1) % b
    BY <2>3, <2>4
  <2> QED
    BY <2>5 DEF b
<1>8. ASSUME NEW k \in DOMAIN buf' PROVE buf'[k].ts = TickOf(Len(table) + k)
  <2>1. CASE k \in 1 .. Len(buf)
    BY <1>1, <1>4, <1>6, <2>1
  <2>2. CASE k = Len(buf) + 1
    <3>1. Len(table) + k - 1 = sent
      BY <1>1, <1>5, <2>2
    <3> QED
      BY <1>4, <1>6, <2>2, <3>1 DEF TickOf
  <2> QED
    BY <1>1, <1>4, <2>1, <2>2
<1> QED
  BY <1>2, <1>6, <1>7, <1>8 DEF StampInv, TickOf

LEMMA StampInvariant == Spec => []StampInv
<1>1. Init => StampInv
  <2> SUFFICES ASSUME Init PROVE StampInv
    OBVIOUS
  <2>1. cfg.ties \in Nat \ {0}
    BY ConfigsAssumption DEF Init, Config, Valid
  <2>2. 0 \div cfg.ties = 0 /\ 0 % cfg.ties = 0
    <3> DEFINE b == cfg.ties
    <3>1. b \in Nat \ {0} /\ 0 = b * 0 + 0 /\ 0 \in 0 .. (b - 1)
      BY <2>1
    <3> HIDE DEF b
    <3>2. 0 \div b = 0 /\ 0 % b = 0
      BY <3>1, DivUnique, ModUnique
    <3> QED
      BY <3>2 DEF b
  <2> QED
    BY <2>2 DEF Init, StampInv
<1>2. TypeOK /\ SizeInv /\ RowsInv /\ StampInv /\ [Next]_vars => StampInv'
  <2> SUFFICES ASSUME TypeOK, SizeInv, RowsInv, StampInv, [Next]_vars PROVE StampInv'
    OBVIOUS
  <2> USE DEF StampInv, TickOf
  <2>s. ASSUME UNCHANGED <<cfg, sent, stampVars, table, buf>>,
               pc' \in {"row", "due", "write", "flush"} => pc \in {"row", "due", "write", "flush"}
        PROVE  StampInv'
    BY <2>s DEF stampVars
  <2>1. CASE NextRow \/ Panic
    BY <2>1, <2>s DEF NextRow, Panic
  <2>2. CASE LeaveLoop \/ Interrupt
    BY <2>2, <2>s DEF LeaveLoop, Interrupt, AfterLoop
  <2>3. CASE Emit
    <3>1. CASE cfg.realtime
      BY <2>3, <3>1 DEF Emit
    <3> QED
      BY <2>3, <3>1, EmitStamps
  <2>4. CASE Write
    <3>1. DOMAIN buf' = {}
      BY <2>4 DEF Write
    <3>2. UNCHANGED <<cfg, sent, stampVars>> /\ table' = table \o buf /\ pc = "write"
      BY <2>4 DEF Write
    <3>3. ~cfg.realtime => \A k \in DOMAIN table' : table'[k].ts = TickOf(k)
      BY <3>2, InsertStamps
    <3> QED
      BY <3>1, <3>2, <3>3 DEF stampVars
  <2>5. CASE Flush \/ WriteError
    <3>1. /\ UNCHANGED <<cfg, sent, stampVars>> /\ table' \in {table, table \o buf}
          /\ pc \in {"write", "flush"} /\ pc' \in {"finish", "err"}
      BY <2>5 DEF Flush, WriteError
    <3>2. ~cfg.realtime => \A k \in DOMAIN table' : table'[k].ts = TickOf(k)
      BY <3>1, InsertStamps
    <3> QED
      BY <3>1, <3>2 DEF stampVars
  <2>6. CASE Finish \/ Return
    BY <2>6, <2>s DEF Finish, Return
  <2>7. CASE Stop \/ Tick \/ (\E p \in Periods : SetRate(p)) \/ UNCHANGED vars
    BY <2>7, <2>s DEF Stop, Tick, SetRate, loopVars, vars
  <2> QED
    BY <2>1, <2>2, <2>3, <2>4, <2>5, <2>6, <2>7 DEF Next, Task
<1> QED
  BY <1>1, <1>2, TypeCorrect, BufferSize, RowsInvariant, PTL DEF Spec

(* Whatever the sizes of batches and of tie groups, and wherever a batch    *)
(* ends or an INSERT fails: in bulk mode each group of exactly `ties'       *)
(* consecutive rows of the table shares a timestamp, the next group has the *)
(* next one.                                                                *)
THEOREM TicksAreShared == Spec => []TieGroups
<1>1. StampInv => TieGroups
  BY DEF StampInv, TieGroups, TickOf
<1> QED
  BY <1>1, StampInvariant, PTL
=================================================================================
