--------------------------- MODULE Process_proofs ---------------------------
(* The daily schedule, for every length of a day, time of day, run length  *)
(* and backlog.                                                            *)
EXTENDS Process, TLAPS

(* While it waits, the timer is set to the first of the run times that are *)
(* owed, or to the next one; while it runs, to the one that this run is    *)
(* for.                                                                    *)
TimerInv ==
  /\ value \in Times
  /\ clock \in 0 .. Day - 1
  /\ owed \in Nat
  /\ timer \in Int
  /\ Daily /\ pc = "wait" => timer = UntilNext(value.n) - Day * owed
  /\ Daily /\ pc = "run"  => timer = UntilNext(value.n) - Day * owed - Day

LEMMA Backlog == ASSUME NEW k \in Nat \ {0} PROVE Day * k >= Day /\ Day * (k - 1) = Day * k - Day
<1> DEFINE j == k - 1
<1>1. j \in Nat /\ k = j + 1 OBVIOUS
<1>2. Day \in Nat /\ Day * j \in Nat BY <1>1, ClockAssumption
<1>3. Day * (j + 1) = Day * j + Day BY <1>1, <1>2
<1> QED BY <1>1, <1>2, <1>3

(* The next run time is between one unit and a day ahead; it comes one     *)
(* unit nearer with the clock, unless the clock strikes it.                *)
LEMMA UntilNextRange ==
  ASSUME NEW n \in 0 .. Day - 1, clock \in 0 .. Day - 1
  PROVE  UntilNext(n) \in 1 .. Day
BY ClockAssumption DEF UntilNext

LEMMA ClockMoves ==
  ASSUME value.n \in 0 .. Day - 1, clock \in 0 .. Day - 1, clock' = NextClock, value' = value
  PROVE  /\ clock' \in 0 .. Day - 1
         /\ clock' = value.n => UntilNext(value.n) = 1 /\ UntilNext(value.n)' = Day
         /\ clock' # value.n => UntilNext(value.n)' = UntilNext(value.n) - 1
BY ClockAssumption DEF UntilNext, NextClock

LEMMA TimerInvInit == ProcessInit => TimerInv
BY ClockAssumption DEF ProcessInit, TimerInv

LEMMA TimerInvStep == TimerInv /\ [ProcessNext]_pvars => TimerInv'
<1> SUFFICES ASSUME TimerInv, [ProcessNext]_pvars PROVE TimerInv' OBVIOUS
<1> USE DEF TimerInv, Daily
<1>1. Daily => value.n \in 0 .. Day - 1 BY ClockAssumption
<1>2. Day \in Nat \ {0} BY ClockAssumption
<1>a. Day * owed \in Nat BY <1>2
<1>3. CASE Schedule
  <2>1. Daily /\ pc' = "wait" => timer' = UntilNext(value.n) /\ owed' = 0
        BY <1>3 DEF Schedule, Periodic
  <2>2. Day * 0 = 0 BY <1>2
  <2>3. timer' \in Int
        BY <1>1, <1>3, TimesAssumption, UntilNextRange DEF Schedule, Periodic
  <2> QED BY <1>3, <2>1, <2>2, <2>3, <1>1 DEF Schedule, UntilNext, Periodic
<1>4. CASE Begin
  <2>1. CASE Daily
    <3>1. timer <= 0 /\ timer = UntilNext(value.n) - Day * owed
          BY <1>4, <2>1 DEF Begin, Due, Periodic
    <3>2. UntilNext(value.n) \in 1 .. Day BY <1>1, <2>1, UntilNextRange
    <3>3. owed # 0
      <4>1. ASSUME owed = 0 PROVE FALSE
        <5>1. Day * owed = 0 BY <4>1, <1>2
        <5> QED BY <5>1, <3>1, <3>2
      <4> QED BY <4>1
    <3>4. Day * (owed - 1) = Day * owed - Day BY <3>3, Backlog
    <3>5. owed' = owed - 1 BY <1>4, <2>1 DEF Begin
    <3>6. timer' = UntilNext(value.n) - Day * owed' - Day
          BY <3>1, <3>2, <3>4, <3>5, <1>2, <1>a, <1>4 DEF Begin
    <3> QED BY <1>4, <3>3, <3>5, <3>6 DEF Begin, UntilNext
  <2>2. CASE ~Daily BY <1>4, <2>2 DEF Begin
  <2> QED BY <2>1, <2>2
<1>5. CASE End
  <2>1. CASE Daily
    <3>1. UntilNext(value.n) \in 1 .. Day BY <1>1, <2>1, UntilNextRange
    <3>2. timer' = UntilNext(value.n) - Day * owed
          BY <1>5, <2>1, <3>1, <1>2, <1>a DEF End
    <3> QED BY <1>5, <1>2, <2>1, <3>2 DEF End, UntilNext
  <2>2. CASE ~Daily BY <1>5, <2>2 DEF End
  <2> QED BY <2>1, <2>2
<1>6. CASE Advance
  <2>1. clock' = NextClock /\ value' = value /\ pc' = pc BY <1>6 DEF Advance
  <2>2. clock' \in 0 .. Day - 1 BY <2>1, <1>2 DEF NextClock
  <2>3. timer' \in Int BY <1>6, TimesAssumption DEF Advance, TimerAfter
  <2>4. owed' \in Nat BY <1>6 DEF Advance
  <2>5. CASE Daily /\ Alive
    <3>1. timer' = timer - 1 BY <1>6, <2>5 DEF Advance, TimerAfter, Periodic
    <3>2. UntilNext(value.n) \in 1 .. Day BY <1>1, <2>5, UntilNextRange
    <3>3. CASE clock' = value.n
      <4>1. owed' = owed + 1 BY <1>6, <2>1, <2>5, <3>3 DEF Advance, Strikes
      <4>2. Day * owed' = Day * owed + Day BY <4>1, <1>2
      <4>3. UntilNext(value.n) = 1 /\ UntilNext(value.n)' = Day
            BY <1>1, <2>1, <2>5, <3>3, ClockMoves
      <4>4. pc = "wait" => timer' = UntilNext(value.n)' - Day * owed'
            BY <1>2, <1>a, <2>5, <3>1, <4>2, <4>3
      <4>5. pc = "run" => timer' = UntilNext(value.n)' - Day * owed' - Day
            BY <1>2, <1>a, <2>5, <3>1, <4>2, <4>3
      <4> HIDE DEF UntilNext
      <4> QED BY <2>1, <2>2, <2>3, <2>4, <4>4, <4>5
    <3>4. CASE clock' # value.n
      <4>1. owed' = owed BY <1>6, <2>1, <2>5, <3>4 DEF Advance, Strikes
      <4>2. UntilNext(value.n)' = UntilNext(value.n) - 1
            BY <1>1, <2>1, <2>5, <3>4, ClockMoves
      <4> QED BY <1>2, <1>a, <2>1, <2>2, <2>3, <2>4, <3>1, <3>2, <4>1, <4>2
    <3> QED BY <3>3, <3>4
  <2>6. CASE ~(Daily /\ Alive) BY <2>1, <2>2, <2>3, <2>4, <2>6 DEF Alive
  <2> QED BY <2>5, <2>6
<1>7. CASE Validate \/ Connect \/ MigrateBegin \/ MigrateEnd \/ ConnectFails \/ Done
      BY <1>7 DEF Validate, Connect, MigrateBegin, MigrateEnd, ConnectFails, Done, UntilNext
<1>8. CASE Signal BY <1>8 DEF Signal, UntilNext
<1>9. CASE Kill BY <1>9 DEF Kill
<1>10. CASE DockerRestart BY <1>10 DEF DockerRestart
<1>11. CASE UNCHANGED pvars BY <1>11 DEF pvars, UntilNext
<1> QED BY <1>3, <1>4, <1>5, <1>6, <1>7, <1>8, <1>9, <1>10, <1>11 DEF ProcessNext, Main

(* The schedule gives every daily run time a run of its own: runSchedule's *)
(* AddDate(0, 0, 1) after a run neither skips nor repeats one, even when   *)
(* runs cross several run times.                                           *)
THEOREM DailySlotsHold == ProcessSpec => []DailySlots
<1>1. TimerInv => DailySlots
  <2> SUFFICES ASSUME TimerInv PROVE DailySlots OBVIOUS
  <2>1. owed >= 0 BY DEF TimerInv
  <2>2. ASSUME Daily, pc = "wait", timer > 0, owed # 0 PROVE FALSE
    <3>1. value.n \in 0 .. Day - 1 /\ Day \in Nat BY <2>2, ClockAssumption DEF TimerInv, Daily
    <3>2. UntilNext(value.n) \in 1 .. Day BY <3>1, UntilNextRange DEF TimerInv
    <3>3. Day * owed >= Day /\ Day * owed \in Int BY <2>2, <3>1, Backlog DEF TimerInv
    <3> QED BY <2>2, <3>1, <3>2, <3>3 DEF TimerInv
  <2> QED BY <2>1, <2>2 DEF DailySlots
<1> QED BY <1>1, TimerInvInit, TimerInvStep, PTL DEF ProcessSpec

-----------------------------------------------------------------------------
(* Types.                                                                  *)

LEMMA StopLimitType == StopLimit \in Nat
BY RunAssumption DEF StopLimit

LEMMA NextProcessType == ProcessTypeOK /\ [ProcessNext]_pvars => ProcessTypeOK'
<1> SUFFICES ASSUME ProcessTypeOK, [ProcessNext]_pvars PROVE ProcessTypeOK' OBVIOUS
<1> USE DEF ProcessTypeOK
<1>0. value.n \in Int /\ Day \in Nat \ {0} BY TimesAssumption, ClockAssumption
<1>1. CASE Validate \/ Connect \/ MigrateBegin \/ MigrateEnd \/ Done
  BY <1>1
     DEF Validate, Connect, MigrateBegin, MigrateEnd, Done, Pc, Schema, Alive, Periodic
<1>2. CASE ConnectFails \/ Signal \/ Kill
  <2>1. stops' \in 0 .. MaxStops BY <1>2, RunAssumption DEF ConnectFails, Signal, Kill, Stop
  <2>2. 0 \in 0 .. MaxRun BY RunAssumption
  <2> QED BY <1>2, <2>1, <2>2 DEF ConnectFails, Signal, Kill, Pc, Alive, Periodic
<1>3. CASE Schedule
  <2>1. timer' \in Int BY <1>0, <1>3 DEF Schedule, UntilNext
  <2>2. Periodic' /\ Alive' => timer' \in 1 .. value'.n
    BY <1>0, <1>3 DEF Schedule, Periodic, Daily, Alive
  <2>3. pc' \in Pc BY <1>3 DEF Schedule, Pc
  <2>4. spent' \in 0 .. MaxRun BY <1>3, RunAssumption DEF Schedule
  <2>5. tick' \in BOOLEAN BY <1>3 DEF Schedule
  <2>6. owed' \in Int BY <1>3 DEF Schedule
  <2>7. UNCHANGED <<value, schema, clock, ctxDone, stops, since>> BY <1>3 DEF Schedule
  <2> QED BY <2>1, <2>2, <2>3, <2>4, <2>5, <2>6, <2>7
<1>4. CASE Begin \/ End
  <2>1. spent' \in 0 .. MaxRun BY <1>4, RunAssumption DEF Begin, End
  <2>2. timer' \in Int BY <1>0, <1>4 DEF Begin, End
  <2>3. pc' \in Pc BY <1>4 DEF Begin, End, Pc
  <2>4. Periodic' /\ Alive' => timer' \in 1 .. value'.n
    BY <1>4 DEF Begin, End, Periodic, Daily, Alive
  <2>5. owed' \in Int BY <1>4 DEF Begin, End
  <2> QED BY <1>4, <2>1, <2>2, <2>3, <2>4, <2>5 DEF Begin, End
<1>5. CASE Advance
  <2>1. clock' \in 0 .. Day - 1 BY <1>0, <1>5 DEF Advance, NextClock
  <2>2. timer' \in Int BY <1>0, <1>5 DEF Advance, TimerAfter
  <2>3. Periodic' /\ Alive' => timer' \in 1 .. value'.n
    BY <1>0, <1>5 DEF Advance, TimerAfter, Periodic, Alive
  <2>4. spent' \in 0 .. MaxRun
    BY <1>5, RunAssumption DEF Advance, Idle, RunLimit
  <2>5. since' \in 0 .. StopLimit + 1 BY <1>5, StopLimitType DEF Advance
  <2>6. tick' \in BOOLEAN /\ owed' \in Int BY <1>5 DEF Advance
  <2> QED BY <1>5, <2>1, <2>2, <2>3, <2>4, <2>5, <2>6 DEF Advance
<1>6. CASE DockerRestart
  <2>1. pc' \in Pc /\ ~Alive' BY <1>6 DEF DockerRestart, Pc, Alive
  <2>2. 0 \in 0 .. MaxRun /\ 0 \in 0 .. StopLimit + 1 BY RunAssumption, StopLimitType
  <2>3. tick' \in BOOLEAN /\ ctxDone' \in BOOLEAN BY <1>6 DEF DockerRestart
  <2>4. timer' \in Int /\ owed' \in Int BY <1>6 DEF DockerRestart
  <2>5. spent' \in 0 .. MaxRun /\ since' \in 0 .. StopLimit + 1 BY <1>6, <2>2 DEF DockerRestart
  <2>6. UNCHANGED <<value, schema, clock, stops>> BY <1>6 DEF DockerRestart
  <2> QED BY <2>1, <2>3, <2>4, <2>5, <2>6
<1>7. CASE UNCHANGED pvars
  BY <1>7 DEF pvars, Alive, Periodic
<1> QED BY <1>1, <1>2, <1>3, <1>4, <1>5, <1>6, <1>7 DEF ProcessNext, Main

(* Every variable keeps its type; the ticker is never set past its period. *)
THEOREM ProcessTypeCorrect == ProcessSpec => []ProcessTypeOK
<1>1. ProcessInit => ProcessTypeOK
  <2> SUFFICES ASSUME ProcessInit PROVE ProcessTypeOK OBVIOUS
  <2>1. pc \in Pc /\ schema \in Schema /\ ~Alive BY DEF ProcessInit, Pc, Schema, Alive
  <2>2. /\ 0 \in 0 .. MaxRun /\ 0 \in 0 .. MaxStops
        /\ 0 \in 0 .. StopLimit + 1
    BY RunAssumption, StopLimitType
  <2>3. tick \in BOOLEAN /\ ctxDone \in BOOLEAN BY DEF ProcessInit
  <2>4. timer \in Int /\ owed \in Int BY DEF ProcessInit
  <2>5. spent \in 0 .. MaxRun /\ since \in 0 .. StopLimit + 1 /\ stops \in 0 .. MaxStops
    BY <2>2 DEF ProcessInit
  <2>6. value \in Times /\ clock \in 0 .. Day - 1 BY DEF ProcessInit
  <2> QED BY <2>1, <2>3, <2>4, <2>5, <2>6 DEF ProcessTypeOK
<1> QED BY <1>1, NextProcessType, PTL DEF ProcessSpec

-----------------------------------------------------------------------------
(* Time to stop.                                                           *)

Sleeps(b) == IF b THEN SendSleep ELSE 0

(* After the signal a run has so long to go, the runs that are due take    *)
(* so long, ...                                                            *)
Rest    == IF pc = "run" THEN SendSleep - spent ELSE 0
Pending == IF Daily THEN SendSleep * owed ELSE Sleeps(tick)

(* ... and a further one may come due meanwhile, but no more than one.     *)
Coming ==
  CASE Daily    -> UntilNext(value.n)
    [] Periodic -> timer
    [] OTHER    -> StopLimit + 1

(* What main has seen to before it gets this far.                          *)
Accepted ==
  /\ pc \notin {"down", "start"} => ~Rejects(value)
  /\ Alive /\ Periodic => value.n > 0
  /\ pc = "wait" => Daily \/ Periodic
  /\ pc = "run" => Daily \/ Periodic \/ value.kind = "0"
  /\ ctxDone => Alive \/ pc = "down"
  /\ ~ctxDone /\ pc # "down" => since = 0
  /\ owed <= MaxOwed

InTime ==
  ctxDone /\ Alive =>
    /\ pc = "run" => spent <= SendSleep
    /\ since + Rest + Pending + Sleeps(since + Coming <= StopLimit) <= StopLimit

LEMMA AcceptedInit == ProcessInit => Accepted /\ InTime
BY RunAssumption DEF ProcessInit, Accepted, InTime, Alive

LEMMA AcceptedStep ==
  ProcessTypeOK /\ TimerInv /\ DailySlots /\ Accepted /\ [ProcessNext]_pvars => Accepted'
<1> SUFFICES ASSUME ProcessTypeOK, TimerInv, DailySlots, Accepted, [ProcessNext]_pvars
             PROVE  Accepted'
  OBVIOUS
<1> USE DEF Accepted, Alive
<1>0. MaxOwed \in Nat \ {0} /\ owed \in Nat BY RunAssumption DEF TimerInv
<1>1. CASE Validate \/ Connect \/ MigrateBegin \/ MigrateEnd \/ ConnectFails \/ Done
  BY <1>1
     DEF Validate, Connect, MigrateBegin, MigrateEnd, ConnectFails, Done, Rejects, Periodic, Daily
<1>2. CASE Schedule
  BY <1>0, <1>2 DEF Schedule, Rejects, Periodic, Daily
<1>3. CASE Begin \/ End
  <2>1. owed' <= MaxOwed BY <1>0, <1>3 DEF Begin, End
  <2> QED BY <1>3, <2>1 DEF Begin, End, Rejects, Periodic, Daily
<1>4. CASE Advance
  <2>1. owed' <= MaxOwed
    <3>1. CASE Strikes /\ pc = "wait"
      <4>1. owed = 0 BY <1>4, <3>1 DEF Advance, Idle, Due, DailySlots, Strikes, Daily, Periodic, ProcessTypeOK
      <4> QED BY <1>0, <1>4, <3>1, <4>1 DEF Advance
    <3>2. CASE Strikes /\ pc = "run"
      BY <1>0, <1>4, <3>2 DEF Advance, Idle
    <3>3. CASE ~Strikes
      BY <1>4, <3>3 DEF Advance
    <3> QED BY <3>1, <3>2, <3>3 DEF Strikes
  <2> QED BY <1>4, <2>1 DEF Advance, Rejects, Periodic, Daily
<1>5. CASE Signal \/ Kill \/ DockerRestart
  BY <1>0, <1>5 DEF Signal, Kill, DockerRestart, Rejects, Periodic, Daily
<1>6. CASE UNCHANGED pvars
  BY <1>6 DEF pvars, Rejects, Periodic, Daily
<1> QED BY <1>1, <1>2, <1>3, <1>4, <1>5, <1>6 DEF ProcessNext, Main

(* One sleep for every run that is owed.                                   *)
LEMMA SleepsOwed ==
  ASSUME NEW k \in Nat
  PROVE  /\ SendSleep * k \in Nat
         /\ SendSleep * (k + 1) = SendSleep * k + SendSleep
         /\ k <= MaxOwed => SendSleep * k <= SendSleep * MaxOwed
<1>1. SendSleep \in Nat /\ MaxOwed \in Nat BY RunAssumption
<1>2. SendSleep * k \in Nat /\ SendSleep * (k + 1) = SendSleep * k + SendSleep BY <1>1
<1>3. ASSUME k <= MaxOwed PROVE SendSleep * k <= SendSleep * MaxOwed
  <2> DEFINE d == MaxOwed - k
  <2>1. d \in Nat /\ MaxOwed = k + d BY <1>1, <1>3
  <2>2. SendSleep * d \in Nat BY <1>1, <2>1
  <2> HIDE DEF d
  <2>3. SendSleep * (k + d) = SendSleep * k + SendSleep * d BY <1>1, <2>1
  <2> QED BY <1>2, <2>1, <2>2, <2>3
<1> QED BY <1>2, <1>3

LEMMA LimitIs ==
  /\ StopLimit = SendSleep * MaxOwed + SendSleep + SendSleep
  /\ SendSleep \in Nat /\ SendSleep * MaxOwed \in Nat /\ SendSleep <= SendSleep * MaxOwed
<1>1. SendSleep \in Nat /\ MaxOwed \in Nat \ {0} BY RunAssumption
<1>2. SendSleep * (MaxOwed + 1) = SendSleep * MaxOwed + SendSleep
      /\ SendSleep * (MaxOwed + 1 + 1) = SendSleep * (MaxOwed + 1) + SendSleep
      /\ SendSleep * MaxOwed \in Nat
  BY <1>1, SleepsOwed
<1>3. StopLimit = SendSleep * (MaxOwed + 1 + 1) BY <1>1 DEF StopLimit
<1>4. SendSleep * 1 <= SendSleep * MaxOwed BY <1>1, SleepsOwed
<1> QED BY <1>1, <1>2, <1>3, <1>4

(* The signal finds a run, the runs that are owed, and one to come.        *)
LEMMA SignalInTime ==
  ProcessTypeOK /\ TimerInv /\ Accepted /\ Signal => InTime'
<1> SUFFICES ASSUME ProcessTypeOK, TimerInv, Accepted, Signal PROVE InTime' OBVIOUS
<1>1. since' = 0 /\ spent' = 0 BY DEF Signal, Accepted, Alive
<1>2. Rest' \in Int /\ Rest' <= SendSleep BY <1>1, LimitIs DEF Rest
<1>3. Pending' \in Int /\ Pending' <= SendSleep * MaxOwed
  <2>1. SendSleep * owed \in Nat /\ SendSleep * owed <= SendSleep * MaxOwed
    BY SleepsOwed DEF TimerInv, Accepted
  <2>2. Pending' = Pending BY DEF Signal, Pending, Daily
  <2> QED BY <2>1, <2>2, LimitIs DEF Pending, Sleeps
<1>4. Sleeps(since + Coming <= StopLimit)' \in {0, SendSleep} BY DEF Sleeps
<1> QED BY <1>1, <1>2, <1>3, <1>4, LimitIs DEF InTime

(* A run that begins takes the sleep that was pending; one that ends       *)
(* leaves the rest of its own.                                             *)
LEMMA BeginInTime ==
  ProcessTypeOK /\ TimerInv /\ TimerInv' /\ Accepted /\ InTime /\ Begin => InTime'
<1> SUFFICES ASSUME ProcessTypeOK, TimerInv, TimerInv', Accepted, InTime, Begin, ctxDone
             PROVE  InTime'
  BY DEF InTime, Begin
<1>1. Alive /\ Rest = 0 /\ Rest' = SendSleep BY LimitIs DEF Begin, Alive, Rest
<1>2. since' = since /\ Coming' = Coming /\ spent' = 0
  BY DEF Begin, Coming, Daily, Periodic, UntilNext
<1>3. Pending' = Pending - SendSleep /\ Pending \in Int
  <2>1. CASE Daily
    <3>1. owed' \in Nat /\ owed = owed' + 1 BY <2>1 DEF Begin, TimerInv
    <3>2. SendSleep * owed = SendSleep * owed' + SendSleep /\ SendSleep * owed' \in Nat
      BY <3>1, SleepsOwed
    <3>3. Pending = SendSleep * owed /\ Pending' = SendSleep * owed'
      BY <2>1 DEF Begin, Pending, Daily
    <3> QED BY <3>2, <3>3, LimitIs
  <2>2. CASE ~Daily
    <3>1. tick /\ ~tick' BY <2>2 DEF Begin, Due, Accepted
    <3>2. Pending = SendSleep /\ Pending' = 0 BY <2>2, <3>1 DEF Begin, Pending, Daily, Sleeps
    <3> QED BY <3>2, LimitIs
  <2> QED BY <2>1, <2>2
<1>4. Sleeps(since + Coming <= StopLimit)' = Sleeps(since + Coming <= StopLimit)
  BY <1>2 DEF Sleeps
<1>5. Sleeps(since + Coming <= StopLimit) \in {0, SendSleep} /\ since \in Int
  BY DEF Sleeps, ProcessTypeOK
<1>6. since + Rest + Pending + Sleeps(since + Coming <= StopLimit) <= StopLimit
  BY <1>1 DEF InTime
<1>7. (since + Rest + Pending + Sleeps(since + Coming <= StopLimit) <= StopLimit)'
  BY <1>1, <1>2, <1>3, <1>4, <1>5, <1>6, LimitIs DEF StopLimit
<1> QED BY <1>2, <1>7, LimitIs DEF InTime

LEMMA EndInTime == ProcessTypeOK /\ TimerInv /\ InTime /\ End => InTime'
<1> SUFFICES ASSUME ProcessTypeOK, TimerInv, InTime, End, ctxDone, value.kind # "0"
             PROVE  InTime'
  BY DEF InTime, End, Alive
<1>1. Alive /\ Rest \in Nat /\ Rest' = 0 BY LimitIs DEF End, Alive, Rest, InTime, ProcessTypeOK
<1>2. since' = since /\ Pending' = Pending /\ Coming' = Coming
  BY DEF End, Pending, Coming, Daily, Periodic, UntilNext
<1>3. Sleeps(since + Coming <= StopLimit)' = Sleeps(since + Coming <= StopLimit)
  BY <1>2 DEF Sleeps
<1>4. Sleeps(since + Coming <= StopLimit) \in Int /\ since \in Int /\ Pending \in Int
  BY LimitIs, SleepsOwed DEF Sleeps, ProcessTypeOK, Pending, TimerInv
<1>5. since + Rest + Pending + Sleeps(since + Coming <= StopLimit) <= StopLimit
  BY <1>1 DEF InTime
<1> QED BY <1>1, <1>2, <1>3, <1>4, <1>5, LimitIs DEF InTime, End, StopLimit

(* Of the run times that come due in the meantime there is one at most.    *)
LEMMA AdvanceInTime ==
  ASSUME StopLimit <= Day, StopLimit <= MinPeriod,
         ProcessTypeOK, TimerInv, Accepted, InTime, Advance
  PROVE  InTime'
<1> SUFFICES ASSUME ctxDone, Alive PROVE InTime'
  BY DEF InTime, Advance, Alive
<1> DEFINE soon == Sleeps(since + Coming <= StopLimit)
<1>0. /\ StopLimit \in Nat /\ SendSleep \in Nat /\ Day \in Nat /\ MinPeriod \in Nat
      /\ since \in Nat /\ spent \in Nat /\ value.n \in Int /\ timer \in Int
  BY LimitIs, StopLimitType, ClockAssumption, TimesAssumption DEF ProcessTypeOK
<1>1. pc = "run" /\ spent < SendSleep /\ spent' = spent + 1 /\ pc' = pc /\ value' = value
  BY DEF Advance, Idle, Alive, RunLimit
<1>2. Rest \in Nat /\ Rest >= 1 /\ Rest' = Rest - 1 BY <1>0, <1>1 DEF Rest
<1>3. since + Rest + Pending + soon <= StopLimit BY DEF InTime
<1>4. Pending \in Nat /\ soon \in Nat
  BY <1>0, SleepsOwed DEF Pending, Sleeps, TimerInv
<1>5. since' = since + 1 /\ since + 1 <= StopLimit
  BY <1>0, <1>2, <1>3, <1>4 DEF Advance
<1>6. Pending' \in Nat /\ soon' \in Nat /\ Pending' + soon' <= Pending + soon
  <2>1. CASE Daily
    <3>0. value.n \in 0 .. Day - 1 /\ clock' = NextClock
      BY <2>1, ClockAssumption DEF ProcessTypeOK, Daily, Advance
    <3>1. Coming = UntilNext(value.n) /\ Coming' = UntilNext(value.n)'
      BY <1>1, <2>1 DEF Coming, Daily, Periodic, UntilNext
    <3>2. Pending = SendSleep * owed /\ Pending' = SendSleep * owed'
      BY <1>1, <2>1 DEF Pending, Daily
    <3>3. CASE clock' = value.n
      <4>1. Coming = 1 /\ Coming' = Day
        BY <1>1, <3>0, <3>1, <3>3, ClockMoves DEF ProcessTypeOK
      <4>2. owed' = owed + 1 BY <2>1, <3>0, <3>3 DEF Advance, Strikes
      <4>3. Pending' = Pending + SendSleep BY <3>2, <4>2, SleepsOwed DEF TimerInv
      <4>4. soon = SendSleep /\ soon' = 0
        BY <1>0, <1>1, <1>5, <4>1, StopLimitType DEF Sleeps, StopLimit
      <4> QED BY <1>0, <1>4, <4>3, <4>4
    <3>4. CASE clock' # value.n
      <4>1. UntilNext(value.n) \in 1 .. Day /\ Coming' = Coming - 1
        BY <1>1, <3>0, <3>1, <3>4, ClockMoves, UntilNextRange DEF ProcessTypeOK
      <4>2. owed' = owed BY <3>0, <3>4 DEF Advance, Strikes
      <4>3. soon' = soon BY <1>0, <1>5, <3>1, <4>1 DEF Sleeps, StopLimit
      <4> QED BY <1>4, <3>2, <4>2, <4>3
    <3> QED BY <3>3, <3>4
  <2>2. CASE Periodic
    <3>0. ~Daily /\ ~Daily' /\ Periodic' BY <1>1, <2>2 DEF Daily, Periodic
    <3>1. Coming = timer /\ Coming' = timer' BY <2>2, <3>0 DEF Coming
    <3>2. Pending = Sleeps(tick) /\ Pending' = Sleeps(tick') BY <3>0 DEF Pending, Sleeps
    <3>3. CASE timer = 1
      <4>1. value.n >= MinPeriod
        BY <1>0, <1>1, <2>2 DEF Accepted, Rejects, Periodic, Alive
      <4>2. timer' = value.n /\ tick' BY <2>2, <3>3 DEF Advance, TimerAfter
      <4>3. soon = SendSleep /\ soon' = 0
        BY <1>0, <1>5, <3>1, <3>3, <4>1, <4>2, StopLimitType DEF Sleeps, StopLimit
      <4>4. Pending' = SendSleep BY <3>2, <4>2 DEF Sleeps
      <4> QED BY <1>0, <1>4, <4>3, <4>4
    <3>4. CASE timer # 1
      <4>1. timer' = timer - 1 BY <2>2, <3>4 DEF Advance, TimerAfter
      <4>2. Pending' = Pending BY <3>2, <3>4 DEF Advance, Sleeps
      <4>3. soon' = soon BY <1>0, <1>5, <3>1, <4>1 DEF Sleeps, StopLimit
      <4> QED BY <1>4, <4>2, <4>3
    <3> QED BY <3>3, <3>4
  <2>3. CASE ~Daily /\ ~Periodic
    <3>1. ~Daily' /\ ~Periodic' BY <1>1, <2>3 DEF Daily, Periodic
    <3>2. Coming = StopLimit + 1 /\ Coming' = StopLimit + 1
      BY <2>3, <3>1 DEF Coming, StopLimit
    <3>3. Pending' = Pending BY <2>3, <3>1 DEF Pending, Sleeps, Advance
    <3>4. soon = 0 /\ soon' = 0 BY <1>0, <1>5, <3>2, StopLimitType DEF Sleeps, StopLimit
    <3> QED BY <1>4, <3>3, <3>4
  <2> QED BY <2>1, <2>2, <2>3
<1>7. since' + Rest' + Pending' + soon' <= StopLimit
  BY <1>0, <1>2, <1>3, <1>4, <1>5, <1>6
<1> QED BY <1>0, <1>1, <1>7 DEF InTime, StopLimit

LEMMA InTimeStep ==
  ASSUME StopLimit <= Day, StopLimit <= MinPeriod,
         ProcessTypeOK, TimerInv, TimerInv', Accepted, InTime, [ProcessNext]_pvars
  PROVE  InTime'
<1>1. CASE Validate \/ Connect \/ MigrateBegin \/ MigrateEnd \/ ConnectFails \/ Schedule \/ Done
  BY <1>1
     DEF Validate, Connect, MigrateBegin, MigrateEnd, ConnectFails, Schedule, Done,
         Accepted, InTime, Alive
<1>2. CASE Begin \/ End \/ Signal \/ Advance
  BY <1>2, BeginInTime, EndInTime, SignalInTime, AdvanceInTime
<1>3. CASE Kill \/ DockerRestart
  BY <1>3 DEF Kill, DockerRestart, InTime, Alive
<1>4. CASE UNCHANGED pvars
  BY <1>4
     DEF pvars, InTime, Alive, Rest, Pending, Coming, Daily, Periodic, UntilNext, Sleeps, StopLimit
<1> QED BY <1>1, <1>2, <1>3, <1>4 DEF ProcessNext, Main

(* If a few sleeps of Send are no longer than a day and than the shortest  *)
(* period, the process is gone after them, whichever case select takes.    *)
THEOREM AlwaysStopsInTime ==
  ASSUME StopLimit <= Day, StopLimit <= MinPeriod
  PROVE  ProcessSpec => []StopsInTime
<1>1. ProcessSpec => []TimerInv BY TimerInvInit, TimerInvStep, PTL DEF ProcessSpec
<1>2. ProcessTypeOK /\ TimerInv /\ TimerInv' /\ Accepted /\ InTime /\ [ProcessNext]_pvars => InTime'
  BY InTimeStep
<1>3. ProcessSpec => [](Accepted /\ InTime)
  BY <1>1, <1>2, AcceptedInit, AcceptedStep, ProcessTypeCorrect, DailySlotsHold, PTL
     DEF ProcessSpec
<1>4. ProcessTypeOK /\ TimerInv /\ Accepted /\ InTime => StopsInTime
  <2> SUFFICES ASSUME ProcessTypeOK, TimerInv, Accepted, InTime, ctxDone, pc # "down"
               PROVE  since <= StopLimit
    BY DEF StopsInTime
  <2>1. Alive BY DEF Accepted
  <2>2. since \in Nat /\ Rest \in Nat /\ Pending \in Nat
    BY <2>1, LimitIs, SleepsOwed, StopLimitType
       DEF ProcessTypeOK, InTime, Rest, Pending, Sleeps, TimerInv
  <2>3. Sleeps(since + Coming <= StopLimit) \in Nat BY LimitIs DEF Sleeps
  <2>4. since + Rest + Pending + Sleeps(since + Coming <= StopLimit) <= StopLimit
    BY <2>1 DEF InTime
  <2> QED BY <2>2, <2>3, <2>4, StopLimitType
<1> QED BY <1>1, <1>3, <1>4, ProcessTypeCorrect, PTL
=============================================================================
