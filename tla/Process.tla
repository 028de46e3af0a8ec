------------------------------ MODULE Process -------------------------------
(***************************************************************************)
(* The process around the worker: start, migrations, the schedule that     *)
(* PB_TIME sets, signals, exit and restart.                                *)
(*                                                                         *)
(* Source: main, validateRunDuration, runSchedule, nextRunTime             *)
(* (src/main.go), Connect and migrationsUp (src/db/db.go), Time of         *)
(* src/config/config.go; the restarts are those of the README's            *)
(* docker run --restart unless-stopped.                                    *)
(*                                                                         *)
(* Time is discrete.  Deadlines are kept relative to now, so that nothing  *)
(* grows with it: timer is the time left, negative when it is overdue.     *)
(***************************************************************************)
EXTENDS Integers

CONSTANTS
  Times,      (* values of PB_TIME                                         *)
  Day,        (* units of time in a day                                    *)
  MinPeriod,  (* 30 minutes                                                *)
  SendSleep,  (* the sleep of Send, which does not look at ctx; all that   *)
              (* a run waits for once ctx is done                          *)
  MaxRun,     (* bound: the longest run                                    *)
  MaxOwed,    (* bound: daily run times that runs have crossed and that    *)
              (* are not made up for yet                                   *)
  MaxStops    (* bound: signals, deaths and failing starts                 *)

(* What time.ParseDuration and time.Parse make of a value: a duration      *)
(* ("0" apart, which runSchedule compares as a string), hh:mm, or neither. *)
Kind == {"0", "duration", "clock", "neither"}

ASSUME TimesAssumption ==
  Times \subseteq [kind : Kind, n : Int]
ASSUME ClockAssumption ==
  /\ Day \in Nat \ {0} /\ MinPeriod \in Nat \ {0}
  /\ \A v \in Times : v.kind = "clock" => v.n \in 0 .. Day - 1
ASSUME RunAssumption ==
  /\ SendSleep \in Nat /\ MaxRun \in Nat /\ SendSleep <= MaxRun
  /\ MaxOwed \in Nat \ {0} /\ MaxStops \in Nat

VARIABLES
  value,    (* Config.Time; never changes                                  *)
  pc,       (* where main is                                               *)
  schema,   (* schema_migrations: no row, dirty, or at version 1           *)
  clock,    (* time of day                                                 *)
  timer,    (* time until the ticker or the timer fires                    *)
  tick,     (* the ticker's channel holds a tick                           *)
  spent,    (* time this run has taken since it began or ctx was cancelled *)
  ctxDone,  (* ctx.Err() # nil                                             *)
  stops,    (* signals, deaths and failing starts so far                   *)
  owed,     (* history: daily run times passed, less runs begun, since     *)
            (* the schedule was set up                                     *)
  since     (* history: time since ctx was cancelled                       *)

pvars == <<value, pc, schema, clock, timer, tick, spent, ctxDone, stops, owed, since>>

Pc     == {"down", "start", "connect", "migrate", "schedule", "wait", "run"}
Schema == {"none", "dirty", "ready"}

(* The run under way, those that are owed, and one more that comes due.    *)
StopLimit == (MaxOwed + 2) * SendSleep

Daily    == value.kind = "clock"
Periodic == value.kind = "duration"

-----------------------------------------------------------------------------
(* main.                                                                   *)

ProcessInit ==
  /\ value \in Times
  /\ pc = "start" /\ schema = "none"
  /\ clock \in 0 .. Day - 1
  /\ timer = 0 /\ tick = FALSE /\ spent = 0
  /\ ctxDone = FALSE /\ stops = 0 /\ owed = 0 /\ since = 0

Stop == stops < MaxStops /\ stops' = stops + 1

(* Mutant: <= in place of <.                                               *)
RejectsHalfHour(v) == v.kind = "duration" /\ v.n # 0 /\ v.n <= MinPeriod

(* validateRunDuration: negative, or positive and below half an hour.      *)
Rejects(v) == v.kind = "duration" /\ v.n # 0 /\ v.n < MinPeriod

Validate ==
  /\ pc = "start"
  /\ pc' = IF Rejects(value) THEN "down" ELSE "connect"
  /\ UNCHANGED <<value, schema, clock, timer, tick, spent, ctxDone, stops, owed, since>>

(* Connect finds no pending migration.                                     *)
Connect ==
  /\ pc = "connect" /\ schema = "ready"
  /\ pc' = "schedule"
  /\ UNCHANGED <<value, schema, clock, timer, tick, spent, ctxDone, stops, owed, since>>

(* The version is marked dirty, then the migration runs, ...               *)
MigrateBegin ==
  /\ pc = "connect" /\ schema = "none"
  /\ schema' = "dirty"
  /\ pc' = "migrate"
  /\ UNCHANGED <<value, clock, timer, tick, spent, ctxDone, stops, owed, since>>

(* ... then the mark is taken off.                                         *)
MigrateEnd ==
  /\ pc = "migrate"
  /\ schema' = "ready"
  /\ pc' = "schedule"
  /\ UNCHANGED <<value, clock, timer, tick, spent, ctxDone, stops, owed, since>>

(* The directory, Ping or a migration fails, or the schema is dirty: main  *)
(* returns.                                                                *)
ConnectFails ==
  /\ pc \in {"connect", "migrate"}
  /\ IF pc = "connect" /\ schema = "dirty" THEN UNCHANGED stops ELSE Stop
  /\ pc' = "down"
  /\ UNCHANGED <<value, schema, clock, timer, tick, spent, ctxDone, owed, since>>

-----------------------------------------------------------------------------
(* runSchedule.                                                            *)

(* nextRunTime, less now.                                                  *)
UntilNext(n) == IF n > clock THEN n - clock ELSE n - clock + Day

(* "0" runs at once; a duration sets up a ticker, which panics on zero; a  *)
(* time of day sets up a timer; anything else ends main.                   *)
Schedule ==
  /\ pc = "schedule"
  /\ pc' = CASE value.kind = "0"                -> "run"
             [] Periodic /\ value.n > 0         -> "wait"
             [] Daily                           -> "wait"
             [] OTHER                           -> "down"
  /\ timer' = CASE Periodic -> value.n
                [] Daily    -> UntilNext(value.n)
                [] OTHER    -> 0
  /\ tick' = FALSE /\ spent' = 0 /\ owed' = 0
  /\ UNCHANGED <<value, schema, clock, ctxDone, stops, since>>

Due == IF Periodic THEN tick ELSE timer <= 0

(* select takes the tick, or the timer: w.Run.                             *)
Begin ==
  /\ pc = "wait" /\ Due
  /\ pc' = "run"
  /\ tick' = FALSE
  /\ spent' = 0
  /\ owed' = IF Daily THEN owed - 1 ELSE 0
  /\ UNCHANGED <<value, schema, clock, timer, ctxDone, stops, since>>

(* select takes ctx.Done().                                                *)
Done ==
  /\ pc = "wait" /\ ctxDone
  /\ pc' = "down"
  /\ UNCHANGED <<value, schema, clock, timer, tick, spent, ctxDone, stops, owed, since>>

(* Mutant: the next run time is computed from the time the run ended.      *)
EndFromNow ==
  /\ pc = "run"
  /\ pc' = IF value.kind = "0" THEN "down" ELSE "wait"
  /\ timer' = IF Daily THEN UntilNext(value.n) ELSE timer
  /\ UNCHANGED <<value, schema, clock, tick, spent, ctxDone, stops, owed, since>>

(* Run returns; the next daily run is a day after the last was due.        *)
End ==
  /\ pc = "run"
  /\ pc' = IF value.kind = "0" THEN "down" ELSE "wait"
  /\ timer' = IF Daily THEN timer + Day ELSE timer
  /\ UNCHANGED <<value, schema, clock, tick, spent, ctxDone, stops, owed, since>>

-----------------------------------------------------------------------------
(* Time, signals, docker.                                                  *)

(* Mutant: a run that does not take the context.                           *)
RunLimitDeaf == MaxRun

(* How long a run may still go on.                                         *)
RunLimit == IF ctxDone THEN SendSleep ELSE MaxRun

Alive == pc \in {"wait", "run"}

(* The daily run time comes with the next unit of time.                    *)
NextClock == IF clock + 1 = Day THEN 0 ELSE clock + 1
Strikes   == Alive /\ Daily /\ NextClock = value.n

(* What does not wait for anything takes no time.                          *)
Idle ==
  \/ pc = "down"
  \/ pc = "wait" /\ ~Due /\ ~ctxDone
  \/ pc = "run" /\ spent < RunLimit /\ (Strikes => owed < MaxOwed)

(* Mutant: the ticker is not restarted.                                    *)
TimerAfterOnce == IF Alive THEN timer - 1 ELSE 0

(* A ticker starts again, a timer runs on.                                 *)
TimerAfter ==
  IF ~Alive THEN 0
  ELSE IF Periodic /\ timer = 1 THEN value.n
  ELSE IF Periodic \/ Daily THEN timer - 1
  ELSE 0

(* One unit of time.  A tick that finds the channel full is dropped.       *)
Advance ==
  /\ Idle
  /\ clock' = NextClock
  /\ timer' = TimerAfter
  /\ tick' = (tick \/ (Alive /\ Periodic /\ timer = 1))
  /\ spent' = IF pc = "run" THEN spent + 1 ELSE 0
  /\ owed' = IF Strikes THEN owed + 1 ELSE owed
  /\ since' = IF Alive /\ ctxDone /\ since <= StopLimit THEN since + 1 ELSE since
  /\ UNCHANGED <<value, pc, schema, ctxDone, stops>>

(* SIGTERM or SIGINT once NotifyContext is in place.                       *)
Signal ==
  /\ Alive /\ ~ctxDone /\ Stop
  /\ ctxDone' = TRUE
  /\ spent' = 0
  /\ UNCHANGED <<value, pc, schema, clock, timer, tick, owed, since>>

(* SIGKILL, a panic, or a signal before NotifyContext.                     *)
Kill ==
  /\ pc # "down" /\ Stop
  /\ pc' = "down"
  /\ UNCHANGED <<value, schema, clock, timer, tick, spent, ctxDone, owed, since>>

DockerRestart ==
  /\ pc = "down"
  /\ pc' = "start"
  /\ timer' = 0 /\ tick' = FALSE /\ spent' = 0
  /\ ctxDone' = FALSE /\ owed' = 0 /\ since' = 0
  /\ UNCHANGED <<value, schema, clock, stops>>

(* What the process does by itself.                                        *)
Main ==
  \/ Validate
  \/ Connect
  \/ MigrateBegin
  \/ MigrateEnd
  \/ ConnectFails
  \/ Schedule
  \/ Begin
  \/ Done
  \/ End

ProcessNext ==
  \/ Main
  \/ Advance
  \/ Signal
  \/ Kill
  \/ DockerRestart

ProcessSpec == ProcessInit /\ [][ProcessNext]_pvars

(* Time passes, the process executes, a run ends (module Fetch's           *)
(* FetchEnds), and docker, or who stopped it, restarts what has exited.    *)
ProcessFairSpec ==
  /\ ProcessSpec
  /\ WF_pvars(Main) /\ WF_pvars(Advance) /\ WF_pvars(DockerRestart)

-----------------------------------------------------------------------------
(* Properties.                                                             *)

ProcessTypeOK ==
  /\ value \in Times
  /\ pc \in Pc
  /\ schema \in Schema
  /\ clock \in 0 .. Day - 1
  /\ timer \in Int
  /\ Periodic /\ Alive => timer \in 1 .. value.n
  /\ tick \in BOOLEAN
  /\ spent \in 0 .. MaxRun
  /\ ctxDone \in BOOLEAN
  /\ stops \in 0 .. MaxStops
  /\ owed \in Int
  /\ since \in 0 .. StopLimit + 1

(* Every daily run time gets a run of its own: none runs early, and when   *)
(* the worker waits for a time to come it has skipped none, however many   *)
(* run times the runs before have crossed.                                 *)
DailySlots ==
  /\ owed >= 0
  /\ Daily /\ pc = "wait" /\ timer > 0 => owed = 0

(* After SIGTERM the process is gone within a few sleeps of Send, though   *)
(* select may prefer a tick, or an overdue daily run, to ctx.Done().       *)
StopsInTime == ctxDone /\ pc # "down" => since <= StopLimit

(* PB_TIME as src/config/config.go describes it, with an interval that     *)
(* main accepts.                                                           *)
Sensible == value.kind \in {"0", "clock"} \/ (Periodic /\ value.n >= MinPeriod)

(* With such a value the worker runs again and again, unless a start that  *)
(* died in the first migration has left the schema dirty.                  *)
EventuallyRuns == Sensible => []<>(pc = "run" \/ schema = "dirty")
=============================================================================
