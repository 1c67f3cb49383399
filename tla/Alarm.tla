------------------------------- MODULE Alarm -------------------------------
(***************************************************************************)
(* The system clock of the HAL and the one alarm the program registers:    *)
(* alt_alarm_start (alt_alarm_start.c) and alt_tick (alt_tick.c).  The     *)
(* tick counter and the time of the alarm are unsigned words that wrap.    *)
(***************************************************************************)
EXTENDS Integers

CONSTANTS
  TickMod,   \* 2^32: ticks are counted modulo this number
  Period     \* ticks between two callbacks

\* The first callback comes after Period + 1 ticks, which must not wrap around
\* to the tick at which the alarm is started.
ASSUME AlarmAssumption ==
  TickMod \in Nat \ {0} /\ Period \in 1..TickMod - 2

VARIABLES
  nticks,     \* _alt_nticks
  time,       \* alarm->time
  rollover,   \* alarm->rollover
  quiet       \* history: ticks since the last callback; -1 at the start

alarmVars == <<nticks, time, rollover, quiet>>

\* alt_alarm_start, called at the tick now.
AlarmStart(now) ==
  /\ nticks = now
  /\ time = (Period + now + 1) % TickMod
  /\ rollover = ((Period + now + 1) % TickMod < now)
  /\ quiet = -1

NextTick == (nticks + 1) % TickMod
StillRolled == rollover /\ NextTick # 0

\* The alarm is due at the coming tick.
Fires == time <= NextTick /\ ~StillRolled

\* Mutant: no roll-over flag.
NeverRolls(t) == FALSE
\* The flag after a callback that moved the alarm to the time t.
Rolls(t) == t < NextTick

\* alt_tick, without what the callback does.
Tick ==
  /\ nticks' = NextTick
  /\ IF Fires
     THEN /\ time' = (time + Period) % TickMod
          /\ rollover' = Rolls(time')
          /\ quiet' = 0
     ELSE /\ rollover' = StillRolled
          /\ quiet' = quiet + 1
          /\ UNCHANGED time

AlarmTypeOK ==
  /\ {nticks, time} \subseteq 0..TickMod - 1
  /\ rollover \in BOOLEAN
  /\ quiet \in -1..Period - 1

\* The callback comes every Period ticks, neither early nor late, also when
\* the tick counter or the time of the alarm wraps (alt_tick.c:104-138).
\* The first one comes after Period ticks and the tick that was under way.
AlarmOnTime == [][nticks' # nticks => (Fires <=> quiet + 1 = Period)]_alarmVars
=============================================================================
