-------------------------------- MODULE Windows --------------------------------
(***************************************************************************)
(* When a time_window or a sun_window of services/automation/               *)
(* automation_mqtt.py is met (_active_window and the bounds of the two       *)
(* kinds).  RuleEngine and ScenarioEngine take one window of a fixed start   *)
(* and end; here the days repeat and the window moves with them.             *)
(*                                                                         *)
(* Time is counted in slots.  Local days need not be equally long: the       *)
(* clock is changed at midnight here, so a day may lack its last slots or    *)
(* have more of them.  Day 0 is the first one the clock runs through; the    *)
(* days before and after it exist for the windows that reach into it.        *)
(***************************************************************************)
EXTENDS Integers

CONSTANTS
  None,
  Days,         \* day numbers, 0 among them
  Weekdays,     \* length of the week
  Calendars,    \* when each day may start
  SunTimes,     \* sunrise and sunset a day may have, in slots of that day
  Windows,      \* the windows to look at
  MaxTime       \* bound on the clock

TimeWindow == [type : {"time_window"}, start : Nat, end : Nat, weekdays : SUBSET Nat]

SunWindow ==
  [type : {"sun_window"}, from : {"sunrise", "sunset"}, to : {"sunrise", "sunset"},
   from_offset : Int, to_offset : Int, weekdays : SUBSET Nat]

\* The days whose end is known.
WholeDays == {day \in Days : day + 1 \in Days}

\* Days follow one another, and the clock does not run out of them.
CalendarAssumption ==
  /\ Days \subseteq Int /\ -1 \in Days /\ 0 \in Days
  /\ \A first, last \in Days : first..last \subseteq Days
  /\ Calendars \subseteq [Days -> Int]
  /\ \A calendar \in Calendars :
       /\ calendar[0] = 0
       /\ \A day, later \in Days : day < later => calendar[day] < calendar[later]
       /\ \A day \in Days : calendar[day] <= MaxTime => day \in WholeDays

\* Every day has the times of day a window names.
HasItsTimes(w) ==
  \A calendar \in Calendars, day \in WholeDays :
    calendar[day] + w.start < calendar[day + 1] /\ calendar[day] + w.end < calendar[day + 1]

\* A sun window that begins on its own day and ends on that day or the next.
KeepsTwoDays(w) ==
  \A calendar \in Calendars, day \in Days, s, t \in SunTimes \ {None} :
    LET start == s[w.from] + w.from_offset
        end == s[w.to] + w.to_offset
        next == t[w.to] + w.to_offset
    IN /\ start >= 0
       /\ {day + 1, day + 2} \subseteq Days =>
            IF end >= start THEN calendar[day] + end <= calendar[day + 2]
                            ELSE calendar[day + 1] + next <= calendar[day + 2]

ASSUME WindowsAssumption ==
  /\ Weekdays \in Nat \ {0} /\ MaxTime \in Nat
  /\ None \notin [start : Int, end : Int]
  /\ \A times \in SunTimes \ {None} : times \in [sunrise : Int, sunset : Int]
  /\ CalendarAssumption
  /\ \A w \in Windows : \/ (w \in TimeWindow /\ HasItsTimes(w))
                         \/ (w \in SunWindow /\ KeepsTwoDays(w))

VARIABLES
  time,
  today,      \* the local date of `time`
  midnight,   \* when each day starts
  sun,        \* _sun_event of each day; None where the sun stays up or down
  window

windowVars == <<time, today, midnight, sun, window>>
-----------------------------------------------------------------------------
(***************************************************************************)
(* _time_window_bounds and _sun_window_bounds for one day: the bounds, or    *)
(* None.                                                                    *)
(***************************************************************************)

TimeBounds(w, day) ==
  LET start == midnight[day] + w.start
      end == midnight[day] + w.end
  IN [start |-> start,
      end |-> IF end <= start THEN midnight[day + 1] + w.end ELSE end]

SunEvent(day, event) == midnight[day] + sun[day][event]

SunBounds(w, day) ==
  LET start == SunEvent(day, w.from) + w.from_offset
      end == SunEvent(day, w.to) + w.to_offset
  IN IF sun[day] = None THEN None
     ELSE IF end >= start THEN [start |-> start, end |-> end]
     ELSE IF sun[day + 1] = None THEN None
     ELSE [start |-> start, end |-> SunEvent(day + 1, w.to) + w.to_offset]

Bounds(w, day) ==
  IF w.type = "time_window" THEN TimeBounds(w, day) ELSE SunBounds(w, day)

Allows(w, day) == w.weekdays = {} \/ day % Weekdays \in w.weekdays

Within(bounds, t) == bounds # None /\ bounds.start <= t /\ t < bounds.end

\* _active_window: today's window, or yesterday's.
\* Mutant: the weekday of the moment counts, not that of the window's day.
MutActive(w, t, date) ==
  \E day \in {date, date - 1} : Within(Bounds(w, day), t) /\ Allows(w, date)

Active(w, t, date) ==
  \E day \in {date, date - 1} : Within(Bounds(w, day), t) /\ Allows(w, day)
-----------------------------------------------------------------------------
WindowsInit ==
  /\ time = 0 /\ today = 0
  /\ window \in Windows
  /\ midnight \in Calendars
  /\ sun \in [Days -> SunTimes]

Elapse ==
  /\ time < MaxTime
  /\ time' = time + 1
  /\ today' = IF time + 1 = midnight[today + 1] THEN today + 1 ELSE today
  /\ UNCHANGED <<midnight, sun, window>>

WindowsNext == Elapse

WindowsSpec == WindowsInit /\ [][WindowsNext]_windowVars
-----------------------------------------------------------------------------
(***************************************************************************)
(* Properties.                                                              *)
(***************************************************************************)
\* A window is met from its start to its end, on every day whose weekday it allows,
\* whichever day it is by then: "a `time_window` from 22:00 to 06:00 on Fridays also
\* holds at 03:00 on Saturday" (automations.md).  _active_window looks at two days only.
MetFromStartToEnd ==
  \A day \in WholeDays :
    Within(Bounds(window, day), time) /\ Allows(window, day) => Active(window, time, today)

\* A window of a whole day has no gap between two days, however long they are:
\* "00:00 to 00:00 holds from one midnight to the next, without a gap".
WholeDayHasNoGap ==
  /\ window.type = "time_window" /\ window.start = window.end /\ window.weekdays = {}
  => Active(window, time, today)

\* A window is met from its start to its end on its own day, and a whole day has no gap.
WindowsKeepTheirDays == MetFromStartToEnd /\ WholeDayHasNoGap
=============================================================================
