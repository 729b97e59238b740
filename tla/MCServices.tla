------------------------------ MODULE MCServices ------------------------------
(***************************************************************************)
(* Settings for model-checking BalanceFeed, RuleHistory, BrowserHistory and *)
(* Windows.  They do not interact, so one run takes them one at a time:     *)
(* `part` is the one that runs, and the others rest in an initial state.    *)
(***************************************************************************)
EXTENDS BalanceFeed, RuleHistory, BrowserHistory, Windows

VARIABLE part

-----------------------------------------------------------------------------
\* Retention by time and by size.
ByTime == [mode |-> "time", retention |-> 2, budget |-> 0]
BySize == [mode |-> "size", retention |-> 2, budget |-> 8]
MCConfigs == {ByTime, BySize}

\* Days of five or six slots.
MCDays == -1..2

Calendar(before, first, second) ==
  [day \in MCDays |-> CASE day = -1 -> -before [] day = 0 -> 0
                       [] day = 1 -> first    [] day = 2 -> first + second]

MCCalendars == {Calendar(l, m, n) : l \in {5, 6}, m \in {5, 6}, n \in {5, 6}}

SunAt(sunrise, sunset) == [sunrise |-> sunrise, sunset |-> sunset]

MCSunTimes == {SunAt(1, 4), SunAt(2, 3), None}

\* Every time window, on every day or on one weekday.
TimeWindows ==
  {[type |-> "time_window", start |-> s, end |-> e, weekdays |-> w] :
     s \in 0..4, e \in 0..4, w \in {{}, {0}, {1}}}

\* From and to sunset and sunrise, or slots before or after, past midnight too.
SunWindows ==
  {[type |-> "sun_window", from |-> f, to |-> t, from_offset |-> x, to_offset |-> y,
    weekdays |-> w] :
     f \in {"sunrise", "sunset"}, t \in {"sunrise", "sunset"}, x \in -1..1,
     y \in {-1, 0, 2}, w \in {{}, {0}}}

MCWindows == TimeWindows \cup SunWindows
-----------------------------------------------------------------------------
HistoryRests == HistoryInit /\ settings.persist /\ \A limit \in Limits : settings.limit <= limit
BrowserRests == BrowserInit /\ config = ByTime
WindowsRest ==
  WindowsInit /\ midnight = Calendar(5, 5, 5) /\ sun = [day \in MCDays |-> None]
  /\ window = [type |-> "time_window", start |-> 0, end |-> 0, weekdays |-> {}]

Init ==
  \/ part = "feed" /\ FeedInit /\ HistoryRests /\ BrowserRests /\ WindowsRest
  \/ part = "history" /\ FeedInit /\ HistoryInit /\ BrowserRests /\ WindowsRest
  \/ part = "browser" /\ FeedInit /\ HistoryRests /\ BrowserInit /\ WindowsRest
  \/ part = "windows" /\ FeedInit /\ HistoryRests /\ BrowserRests /\ WindowsInit

Next ==
  \/ part = "feed" /\ FeedNext /\ UNCHANGED <<part, historyVars, browserVars, windowVars>>
  \/ part = "history" /\ HistoryNext /\ UNCHANGED <<part, feedVars, browserVars, windowVars>>
  \/ part = "browser" /\ BrowserNext /\ UNCHANGED <<part, feedVars, historyVars, windowVars>>
  \/ part = "windows" /\ WindowsNext /\ UNCHANGED <<part, feedVars, historyVars, browserVars>>

Spec == Init /\ [][Next]_<<part, feedVars, historyVars, browserVars, windowVars>>
-----------------------------------------------------------------------------
\* Every part keeps its types, the resting ones included.
TypeOK == FeedTypeOK /\ HistoryTypeOK /\ BrowserTypeOK
===============================================================================
