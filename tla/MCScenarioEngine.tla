--------------------------- MODULE MCScenarioEngine ---------------------------
(***************************************************************************)
(* Documents for model-checking ScenarioEngine.                             *)
(***************************************************************************)
EXTENDS ScenarioEngine

CONSTANTS a1, a2

Above(threshold, hold) ==
  [type |-> "balance_threshold", comparison |-> "above", threshold |-> threshold,
   hysteresis |-> 0, hold |-> hold]

Below(threshold, hold) == [Above(threshold, hold) EXCEPT !.comparison = "below"]

MCSettings ==
  [settling_seconds |-> 1, balance_max_age_s |-> 1, tick_interval_s |-> 1,
   regulator_interval_s |-> 2]

Doc(scenario) == [settings |-> MCSettings, scenarios |-> [s \in Scenarios |-> scenario]]

NoScenarios == [settings |-> MCSettings, scenarios |-> <<>>]

MCBalance == {1, 2}

Plain(a) ==
  [enabled |-> TRUE, when |-> <<Above(1, 1)>>, until |-> <<>>, mode |-> "none",
   repeat_seconds |-> 2, interval_s |-> None, base |-> "last", topic |-> None,
   fallback |-> "none", max_duration_s |-> None, min_run_s |-> 0, cooldown_s |-> 0,
   actions |-> a]

Regulating(a) == [Plain(a) EXCEPT !.mode = "regulate", !.fallback = "number"]

FollowsBalance == [Regulating(a1) EXCEPT !.base = "balance"]

FollowsTopic(t) ==
  [Regulating(a1) EXCEPT !.base = "entity", !.topic = t, !.interval_s = 3,
                         !.fallback = "text", !.max_duration_s = 2, !.cooldown_s = 1]

Holding(a) ==
  [Plain(a) EXCEPT !.mode = "hold", !.until = <<Below(2, 1)>>, !.min_run_s = 2]

SwitchedOff == [Plain(a2) EXCEPT !.enabled = FALSE]

\* Balance scenarios that regulate from each base value, or hold; ended by their `when`,
\* by their duration or by an `until` after a minimum run time; edited, switched off,
\* removed.
MCDocs ==
  {NoScenarios, Doc(FollowsBalance), Doc(Regulating(a2)), Doc(SwitchedOff)}
  \cup {Doc(FollowsTopic(t)) : t \in Topics}
  \cup {Doc(Holding(a)) : a \in Actions}
===============================================================================
