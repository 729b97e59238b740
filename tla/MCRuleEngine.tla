----------------------------- MODULE MCRuleEngine -----------------------------
(***************************************************************************)
(* Rules documents for model-checking RuleEngine: one rule id, edited in    *)
(* the ways that matter (switched off, a condition replaced, a repeat).     *)
(***************************************************************************)
EXTENDS RuleEngine

Settings_(settling) ==
  [settling_seconds |-> settling, balance_max_age_s |-> 2, publish_min_interval_s |-> 2]

Above(threshold, hysteresis, hold) ==
  [type |-> "balance_threshold", comparison |-> "above", threshold |-> threshold,
   hysteresis |-> hysteresis, hold |-> hold]

Below(threshold, hysteresis, hold) ==
  [Above(threshold, hysteresis, hold) EXCEPT !.comparison = "below"]

TopicIs(t, value, hold) ==
  [type |-> "topic_value", topic |-> t, comparison |-> "equals", value |-> value,
   hold |-> hold]

Silent(t, age, hold) ==
  [type |-> "topic_stale", topic |-> t, max_age |-> age, hold |-> hold]

Window(start, end) == [type |-> "time_window", start |-> start, end |-> end, hold |-> 0]

OneRule(settling, enabled, cooldown, repeat, publishes, conditions) ==
  [settings |-> Settings_(settling),
   rules |-> [r \in Rules |->
     [enabled |-> enabled, cooldown |-> cooldown, repeat |-> repeat,
      publishes |-> publishes, conditions |-> conditions]]]

NoRules == [settings |-> Settings_(1), rules |-> <<>>]

MCBalance == {0, 2, 3}
MCTopicPayloads == {0, 1, Unparseable}
Nothing == {}

\* A balance rule that is edited, switched off and removed: the balance may be past the
\* threshold, inside the band or outside of it, and the edit turns the direction round.
BalanceDocs ==
  {OneRule(1, TRUE, 2, 0, TRUE, <<Below(1, 1, 2)>>),
   OneRule(1, FALSE, 2, 0, TRUE, <<Below(1, 1, 2)>>),
   OneRule(1, TRUE, 3, 2, TRUE, <<Above(2, 1, 2), Window(0, 6)>>),
   NoRules}

\* Rules that publish every three seconds at most: one that waits for a topic to say
\* something, one for it to go silent, and one with no hold time at all,
\* which settles in three seconds or in five.
SpacingSettings ==
  [settling_seconds |-> 3, balance_max_age_s |-> 2, publish_min_interval_s |-> 3]

Spaced(enabled, repeat, conditions) ==
  [OneRule(3, enabled, 3, repeat, TRUE, conditions) EXCEPT !.settings = SpacingSettings]

SpacingDocs ==
  {Spaced(TRUE, 3, <<TopicIs(t, 1, 3)>>) : t \in Topics}
  \cup {Spaced(TRUE, 0, <<Silent(t, 1, 3)>>) : t \in Topics}
  \cup {Spaced(enabled, 0, <<Window(0, 7)>>) : enabled \in BOOLEAN}
  \cup {[Spaced(TRUE, 0, <<Window(0, 7)>>) EXCEPT !.settings.settling_seconds = 5]}

\* A rule that is only switched off and on.
SwitchDocs ==
  {OneRule(1, enabled, 2, 0, TRUE, <<TopicIs(t, 1, 2)>>) :
     enabled \in BOOLEAN, t \in Topics}
===============================================================================
