------------------------------ MODULE RuleEngine ------------------------------
(***************************************************************************)
(* The rule engine of services/automation/automation_mqtt.py (class        *)
(* Engine), with what drives it: the clock, messages, a new rules document *)
(* and a restart of the process.                                           *)
(*                                                                         *)
(* One Tick is one call of Engine.tick: it evaluates every rule of the      *)
(* document and runs the action chain of those that fire.  The engine's     *)
(* runtime is kept per rule id and is never pruned, so it is a total        *)
(* function here; an id without an entry reads as the default RuleRuntime.   *)
(* What the two threads of the service do in the middle of a tick is        *)
(* modelled in BalanceFeed.                                                 *)
(***************************************************************************)
EXTENDS Conditions

CONSTANTS
  Rules,           \* rule ids
  Docs,            \* the documents a reload or a restart may load
  BalanceValues,   \* values of the balance field the rules look at
  TopicPayloads,   \* payloads that arrive on the topics
  Outcomes,        \* results of an action chain: a subset of ChainResults
  ClockSteps,      \* corrections of the wall clock (only in SteppedSpec)
  MaxTime          \* bound on the clock

(***************************************************************************)
(* Rules documents: what load_and_validate lets pass.                       *)
(***************************************************************************)
Settings == [settling_seconds : Nat, balance_max_age_s : Nat,
             publish_min_interval_s : Nat \ {0}]

Rule == [enabled : BOOLEAN, cooldown : Nat, repeat : Nat, publishes : BOOLEAN,
         conditions : ConditionLists]

\* _validate_rule: a rule that publishes keeps every one of its own waits at or
\* above the interval of its document.
KeepsMinInterval(rule, seconds) ==
  rule.publishes =>
    /\ rule.cooldown >= seconds
    /\ rule.repeat > 0 => rule.repeat >= seconds
    /\ \A i \in DOMAIN rule.conditions :
         HasHoldSeconds(rule.conditions[i]) => rule.conditions[i].hold >= seconds

IsDocument(d) ==
  /\ d.settings \in Settings
  /\ DOMAIN d.rules \subseteq Rules
  /\ \A r \in DOMAIN d.rules :
       /\ d.rules[r] \in Rule
       /\ KeepsMinInterval(d.rules[r], d.settings.publish_min_interval_s)

ChainResults == {"fired", "blocked", "error"}

ASSUME DocsAssumption == Docs # {} /\ \A d \in Docs : IsDocument(d)

ASSUME InputAssumption ==
  /\ BalanceValues \subseteq Int \cup {None, NoField}
  /\ TopicPayloads \subseteq Int \cup {Unparseable}
  /\ Outcomes \subseteq ChainResults
  /\ MaxTime \in Nat
  /\ ClockSteps \subseteq Int

VARIABLES
  doc,         \* the rules document in force
  now,         \* time.time()
  startedAt,   \* Engine.started_at
  lastTick,    \* time of the last tick of this process
  balance,     \* last_balance and
  balanceAt,   \* last_balance_at of the service
  topics,      \* topic_values
  seen,        \* topic_seen_at
  runtime,     \* Engine._runtime
  results      \* the results of the last tick, by rule id

\* History variables: they record what happened and restrict nothing.
VARIABLES
  ran,         \* what the last tick ran of each rule: "nothing", "start", "repeat"
  lastRun,     \* when a rule's action chain last ran, across restarts
  unmetAt,     \* per rule and position, the last tick that found it unmet
  crossed,     \* per rule and position, the value went past the threshold itself
               \* and has not fallen out of the hysteresis band since
  definedAt,   \* when a reload last changed the rule; None if none did
  metSince,    \* first of the uninterrupted ticks with every condition met
  uptime       \* seconds this process really runs

inputs == <<balance, balanceAt, topics, seen>>
engine == <<runtime, results, lastTick>>
history == <<ran, lastRun, unmetAt, crossed, metSince>>
vars == <<doc, now, startedAt, inputs, engine, history, definedAt, uptime>>

RuleRuntime ==
  [conditions : [Positions -> ConditionRuntime], fired_this_episode : BOOLEAN,
   last_fired_at : Instant, fire_count : Nat]

NewRuleRuntime ==
  [conditions |-> [i \in Positions |-> NewConditionRuntime],
   fired_this_episode |-> FALSE, last_fired_at |-> None, fire_count |-> 0]

-----------------------------------------------------------------------------
(***************************************************************************)
(* One tick of one rule, read from the state before the tick.               *)
(***************************************************************************)
Enabled(r) == doc.rules[r].enabled
Conds(r) == doc.rules[r].conditions
CondRuntimes(r) == runtime[r].conditions

\* Mutant: settling is over for good once the first process has settled.
MutSettling == now < doc.settings.settling_seconds

Settling == now - startedAt < doc.settings.settling_seconds

BalanceStale ==
  balanceAt = None \/ now - balanceAt > doc.settings.balance_max_age_s

World ==
  [balance |-> IF BalanceStale THEN None ELSE balance,
   topics |-> topics, seen |-> seen, now |-> now, started |-> startedAt]

AllRaw(r) == AllMet(Conds(r), CondRuntimes(r), World)
HeldLongEnough(r) == AllHeld(Conds(r), CondRuntimes(r), World)

\* Mutant: an episode lasts for one tick only.
MutNoEpisode(r) == runtime[r].fired_this_episode /\ AllRaw(r) /\ ran[r] # "nothing"

\* fired_this_episode as the chain below reads it, after the reset.
InEpisode(r) == runtime[r].fired_this_episode /\ AllRaw(r)

\* Mutant: the cooldown is a second short.
MutCoolingDown(r) ==
  /\ runtime[r].last_fired_at # None
  /\ now - runtime[r].last_fired_at < doc.rules[r].cooldown - 1

CoolingDown(r) ==
  /\ runtime[r].last_fired_at # None
  /\ now - runtime[r].last_fired_at < doc.rules[r].cooldown

RepeatDue(r) ==
  /\ doc.rules[r].repeat > 0
  /\ HeldLongEnough(r)
  /\ now - runtime[r].last_fired_at >= doc.rules[r].repeat

\* The first check of Engine.tick that applies, in the code's order.
Verdict(r) ==
  IF ~Enabled(r) THEN "disabled"
  ELSE IF Settling THEN "settling"
  ELSE IF SawStale(Conds(r), World) THEN "balance_stale"
  ELSE IF ~AllRaw(r) THEN "conditions_not_met"
  ELSE IF InEpisode(r) THEN (IF RepeatDue(r) THEN "repeat" ELSE "fired")
  ELSE IF CoolingDown(r) THEN "cooldown"
  ELSE IF ~HeldLongEnough(r) THEN "hold_pending"
  ELSE "start"

Fires(r) == Verdict(r) \in {"start", "repeat"}

\* _fire stamps the rule whatever came of its actions; a disabled rule is not
\* evaluated at all and only loses its episode.
NextRuntime(r) ==
  [conditions |-> IF Enabled(r) THEN EvaluateAll(Conds(r), CondRuntimes(r), World)
                                ELSE CondRuntimes(r),
   fired_this_episode |-> Enabled(r) /\ (Fires(r) \/ InEpisode(r)),
   last_fired_at |-> IF Fires(r) THEN now ELSE runtime[r].last_fired_at,
   fire_count |-> runtime[r].fire_count + (IF Fires(r) THEN 1 ELSE 0)]

-----------------------------------------------------------------------------
(***************************************************************************)
(* What the history variables note of a tick.                               *)
(***************************************************************************)
FellOut(c, value) ==
  \/ c.comparison = "above" /\ value < c.threshold - c.hysteresis
  \/ c.comparison = "below" /\ value > c.threshold + c.hysteresis

MetNow(r, i) == Met(Conds(r)[i], CondRuntimes(r)[i], World)

RecordTick ==
  /\ ran' = [r \in Rules |->
              IF r \in DOMAIN doc.rules /\ Fires(r) THEN Verdict(r) ELSE "nothing"]
  /\ lastRun' = [r \in Rules |->
              IF r \in DOMAIN doc.rules /\ Fires(r) THEN now ELSE lastRun[r]]
  /\ unmetAt' = [r \in Rules |-> [i \in Positions |->
              IF r \in DOMAIN doc.rules /\ i \in DOMAIN Conds(r) /\ ~MetNow(r, i)
              THEN now ELSE unmetAt[r][i]]]
  /\ crossed' = [r \in Rules |-> [i \in Positions |->
              IF r \in DOMAIN doc.rules /\ i \in DOMAIN Conds(r)
                 /\ HysteresisApplies(Conds(r)[i], World)
              THEN \/ RawMet(Conds(r)[i], World)
                   \/ crossed[r][i] /\ ~FellOut(Conds(r)[i], World.balance)
              ELSE crossed[r][i]]]
  /\ metSince' = [r \in Rules |->
              IF ~(r \in DOMAIN doc.rules /\ Enabled(r) /\ AllRaw(r)) THEN None
              ELSE IF metSince[r] = None THEN now ELSE metSince[r]]

\* A document that changes a rule, adds or removes it starts its record anew.
Edited(r, d) ==
  \/ r \in DOMAIN d.rules /\ r \notin DOMAIN doc.rules
  \/ r \notin DOMAIN d.rules /\ r \in DOMAIN doc.rules
  \/ r \in DOMAIN d.rules /\ r \in DOMAIN doc.rules /\ d.rules[r] # doc.rules[r]

RecordEdit(d) ==
  /\ definedAt' = [r \in Rules |-> IF Edited(r, d) THEN now ELSE definedAt[r]]
  /\ metSince' = [r \in Rules |-> IF Edited(r, d) THEN None ELSE metSince[r]]
  /\ UNCHANGED <<ran, lastRun, unmetAt, crossed>>

-----------------------------------------------------------------------------
NoTopics == [t \in Topics |-> None]

\* A fresh process at time `now`.
Init ==
  /\ doc \in Docs
  /\ now = 0 /\ startedAt = 0 /\ lastTick = None /\ uptime = 0
  /\ balance = None /\ balanceAt = None
  /\ topics = NoTopics /\ seen = NoTopics
  /\ runtime = [r \in Rules |-> NewRuleRuntime]
  /\ results = [r \in Rules |-> None]
  /\ ran = [r \in Rules |-> "nothing"]
  /\ lastRun = [r \in Rules |-> None]
  /\ unmetAt = [r \in Rules |-> [i \in Positions |-> None]]
  /\ crossed = [r \in Rules |-> [i \in Positions |-> FALSE]]
  /\ definedAt = [r \in Rules |-> None]
  /\ metSince = [r \in Rules |-> None]

\* AutomationService.poll_core: the scheduler's tick.  `outcome` is what came of
\* the actions of the rules that fire.
Tick ==
  /\ lastTick # None => lastTick < now
  /\ \E outcome \in [Rules -> Outcomes] :
       results' = [r \in Rules |->
                    IF r \notin DOMAIN doc.rules THEN None
                    ELSE IF Fires(r) THEN outcome[r] ELSE Verdict(r)]
  /\ runtime' = [r \in Rules |->
                  IF r \in DOMAIN doc.rules THEN NextRuntime(r) ELSE runtime[r]]
  /\ lastTick' = now
  /\ RecordTick
  /\ UNCHANGED <<doc, now, startedAt, inputs, definedAt, uptime>>

\* AutomationService.on_message for the balance topic.
BalanceMessage(value) ==
  /\ balance' = value
  /\ balanceAt' = now
  /\ UNCHANGED <<doc, now, startedAt, topics, seen, engine, history, definedAt, uptime>>

\* AutomationService.on_message for any other subscribed topic.
TopicMessage(t, payload) ==
  /\ topics' = [topics EXCEPT ![t] = payload]
  /\ seen' = [seen EXCEPT ![t] = now]
  /\ UNCHANGED <<doc, now, startedAt, balance, balanceAt, engine, history,
                 definedAt, uptime>>

\* AutomationService.reload_config: the engine keeps its runtime.
Reload(d) ==
  /\ d # doc
  /\ doc' = d
  /\ RecordEdit(d)
  /\ UNCHANGED <<now, startedAt, inputs, engine, uptime>>

\* The process ends and starts again, with the document then on the disk.
Restart(d) ==
  /\ doc' = d
  /\ startedAt' = now /\ lastTick' = None /\ uptime' = 0
  /\ balance' = None /\ balanceAt' = None
  /\ topics' = NoTopics /\ seen' = NoTopics
  /\ runtime' = [r \in Rules |-> NewRuleRuntime]
  /\ results' = [r \in Rules |-> None]
  /\ ran' = [r \in Rules |-> "nothing"]
  /\ unmetAt' = [r \in Rules |-> [i \in Positions |-> None]]
  /\ crossed' = [r \in Rules |-> [i \in Positions |-> FALSE]]
  /\ definedAt' = [r \in Rules |-> None]
  /\ metSince' = [r \in Rules |-> None]
  /\ UNCHANGED <<now, lastRun>>

Elapse ==
  /\ now < MaxTime
  /\ now' = now + 1
  /\ uptime' = uptime + 1
  /\ UNCHANGED <<doc, startedAt, inputs, engine, history, definedAt>>

Next ==
  \/ Tick
  \/ \E v \in BalanceValues : BalanceMessage(v)
  \/ \E t \in Topics, p \in TopicPayloads : TopicMessage(t, p)
  \/ \E d \in Docs : Reload(d)
  \/ \E d \in Docs : Restart(d)
  \/ Elapse

Spec == Init /\ [][Next]_vars

\* The same service on a host whose wall clock is corrected while it runs.
ClockStep(s) ==
  /\ now + s \in 0..MaxTime
  /\ now' = now + s
  /\ UNCHANGED <<doc, startedAt, inputs, engine, history, definedAt, uptime>>

SteppedSpec == Init /\ [][Next \/ \E s \in ClockSteps : ClockStep(s)]_vars

-----------------------------------------------------------------------------
(***************************************************************************)
(* Properties.                                                              *)
(***************************************************************************)
\* Every variable has its type.
TypeOK ==
  /\ doc \in Docs
  /\ now \in Nat /\ startedAt \in Nat /\ uptime \in Nat
  /\ lastTick \in Instant /\ balanceAt \in Instant
  /\ balance \in BalanceValues \cup {None}
  /\ topics \in [Topics -> TopicPayloads \cup {None}]
  /\ seen \in [Topics -> Instant]
  /\ runtime \in [Rules -> RuleRuntime]
  /\ results \in [Rules -> {None, "disabled", "settling", "balance_stale",
                           "conditions_not_met", "cooldown", "hold_pending"} \cup ChainResults]
  /\ ran \in [Rules -> {"nothing", "start", "repeat"}]
  /\ lastRun \in [Rules -> Instant]
  /\ unmetAt \in [Rules -> [Positions -> Instant]]
  /\ crossed \in [Rules -> [Positions -> BOOLEAN]]
  /\ definedAt \in [Rules -> Instant]
  /\ metSince \in [Rules -> Instant]

\* This step is a tick in which the rule's action chain runs.
RunsNow(r) == lastTick' # lastTick /\ ran'[r] # "nothing"

\* A restart forgets the cooldown, so what keeps a rule quiet across one is a hold
\* time or the settling time; a rule with neither may publish again at once.
GuardedAcrossRestart(r) ==
  \/ \E i \in DOMAIN Conds(r) : HasHoldSeconds(Conds(r)[i])
  \/ doc.settings.settling_seconds >= doc.settings.publish_min_interval_s

\* The chain of a publishing rule never runs twice within publish_min_interval_s:
\* not through cooldown and repeat, not by editing, removing or re-adding the rule,
\* not by a restart.  (_validate_rule, Engine.tick, Engine._fire)
PublishSpacing ==
  [][\A r \in Rules :
       /\ RunsNow(r)
       /\ doc.rules[r].publishes
       /\ GuardedAcrossRestart(r)
       /\ lastRun[r] # None
       => now - lastRun[r] >= doc.settings.publish_min_interval_s]_vars

\* After a start the first trigger comes after max(hold_seconds, settling_seconds)
\* at the earliest, measured in the time the process really runs.
FirstTriggerNotEarly ==
  [][\A r \in Rules : RunsNow(r) =>
       /\ uptime >= doc.settings.settling_seconds
       /\ HoldsWithin(Conds(r), uptime)]_vars

\* A rule runs only when each of its conditions was met on every tick of its hold
\* time, provided the rule was not edited or switched on within that time.
HoldIsUnbroken ==
  [][\A r \in Rules : RunsNow(r) =>
       \A i \in DOMAIN Conds(r) :
         \/ unmetAt[r][i] = None
         \/ now - unmetAt[r][i] > Conds(r)[i].hold
         \/ definedAt[r] # None /\ now - definedAt[r] <= Conds(r)[i].hold]_vars

\* The same without the proviso, as the documentation of hold_seconds has it: "As
\* soon as the condition is false on a tick, the hold time starts over from zero."
HoldStartsOverWhenUnmet ==
  [][\A r \in Rules : RunsNow(r) =>
       \A i \in DOMAIN Conds(r) :
         unmetAt[r][i] = None \/ now - unmetAt[r][i] > Conds(r)[i].hold]_vars

\* A rule starts again in the same process only after a tick on which one of its
\* conditions was unmet, or after somebody edited it.  A repeat is not a new start.
OneStartPerEpisode ==
  [][\A r \in Rules : RunsNow(r) /\ ran'[r] = "start" =>
       \/ runtime[r].last_fired_at = None
       \/ definedAt[r] # None /\ definedAt[r] >= runtime[r].last_fired_at
       \/ \E i \in DOMAIN Conds(r) :
            unmetAt[r][i] # None /\ unmetAt[r][i] > runtime[r].last_fired_at]_vars

\* An unedited rule never acts on a hysteresis condition whose value did not go past
\* the threshold itself, or has fallen out of the band since.
HysteresisBand ==
  [][\A r \in Rules : RunsNow(r) /\ definedAt[r] = None =>
       \A i \in DOMAIN Conds(r) :
         HysteresisApplies(Conds(r)[i], World) => crossed'[r][i]]_vars

\* No trigger is lost: a rule whose conditions were met on every tick of the longest
\* hold and of the cooldown, on a tick after settling, has run since they are met.  Only
\* an edited rule may still stand in the episode it had before the edit.
TriggerNotLost ==
  \A r \in DOMAIN doc.rules :
    /\ lastTick = now
    /\ metSince[r] # None
    /\ results[r] # "settling"
    /\ HoldsWithin(Conds(r), now - metSince[r])
    /\ now - metSince[r] >= doc.rules[r].cooldown
    => \/ lastRun[r] # None /\ lastRun[r] >= metSince[r]
       \/ definedAt[r] # None /\ runtime[r].fired_this_episode
===============================================================================
