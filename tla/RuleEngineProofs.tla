--------------------------- MODULE RuleEngineProofs ---------------------------
(***************************************************************************)
(* Proofs about RuleEngine, for every set of rules and every collection of  *)
(* valid documents: type correctness, and every property the passing runs of  *)
(* the rule engine check.                                                   *)
(*                                                                         *)
(* None of them is inductive.  What carries the earliest first trigger and   *)
(* the spacing of a publishing rule's runs is Timeline: hold timers start    *)
(* within the life of the process, a stamp in the runtime is the rule's      *)
(* last run, and a runtime without a stamp means that the last run, if any,  *)
(* lies before the start of the process.  What carries the others is          *)
(* HistoryInv, further down: how timers, latches and episodes of a rule in   *)
(* force relate to what earlier ticks found.                                  *)
(***************************************************************************)
EXTENDS RuleEngine

Timeline ==
  /\ startedAt <= now
  /\ uptime = now - startedAt
  /\ \A r \in Rules, i \in Positions :
       LET since == runtime[r].conditions[i].since IN
       since # None => startedAt <= since /\ since <= now
  /\ \A r \in Rules :
       /\ lastRun[r] # None => lastRun[r] <= now
       /\ runtime[r].last_fired_at # None => lastRun[r] = runtime[r].last_fired_at
       /\ runtime[r].last_fired_at = None =>
            /\ ~runtime[r].fired_this_episode
            /\ lastRun[r] # None => lastRun[r] <= startedAt

IInv == TypeOK /\ Timeline

-----------------------------------------------------------------------------
(***************************************************************************)
(* What the documents guarantee.                                            *)
(***************************************************************************)
\* The rules of a document in force are valid rules of it.
LEMMA DocumentRules ==
  ASSUME doc \in Docs, NEW r \in DOMAIN doc.rules
  PROVE  /\ r \in Rules
         /\ doc.rules[r] \in Rule
         /\ KeepsMinInterval(doc.rules[r], doc.settings.publish_min_interval_s)
         /\ doc.settings \in Settings
  BY DocsAssumption DEF IsDocument

\* A condition of a rule in force stands at a position and has a hold time.
LEMMA DocumentConditions ==
  ASSUME doc \in Docs, NEW r \in DOMAIN doc.rules
  PROVE  /\ DOMAIN Conds(r) \subseteq Positions
         /\ \A i \in DOMAIN Conds(r) : Conds(r)[i] \in Condition /\ Conds(r)[i].hold \in Nat
  <1>1. Conds(r) \in ConditionLists
    BY DocumentRules DEF Rule, Conds
  <1> QED BY <1>1, ListType

-----------------------------------------------------------------------------
(***************************************************************************)
(* Which rules fire.                                                        *)
(***************************************************************************)
\* A rule starts only outside settling and cooldown, with all its holds over; it
\* repeats only within an episode.
LEMMA Starts ==
  ASSUME NEW r
  PROVE  Verdict(r) = "start" =>
           Enabled(r) /\ ~Settling /\ ~CoolingDown(r) /\ HeldLongEnough(r)
  BY DEF Verdict

\* A repeat comes inside an episode, when repeat_seconds are over.
LEMMA Repeats ==
  ASSUME NEW r
  PROVE  Verdict(r) = "repeat" => Enabled(r) /\ ~Settling /\ InEpisode(r) /\ RepeatDue(r)
  BY DEF Verdict

\* Whoever fires has every hold time behind it, counted from the start of the process.
LEMMA HoldsWithinLife ==
  ASSUME IInv, NEW r \in DOMAIN doc.rules, HeldLongEnough(r)
  PROVE  \A i \in DOMAIN Conds(r) : now - startedAt >= Conds(r)[i].hold
  <1> SUFFICES ASSUME NEW i \in DOMAIN Conds(r)
               PROVE  now - startedAt >= Conds(r)[i].hold
    OBVIOUS
  <1>1. r \in Rules /\ i \in Positions /\ Conds(r)[i] \in Condition /\ Conds(r)[i].hold \in Nat
    BY DocumentRules, DocumentConditions DEF IInv, TypeOK
  <1>2. CondRuntimes(r)[i] \in ConditionRuntime /\ World.now = now /\ now \in Nat
    BY <1>1 DEF IInv, TypeOK, CondRuntimes, RuleRuntime, World
  <1>3. Held(Conds(r)[i], CondRuntimes(r)[i], World)
    BY DEF HeldLongEnough, AllHeld
  <1> DEFINE s == Since(Conds(r)[i], CondRuntimes(r)[i], World)
  <1>4. s \in {now, CondRuntimes(r)[i].since} \ {None} /\ now - s >= Conds(r)[i].hold
    BY <1>1, <1>2, <1>3, EvaluateOneType
  <1>5. CondRuntimes(r)[i].since \in Nat \cup {None}
    BY <1>2 DEF ConditionRuntime, Instant
  <1>6. startedAt <= s /\ s \in Nat
    BY <1>1, <1>2, <1>4, <1>5 DEF IInv, TypeOK, Timeline, CondRuntimes
  <1> HIDE DEF s
  <1> QED BY <1>1, <1>2, <1>4, <1>6 DEF IInv, TypeOK
-----------------------------------------------------------------------------
(***************************************************************************)
(* Type correctness.                                                        *)
(***************************************************************************)
\* A tick leaves every rule with a runtime.
LEMMA NextRuntimeType ==
  ASSUME TypeOK, NEW r \in DOMAIN doc.rules
  PROVE  /\ NextRuntime(r) \in RuleRuntime
         /\ NextRuntime(r).fired_this_episode => Fires(r) \/ runtime[r].fired_this_episode
         /\ NextRuntime(r).last_fired_at = IF Fires(r) THEN now ELSE runtime[r].last_fired_at
         /\ \A i \in Positions : NextRuntime(r).conditions[i].since
                                \in {None, now, runtime[r].conditions[i].since}
  <1>1. r \in Rules /\ runtime[r] \in RuleRuntime /\ now \in Nat /\ World.now = now
    BY DocumentRules DEF TypeOK, World
  <1>2. CondRuntimes(r) \in [Positions -> ConditionRuntime]
    BY <1>1 DEF CondRuntimes, RuleRuntime
  <1>3. /\ EvaluateAll(Conds(r), CondRuntimes(r), World) \in [Positions -> ConditionRuntime]
        /\ \A i \in Positions : EvaluateAll(Conds(r), CondRuntimes(r), World)[i].since
                              \in {None, now, CondRuntimes(r)[i].since}
    BY <1>1, <1>2, DocumentConditions, EvaluateAllType DEF TypeOK
  <1>4. Enabled(r) \in BOOLEAN
    BY DocumentRules DEF TypeOK, Rule, Enabled
  <1>5. (Enabled(r) /\ (Fires(r) \/ InEpisode(r))) \in BOOLEAN
    OBVIOUS
  <1>6. (IF Fires(r) THEN now ELSE runtime[r].last_fired_at) \in Instant
    BY <1>1 DEF RuleRuntime, Instant
  <1>7. runtime[r].fire_count + (IF Fires(r) THEN 1 ELSE 0) \in Nat
    BY <1>1 DEF RuleRuntime
  <1>8. (IF Enabled(r) THEN EvaluateAll(Conds(r), CondRuntimes(r), World)
                       ELSE CondRuntimes(r)) \in [Positions -> ConditionRuntime]
    BY <1>2, <1>3
  <1>9. NextRuntime(r) \in RuleRuntime
    BY <1>5, <1>6, <1>7, <1>8 DEF NextRuntime, RuleRuntime
  <1>10. NextRuntime(r).fired_this_episode => Fires(r) \/ runtime[r].fired_this_episode
    BY DEF NextRuntime, InEpisode
  <1>11. NextRuntime(r).last_fired_at = IF Fires(r) THEN now ELSE runtime[r].last_fired_at
    BY DEF NextRuntime
  <1>12. \A i \in Positions : NextRuntime(r).conditions[i].since
                                \in {None, now, runtime[r].conditions[i].since}
    BY <1>3 DEF NextRuntime, CondRuntimes
  <1> QED BY <1>9, <1>10, <1>11, <1>12

\* A new service has the types.
LEMMA InitType == Init => TypeOK
  <1> SUFFICES ASSUME Init PROVE TypeOK
    OBVIOUS
  <1>1. NewRuleRuntime \in RuleRuntime
    BY DEF NewRuleRuntime, RuleRuntime, NewConditionRuntime, ConditionRuntime, Instant
  <1>2. NoTopics \in [Topics -> TopicPayloads \cup {None}] /\ NoTopics \in [Topics -> Instant]
    BY DEF NoTopics, Instant
  <1> QED BY <1>1, <1>2 DEF Init, TypeOK, Instant

\* One round of Engine.tick keeps the types.
LEMMA TickType == TypeOK /\ Tick => TypeOK'
  <1> SUFFICES ASSUME TypeOK, Tick PROVE TypeOK'
    OBVIOUS
  <1>1. runtime' \in [Rules -> RuleRuntime]
    BY NextRuntimeType DEF TypeOK, Tick
  <1>2. results' \in [Rules -> {None, "disabled", "settling", "balance_stale",
                 "conditions_not_met", "cooldown", "hold_pending"} \cup ChainResults]
    <2> DEFINE Name == {None, "disabled", "settling", "balance_stale",
                 "conditions_not_met", "cooldown", "hold_pending"} \cup ChainResults
    <2>1. \A r : ~Fires(r) => Verdict(r) \in Name
      BY DEF Fires, Verdict, ChainResults
    <2>2. PICK outcome \in [Rules -> Outcomes] :
            results' = [r \in Rules |->
                    IF r \notin DOMAIN doc.rules THEN None
                    ELSE IF Fires(r) THEN outcome[r] ELSE Verdict(r)]
      BY DEF Tick
    <2>3. Outcomes \subseteq Name
      BY InputAssumption
    <2>4. None \in Name
      OBVIOUS
    <2> HIDE DEF Name
    <2>5. results' \in [Rules -> Name]
      BY <2>1, <2>2, <2>3, <2>4
    <2> QED BY <2>5 DEF Name
  <1>3. now \in Instant /\ lastTick' = now
    BY DEF TypeOK, Tick, Instant
  <1>4. ran' \in [Rules -> {"nothing", "start", "repeat"}]
    BY DEF Tick, RecordTick, Fires
  <1>5. lastRun' \in [Rules -> Instant] /\ metSince' \in [Rules -> Instant]
    <2>1. None \in Instant
      BY DEF Instant
    <2>2. \A r \in Rules : lastRun[r] \in Instant /\ metSince[r] \in Instant
      BY DEF TypeOK
    <2> HIDE DEF Instant
    <2>3. lastRun' \in [Rules -> Instant]
      BY <1>3, <2>2 DEF Tick, RecordTick
    <2>4. metSince' \in [Rules -> Instant]
      BY <1>3, <2>1, <2>2 DEF Tick, RecordTick
    <2> QED BY <2>3, <2>4
  <1>6. unmetAt' \in [Rules -> [Positions -> Instant]]
    BY <1>3 DEF TypeOK, Tick, RecordTick
  <1>7. crossed' \in [Rules -> [Positions -> BOOLEAN]]
    <2> DEFINE C(r, i) == IF r \in DOMAIN doc.rules /\ i \in DOMAIN Conds(r)
                             /\ HysteresisApplies(Conds(r)[i], World)
                          THEN \/ RawMet(Conds(r)[i], World)
                               \/ crossed[r][i] /\ ~FellOut(Conds(r)[i], World.balance)
                          ELSE crossed[r][i]
    <2>1. ASSUME NEW r \in Rules, NEW i \in Positions PROVE C(r, i) \in BOOLEAN
      <3>1. crossed[r][i] \in BOOLEAN
        BY DEF TypeOK
      <3>2. (\/ RawMet(Conds(r)[i], World)
             \/ crossed[r][i] /\ ~FellOut(Conds(r)[i], World.balance)) \in BOOLEAN
        OBVIOUS
      <3> QED BY <3>1, <3>2
    <2>2. crossed' = [r \in Rules |-> [i \in Positions |-> C(r, i)]]
      BY DEF Tick, RecordTick
    <2> HIDE DEF C
    <2> QED BY <2>1, <2>2
  <1> QED BY <1>1, <1>2, <1>3, <1>4, <1>5, <1>6, <1>7 DEF TypeOK, Tick, inputs

\* Every step keeps the types.
LEMMA TypeCorrect == TypeOK /\ [Next]_vars => TypeOK'
  <1> SUFFICES ASSUME TypeOK, [Next]_vars PROVE TypeOK'
    OBVIOUS
  <1> USE DEF inputs, engine, history
  <1>1. CASE Tick
    BY <1>1, TickType
  <1>2. ASSUME NEW v \in BalanceValues, BalanceMessage(v) PROVE TypeOK'
    BY <1>2 DEF TypeOK, BalanceMessage, Instant
  <1>3. ASSUME NEW t \in Topics, NEW p \in TopicPayloads, TopicMessage(t, p) PROVE TypeOK'
    BY <1>3 DEF TypeOK, TopicMessage, Instant
  <1>4. ASSUME NEW d \in Docs, Reload(d) PROVE TypeOK'
    <2>1. definedAt' \in [Rules -> Instant] /\ metSince' \in [Rules -> Instant]
      BY <1>4 DEF TypeOK, Reload, RecordEdit, Instant
    <2> QED BY <1>4, <2>1 DEF TypeOK, Reload, RecordEdit
  <1>5. ASSUME NEW d \in Docs, Restart(d) PROVE TypeOK'
    <2>1. NewRuleRuntime \in RuleRuntime
      BY DEF NewRuleRuntime, RuleRuntime, NewConditionRuntime, ConditionRuntime, Instant
    <2>2. NoTopics \in [Topics -> TopicPayloads \cup {None}] /\ NoTopics \in [Topics -> Instant]
      BY DEF NoTopics, Instant
    <2> QED BY <1>5, <2>1, <2>2 DEF TypeOK, Restart, Instant
  <1>6. CASE Elapse
    BY <1>6 DEF TypeOK, Elapse
  <1>7. CASE UNCHANGED vars
    BY <1>7 DEF TypeOK, vars
  <1> QED BY <1>1, <1>2, <1>3, <1>4, <1>5, <1>6, <1>7 DEF Next

\* Every variable has its type in every reachable state.
THEOREM TypeInvariance == Spec => []TypeOK
  BY InitType, TypeCorrect, PTL DEF Spec

-----------------------------------------------------------------------------
(***************************************************************************)
(* The timeline.                                                            *)
(***************************************************************************)
LEMMA InitTimeline == Init => Timeline
  BY DEF Init, Timeline, NewRuleRuntime, NewConditionRuntime

\* A tick notes its times in the past of the next state.
LEMMA TickTimeline == IInv /\ Tick => Timeline'
  <1> SUFFICES ASSUME IInv, Tick PROVE Timeline'
    OBVIOUS
  <1>1. /\ now \in Nat /\ startedAt \in Nat /\ startedAt <= now
        /\ UNCHANGED <<now, startedAt, uptime>>
        /\ runtime \in [Rules -> RuleRuntime] /\ lastRun \in [Rules -> Instant]
    BY DEF IInv, TypeOK, Timeline, Tick
  <1>2. None \notin Nat
    BY SentinelAssumption
  <1>3. ASSUME NEW r \in Rules, NEW i \in Positions
        PROVE  LET since == runtime'[r].conditions[i].since IN
               since # None => startedAt <= since /\ since <= now
    <2>1. runtime'[r].conditions[i].since \in {None, now, runtime[r].conditions[i].since}
      BY <1>1, NextRuntimeType DEF Tick, IInv
    <2>2. LET since == runtime[r].conditions[i].since IN
          since # None => startedAt <= since /\ since <= now
      BY DEF IInv, Timeline
    <2> QED BY <1>1, <2>1, <2>2
  <1>4. ASSUME NEW r \in Rules
        PROVE  /\ lastRun'[r] # None => lastRun'[r] <= now
               /\ runtime'[r].last_fired_at # None => lastRun'[r] = runtime'[r].last_fired_at
               /\ runtime'[r].last_fired_at = None =>
                    /\ ~runtime'[r].fired_this_episode
                    /\ lastRun'[r] # None => lastRun'[r] <= startedAt
    <2>0. /\ lastRun[r] # None => lastRun[r] <= now
          /\ runtime[r].last_fired_at # None => lastRun[r] = runtime[r].last_fired_at
          /\ runtime[r].last_fired_at = None =>
               /\ ~runtime[r].fired_this_episode
               /\ lastRun[r] # None => lastRun[r] <= startedAt
      BY DEF IInv, Timeline
    <2>1. CASE r \in DOMAIN doc.rules /\ Fires(r)
      <3>1. runtime'[r].last_fired_at = now /\ lastRun'[r] = now
        BY <2>1, NextRuntimeType DEF Tick, RecordTick, IInv
      <3> QED BY <1>1, <1>2, <3>1
    <2>2. CASE r \in DOMAIN doc.rules /\ ~Fires(r)
      <3>1. /\ runtime'[r].last_fired_at = runtime[r].last_fired_at
            /\ lastRun'[r] = lastRun[r]
            /\ runtime'[r].fired_this_episode => runtime[r].fired_this_episode
        BY <2>2, NextRuntimeType DEF Tick, RecordTick, IInv
      <3> QED BY <2>0, <3>1
    <2>3. CASE r \notin DOMAIN doc.rules
      <3>1. runtime'[r] = runtime[r] /\ lastRun'[r] = lastRun[r]
        BY <2>3 DEF Tick, RecordTick
      <3> QED BY <2>0, <3>1
    <2> QED BY <2>1, <2>2, <2>3
  <1>5. (startedAt <= now /\ uptime = now - startedAt)'
    BY <1>1 DEF IInv, Timeline
  <1> QED BY <1>1, <1>3, <1>4, <1>5 DEF Timeline

\* Every step keeps the timeline.
LEMMA TimelineStep == IInv /\ [Next]_vars => Timeline'
  <1> SUFFICES ASSUME IInv, [Next]_vars PROVE Timeline'
    OBVIOUS
  <1> USE DEF inputs, engine, history
  <1>0. /\ now \in Nat /\ startedAt \in Nat /\ uptime \in Nat
        /\ lastRun \in [Rules -> Instant] /\ runtime \in [Rules -> RuleRuntime]
    BY DEF IInv, TypeOK
  <1>1. CASE Tick
    BY <1>1, TickTimeline
  <1>2. ASSUME NEW v \in BalanceValues, BalanceMessage(v) PROVE Timeline'
    BY <1>2 DEF IInv, Timeline, BalanceMessage
  <1>3. ASSUME NEW t \in Topics, NEW p \in TopicPayloads, TopicMessage(t, p) PROVE Timeline'
    BY <1>3 DEF IInv, Timeline, TopicMessage
  <1>4. ASSUME NEW d \in Docs, Reload(d) PROVE Timeline'
    BY <1>4 DEF IInv, Timeline, Reload, RecordEdit
  <1>5. ASSUME NEW d \in Docs, Restart(d) PROVE Timeline'
    BY <1>0, <1>5 DEF IInv, Timeline, Restart, NewRuleRuntime, NewConditionRuntime
  <1>6. CASE Elapse
    <2>1. now' = now + 1 /\ uptime' = uptime + 1 /\ UNCHANGED <<startedAt, runtime, lastRun>>
      BY <1>6 DEF Elapse
    <2>2. \A r \in Rules : lastRun[r] \in Nat \cup {None}
      BY <1>0 DEF Instant
    <2>3. \A r \in Rules, i \in Positions : runtime[r].conditions[i].since \in Nat \cup {None}
      BY <1>0 DEF RuleRuntime, ConditionRuntime, Instant
    <2> QED BY <1>0, <2>1, <2>2, <2>3 DEF IInv, Timeline
  <1>7. CASE UNCHANGED vars
    BY <1>7 DEF IInv, Timeline, vars
  <1> QED BY <1>1, <1>2, <1>3, <1>4, <1>5, <1>6, <1>7 DEF Next

\* The invariant holds in every state that is reached.
LEMMA Invariance == Spec => []IInv
  <1>1. Init => IInv
    BY InitType, InitTimeline DEF IInv
  <1>2. IInv /\ [Next]_vars => IInv'
    BY TypeCorrect, TimelineStep DEF IInv
  <1> QED BY <1>1, <1>2, PTL DEF Spec

-----------------------------------------------------------------------------
(***************************************************************************)
(* What a step that runs a rule may assume.                                 *)
(***************************************************************************)
\* Only a tick runs a rule, and only one that fires.
LEMMA OnlyTicksRun ==
  ASSUME IInv, [Next]_vars, NEW r \in Rules, RunsNow(r)
  PROVE  Tick /\ r \in DOMAIN doc.rules /\ Fires(r)
  <1>1. CASE Tick
    BY <1>1 DEF Tick, RecordTick, RunsNow
  <1>2. ASSUME NEW v \in BalanceValues, BalanceMessage(v) PROVE FALSE
    BY <1>2 DEF BalanceMessage, RunsNow, engine
  <1>3. ASSUME NEW t \in Topics, NEW p \in TopicPayloads, TopicMessage(t, p) PROVE FALSE
    BY <1>3 DEF TopicMessage, RunsNow, engine
  <1>4. ASSUME NEW d \in Docs, Reload(d) PROVE FALSE
    BY <1>4 DEF Reload, RunsNow, engine
  <1>5. ASSUME NEW d \in Docs, Restart(d) PROVE FALSE
    BY <1>5 DEF Restart, RunsNow
  <1>6. CASE Elapse
    BY <1>6 DEF Elapse, RunsNow, engine
  <1>7. CASE UNCHANGED vars
    BY <1>7 DEF vars, RunsNow, engine
  <1> QED BY <1>1, <1>2, <1>3, <1>4, <1>5, <1>6, <1>7 DEF Next

\* A rule that fires outside an episode has settling and all its holds behind it,
\* and so has a repeat.
LEMMA FiresLate ==
  ASSUME IInv, NEW r \in DOMAIN doc.rules, Fires(r)
  PROVE  /\ now - startedAt >= doc.settings.settling_seconds
         /\ \A i \in DOMAIN Conds(r) : now - startedAt >= Conds(r)[i].hold
  <1>1. ~Settling /\ HeldLongEnough(r)
    BY Starts, Repeats DEF Fires, RepeatDue
  <1>2. doc.settings.settling_seconds \in Nat /\ now \in Nat /\ startedAt \in Nat
    BY DocumentRules DEF IInv, TypeOK, Settings
  <1>3. now - startedAt >= doc.settings.settling_seconds
    BY <1>1, <1>2 DEF Settling
  <1> QED BY <1>1, <1>3, HoldsWithinLife

-----------------------------------------------------------------------------
\* After a start the first trigger comes after max(hold_seconds, settling_seconds)
\* at the earliest, for every set of rules and every valid document.
THEOREM FirstTriggerProof == Spec => FirstTriggerNotEarly
  <1>1. ASSUME IInv, [Next]_vars, NEW r \in Rules, RunsNow(r)
        PROVE  /\ uptime >= doc.settings.settling_seconds
               /\ HoldsWithin(Conds(r), uptime)
    <2>1. r \in DOMAIN doc.rules /\ Fires(r)
      BY <1>1, OnlyTicksRun
    <2>2. \A i \in DOMAIN Conds(r) : Conds(r)[i].hold \in Nat
      BY <1>1, <2>1, DocumentConditions DEF IInv, TypeOK
    <2>3. doc.settings.settling_seconds \in Nat
      BY <1>1, <2>1, DocumentRules DEF IInv, TypeOK, Settings
    <2>4. uptime = now - startedAt /\ now \in Nat /\ startedAt \in Nat
      BY <1>1 DEF IInv, TypeOK, Timeline
    <2> QED BY <1>1, <2>1, <2>2, <2>3, <2>4, FiresLate DEF HoldsWithin
  <1>2. IInv /\ [Next]_vars => [\A r \in Rules : RunsNow(r) =>
            /\ uptime >= doc.settings.settling_seconds
            /\ HoldsWithin(Conds(r), uptime)]_vars
    BY <1>1
  <1> QED BY <1>2, Invariance, PTL DEF Spec, FirstTriggerNotEarly

\* A publishing rule never runs its chain twice within publish_min_interval_s, whatever
\* is edited, removed or restarted in between.
THEOREM PublishSpacingProof == Spec => PublishSpacing
  <1>1. ASSUME IInv, [Next]_vars, NEW r \in Rules, RunsNow(r),
               doc.rules[r].publishes, GuardedAcrossRestart(r), lastRun[r] # None
        PROVE  now - lastRun[r] >= doc.settings.publish_min_interval_s
    <2>1. r \in DOMAIN doc.rules /\ Fires(r) /\ Tick
      BY <1>1, OnlyTicksRun
    <2>2. /\ doc.settings \in Settings /\ doc.rules[r] \in Rule
          /\ KeepsMinInterval(doc.rules[r], doc.settings.publish_min_interval_s)
      BY <1>1, <2>1, DocumentRules DEF IInv, TypeOK
    <2>3. /\ doc.settings.publish_min_interval_s \in Nat
          /\ doc.settings.settling_seconds \in Nat
          /\ doc.rules[r].cooldown \in Nat /\ doc.rules[r].repeat \in Nat
      BY <2>2 DEF Settings, Rule
    <2>4. /\ now \in Nat /\ startedAt \in Nat /\ lastRun[r] \in Nat
      BY <1>1 DEF IInv, TypeOK, Instant
    <2>5. CASE runtime[r].last_fired_at = None
      <3>1. lastRun[r] <= startedAt
        BY <1>1, <2>5 DEF IInv, Timeline
      <3>2. ASSUME NEW i \in DOMAIN Conds(r), HasHoldSeconds(Conds(r)[i])
            PROVE  now - startedAt >= doc.settings.publish_min_interval_s
        <4>1. Conds(r)[i].hold >= doc.settings.publish_min_interval_s
          BY <1>1, <2>2, <3>2 DEF KeepsMinInterval, Conds
        <4>2. now - startedAt >= Conds(r)[i].hold
          BY <1>1, <2>1, FiresLate
        <4>3. Conds(r)[i].hold \in Nat
          BY <1>1, <2>1, DocumentConditions DEF IInv, TypeOK
        <4> QED BY <2>3, <2>4, <4>1, <4>2, <4>3
      <3>3. CASE doc.settings.settling_seconds >= doc.settings.publish_min_interval_s
        <4>1. now - startedAt >= doc.settings.settling_seconds
          BY <1>1, <2>1, FiresLate
        <4> QED BY <2>3, <2>4, <3>1, <3>3, <4>1
      <3> QED BY <1>1, <2>3, <2>4, <3>1, <3>2, <3>3 DEF GuardedAcrossRestart
    <2>6. CASE runtime[r].last_fired_at # None
      <3>1. lastRun[r] = runtime[r].last_fired_at
        BY <1>1, <2>6 DEF IInv, Timeline
      <3>2. CASE Verdict(r) = "start"
        <4>1. now - lastRun[r] >= doc.rules[r].cooldown
          BY <2>3, <2>4, <2>6, <3>1, <3>2, Starts DEF CoolingDown
        <4> QED BY <1>1, <2>2, <2>3, <2>4, <4>1 DEF KeepsMinInterval
      <3>3. CASE Verdict(r) = "repeat"
        <4>1. now - lastRun[r] >= doc.rules[r].repeat /\ doc.rules[r].repeat > 0
          BY <3>1, <3>3, Repeats DEF RepeatDue
        <4> QED BY <1>1, <2>2, <2>3, <2>4, <4>1 DEF KeepsMinInterval
      <3> QED BY <2>1, <3>2, <3>3 DEF Fires
    <2> QED BY <2>5, <2>6
  <1>2. IInv /\ [Next]_vars => [\A r \in Rules :
           /\ RunsNow(r)
           /\ doc.rules[r].publishes
           /\ GuardedAcrossRestart(r)
           /\ lastRun[r] # None
           => now - lastRun[r] >= doc.settings.publish_min_interval_s]_vars
    BY <1>1
  <1> QED BY <1>2, Invariance, PTL DEF Spec, PublishSpacing

-----------------------------------------------------------------------------
(***************************************************************************)
(* What the history of a rule says of its runtime.  The rule has to be in    *)
(* force: a rule that is switched off or removed keeps timers and latches    *)
(* that are no longer true, and whoever brings it back edits it.             *)
(***************************************************************************)
InForce(r) == r \in DOMAIN doc.rules /\ Enabled(r)

\* What is noted was noted by a tick of this process.
Noted ==
  /\ lastTick # None => lastTick <= now
  /\ \A r \in Rules :
       /\ metSince[r] # None => lastTick # None /\ metSince[r] <= lastTick
       /\ runtime[r].last_fired_at # None =>
            lastTick # None /\ runtime[r].last_fired_at <= lastTick
       /\ definedAt[r] # None => definedAt[r] <= now
       /\ \A i \in Positions :
            unmetAt[r][i] # None => lastTick # None /\ unmetAt[r][i] <= lastTick

\* A hold timer is younger than the last tick that found its condition unmet, or the
\* rule was edited since that tick.
TimersRestart ==
  \A r \in Rules : InForce(r) =>
    \A i \in DOMAIN Conds(r) :
      runtime[r].conditions[i].since # None /\ unmetAt[r][i] # None =>
        \/ unmetAt[r][i] < runtime[r].conditions[i].since
        \/ definedAt[r] # None /\ unmetAt[r][i] <= definedAt[r]

\* An episode ended on a tick with an unmet condition, or by an edit.
EpisodesEnd ==
  \A r \in Rules :
    InForce(r) /\ runtime[r].last_fired_at # None /\ ~runtime[r].fired_this_episode =>
      \/ definedAt[r] # None /\ definedAt[r] >= runtime[r].last_fired_at
      \/ \E i \in DOMAIN Conds(r) :
           unmetAt[r][i] # None /\ unmetAt[r][i] > runtime[r].last_fired_at

\* The latch of a rule nobody edited is on only after the threshold was crossed.
LatchesCross ==
  \A r \in Rules : InForce(r) /\ definedAt[r] = None =>
    \A i \in DOMAIN Conds(r) : runtime[r].conditions[i].latched => crossed[r][i]

\* Conditions met all the time have timers that run all the time.
MetRuns ==
  \A r \in Rules : metSince[r] # None =>
    /\ InForce(r)
    /\ \A i \in DOMAIN Conds(r) :
         /\ runtime[r].conditions[i].since # None
         /\ runtime[r].conditions[i].since <= metSince[r]

\* The episode of a rule nobody edited is the one its conditions are met in.
EpisodeIsMet ==
  \A r \in Rules : runtime[r].fired_this_episode /\ definedAt[r] = None =>
    /\ metSince[r] # None
    /\ lastRun[r] # None /\ lastRun[r] >= metSince[r]

HistoryInv ==
  Noted /\ TimersRestart /\ EpisodesEnd /\ LatchesCross /\ MetRuns /\ EpisodeIsMet

FullInv == IInv /\ HistoryInv /\ TriggerNotLost

\* A fresh process has noted nothing.
LEMMA InitHistory == Init => HistoryInv /\ TriggerNotLost
  <1> SUFFICES ASSUME Init PROVE HistoryInv /\ TriggerNotLost
    OBVIOUS
  <1>1. \A r \in Rules : /\ metSince[r] = None /\ lastRun[r] = None /\ definedAt[r] = None
                        /\ runtime[r].last_fired_at = None
                        /\ ~runtime[r].fired_this_episode
    BY DEF Init, NewRuleRuntime
  <1>2. \A r \in Rules, i \in Positions :
          /\ unmetAt[r][i] = None
          /\ runtime[r].conditions[i] = NewConditionRuntime
    BY DEF Init, NewRuleRuntime
  <1>3. \A r \in Rules : InForce(r) => DOMAIN Conds(r) \subseteq Positions
    BY DocumentConditions DEF Init, InForce
  <1>4. lastTick = None /\ now = 0
    BY DEF Init
  <1>5. Noted
    BY <1>1, <1>2, <1>4 DEF Noted
  <1>6. TimersRestart /\ EpisodesEnd /\ LatchesCross /\ MetRuns /\ EpisodeIsMet
    BY <1>1, <1>2, <1>3
    DEF TimersRestart, EpisodesEnd, LatchesCross, MetRuns, EpisodeIsMet, NewConditionRuntime
  <1>7. TriggerNotLost
    BY <1>4, SentinelAssumption DEF TriggerNotLost
  <1> QED BY <1>5, <1>6, <1>7 DEF HistoryInv

\* A step that touches neither rules nor their runtime keeps it all.
LEMMA QuietStep ==
  ASSUME FullInv, UNCHANGED <<doc, lastTick, runtime, results, history, definedAt>>,
         now' \in Nat, now <= now'
  PROVE  HistoryInv' /\ TriggerNotLost'
  <1> USE DEF history
  <1>1. /\ now \in Nat /\ lastTick \in Instant
        /\ definedAt \in [Rules -> Instant]
    BY DEF FullInv, IInv, TypeOK
  <1>2. Noted'
    BY <1>1 DEF FullInv, HistoryInv, Noted, Instant
  <1>3. TimersRestart' /\ EpisodesEnd' /\ LatchesCross' /\ MetRuns' /\ EpisodeIsMet'
    BY DEF FullInv, HistoryInv, TimersRestart, EpisodesEnd, LatchesCross, MetRuns,
           EpisodeIsMet, InForce, Enabled, Conds
  <1>4. TriggerNotLost'
    <2>1. CASE now' = now
      BY <2>1 DEF FullInv, TriggerNotLost, Conds
    <2>2. CASE now' # now
      <3>1. lastTick # now'
        BY <1>1, <2>2, SentinelAssumption DEF FullInv, HistoryInv, Noted, Instant
      <3> QED BY <3>1 DEF TriggerNotLost
    <2> QED BY <2>1, <2>2
  <1> QED BY <1>2, <1>3, <1>4 DEF HistoryInv

\* A new document keeps what is said of the rules it leaves as they were, and nothing
\* is said of the others.
LEMMA ReloadHistory ==
  ASSUME FullInv, NEW d \in Docs, Reload(d)
  PROVE  HistoryInv' /\ TriggerNotLost'
  <1> USE DEF engine
  <1>1. /\ now \in Nat /\ lastTick \in Instant /\ doc \in Docs
        /\ runtime \in [Rules -> RuleRuntime]
        /\ unmetAt \in [Rules -> [Positions -> Instant]]
        /\ definedAt \in [Rules -> Instant] /\ metSince \in [Rules -> Instant]
    BY DEF FullInv, IInv, TypeOK
  <1>2. /\ UNCHANGED <<now, lastTick, runtime, results, lastRun, unmetAt, crossed>>
        /\ doc' = d
        /\ definedAt' = [r \in Rules |-> IF Edited(r, d) THEN now ELSE definedAt[r]]
        /\ metSince' = [r \in Rules |-> IF Edited(r, d) THEN None ELSE metSince[r]]
    BY DEF Reload, RecordEdit
  <1>3. now # None
    BY <1>1, SentinelAssumption
  <1>4. ASSUME NEW r \in Rules, ~Edited(r, d)
        PROVE  /\ r \in DOMAIN d.rules <=> r \in DOMAIN doc.rules
               /\ r \in DOMAIN d.rules => d.rules[r] = doc.rules[r]
    BY <1>4 DEF Edited
  <1>5. Noted'
    <2>1. \A r \in Rules : metSince'[r] # None => metSince'[r] = metSince[r]
      BY <1>2
    <2>2. \A r \in Rules : definedAt'[r] # None => definedAt'[r] <= now
      BY <1>1, <1>2 DEF FullInv, HistoryInv, Noted
    <2> QED BY <1>2, <2>1, <2>2 DEF FullInv, HistoryInv, Noted
  <1>6. ASSUME NEW r \in Rules, Edited(r, d)
        PROVE  definedAt'[r] = now /\ metSince'[r] = None
    BY <1>2, <1>6
  <1>7. ASSUME NEW r \in Rules, ~Edited(r, d)
        PROVE  /\ definedAt'[r] = definedAt[r] /\ metSince'[r] = metSince[r]
               /\ InForce(r)' <=> InForce(r)
               /\ InForce(r) => Conds(r)' = Conds(r)
               /\ InForce(r) => doc'.rules[r] = doc.rules[r]
    BY <1>2, <1>4, <1>7 DEF InForce, Enabled, Conds
  <1>8. TimersRestart'
    <2> SUFFICES ASSUME NEW r \in Rules, InForce(r)', NEW i \in DOMAIN Conds(r)',
                        runtime[r].conditions[i].since # None, unmetAt[r][i] # None
                 PROVE  \/ unmetAt[r][i] < runtime[r].conditions[i].since
                        \/ definedAt'[r] # None /\ unmetAt[r][i] <= definedAt'[r]
      BY <1>2 DEF TimersRestart
    <2>1. CASE Edited(r, d)
      <3>1. i \in Positions
        BY <1>1, <1>2, ListType, DocsAssumption DEF InForce, IsDocument, Conds, Rule
      <3>2. unmetAt[r][i] <= now
        BY <1>1, <3>1 DEF FullInv, HistoryInv, Noted, Instant
      <3> QED BY <1>3, <1>6, <2>1, <3>2
    <2>2. CASE ~Edited(r, d)
      BY <1>7, <2>2 DEF FullInv, HistoryInv, TimersRestart
    <2> QED BY <2>1, <2>2
  <1>9. EpisodesEnd'
    <2> SUFFICES ASSUME NEW r \in Rules, InForce(r)', runtime[r].last_fired_at # None,
                        ~runtime[r].fired_this_episode
                 PROVE  \/ definedAt'[r] # None /\ definedAt'[r] >= runtime[r].last_fired_at
                        \/ \E i \in DOMAIN Conds(r)' :
                             unmetAt[r][i] # None /\ unmetAt[r][i] > runtime[r].last_fired_at
      BY <1>2 DEF EpisodesEnd
    <2>1. CASE Edited(r, d)
      <3>1. runtime[r].last_fired_at <= now /\ runtime[r].last_fired_at \in Nat
        BY <1>1 DEF FullInv, HistoryInv, Noted, RuleRuntime, Instant
      <3> QED BY <1>1, <1>3, <1>6, <2>1, <3>1
    <2>2. CASE ~Edited(r, d)
      BY <1>7, <2>2 DEF FullInv, HistoryInv, EpisodesEnd
    <2> QED BY <2>1, <2>2
  <1>10. LatchesCross' /\ MetRuns' /\ EpisodeIsMet'
    BY <1>2, <1>3, <1>6, <1>7
    DEF FullInv, HistoryInv, LatchesCross, MetRuns, EpisodeIsMet
  <1>11. TriggerNotLost'
    <2> SUFFICES ASSUME NEW r \in DOMAIN doc'.rules, lastTick = now, metSince'[r] # None,
                        results[r] # "settling", HoldsWithin(Conds(r), now - metSince[r])',
                        now - metSince'[r] >= doc'.rules[r].cooldown
                 PROVE  \/ lastRun[r] # None /\ lastRun[r] >= metSince'[r]
                        \/ definedAt'[r] # None /\ runtime[r].fired_this_episode
      BY <1>2 DEF TriggerNotLost
    <2>1. r \in Rules
      BY <1>2, DocsAssumption DEF IsDocument
    <2>2. ~Edited(r, d)
      BY <1>6, <2>1
    <2>3. metSince'[r] = metSince[r] /\ InForce(r)
      BY <1>7, <2>1, <2>2 DEF FullInv, HistoryInv, MetRuns
    <2>4. HoldsWithin(Conds(r), now - metSince[r])
      BY <1>2, <1>7, <2>1, <2>2, <2>3 DEF HoldsWithin
    <2>5. r \in DOMAIN doc.rules /\ doc'.rules[r] = doc.rules[r]
      BY <1>7, <2>1, <2>2, <2>3 DEF InForce
    <2>6. definedAt'[r] = definedAt[r]
      BY <1>7, <2>1, <2>2
    <2> QED BY <2>3, <2>4, <2>5, <2>6 DEF FullInv, TriggerNotLost
  <1> QED BY <1>5, <1>8, <1>9, <1>10, <1>11 DEF HistoryInv

\* A restart leaves what a fresh process starts with, whatever ran before.
LEMMA RestartHistory ==
  ASSUME FullInv, NEW d \in Docs, Restart(d)
  PROVE  HistoryInv' /\ TriggerNotLost'
  <1>1. \A r \in Rules : /\ metSince'[r] = None /\ definedAt'[r] = None
                         /\ runtime'[r].last_fired_at = None
                         /\ ~runtime'[r].fired_this_episode
    BY DEF Restart, NewRuleRuntime
  <1>2. \A r \in Rules, i \in Positions :
          /\ unmetAt'[r][i] = None
          /\ runtime'[r].conditions[i] = NewConditionRuntime
    BY DEF Restart, NewRuleRuntime
  <1>3. \A r \in Rules : InForce(r)' => DOMAIN Conds(r)' \subseteq Positions
    BY ListType, DocsAssumption DEF Restart, InForce, IsDocument, Conds, Rule
  <1>4. lastTick' = None /\ now' = now /\ now \in Nat
    BY DEF Restart, FullInv, IInv, TypeOK
  <1>5. Noted'
    BY <1>1, <1>2, <1>4 DEF Noted
  <1>6. TimersRestart' /\ EpisodesEnd' /\ LatchesCross' /\ MetRuns' /\ EpisodeIsMet'
    BY <1>1, <1>2, <1>3
    DEF TimersRestart, EpisodesEnd, LatchesCross, MetRuns, EpisodeIsMet, NewConditionRuntime
  <1>7. TriggerNotLost'
    BY <1>4, SentinelAssumption DEF TriggerNotLost
  <1> QED BY <1>5, <1>6, <1>7 DEF HistoryInv

-----------------------------------------------------------------------------
(***************************************************************************)
(* What a tick makes of a rule in force.                                    *)
(***************************************************************************)
\* A latch that is on afterwards is one whose value is past the threshold, or was and
\* has not fallen out of the band.
LEMMA LatchedCrosses ==
  ASSUME NEW c \in Condition, NEW crt, NEW w, w.balance \in Int \cup {None, NoField},
         HysteresisApplies(c, w), Latched(c, crt, w)
  PROVE  RawMet(c, w) \/ (crt.latched /\ ~FellOut(c, w.balance))
  <1>1. w.balance \in Int
    BY DEF HysteresisApplies
  <1>2. c \in BalanceThreshold
    BY DEF HysteresisApplies, Condition, BalanceThreshold, TopicValue, TopicStale, TimeWindow
  <1>3. c.threshold \in Int /\ c.hysteresis \in Nat /\ c.comparison \in Comparisons
    BY <1>2 DEF BalanceThreshold
  <1>4. CASE crt.latched
    BY <1>1, <1>3, <1>4 DEF Latched, StaysOn, FellOut, Comparisons
  <1>5. CASE ~crt.latched
    BY <1>2, <1>5 DEF Latched, RawMet, HysteresisApplies
  <1> QED BY <1>4, <1>5

\* How a tick leaves a rule in force: each condition is evaluated and noted.
LEMMA TickOfRule ==
  ASSUME IInv, Tick, NEW r \in Rules, InForce(r), NEW i \in DOMAIN Conds(r),
         NEW c, c = Conds(r)[i], NEW crt, crt = runtime[r].conditions[i]
  PROVE  /\ i \in Positions /\ c \in Condition /\ crt \in ConditionRuntime
         /\ ~Met(c, crt, World) =>
              runtime'[r].conditions[i].since = None /\ unmetAt'[r][i] = now
         /\ Met(c, crt, World) =>
              /\ crt.since = None => runtime'[r].conditions[i].since = now
              /\ crt.since # None => runtime'[r].conditions[i].since = crt.since
              /\ unmetAt'[r][i] = unmetAt[r][i]
         /\ (runtime'[r].conditions[i].latched <=> Latched(c, crt, World))
         /\ HysteresisApplies(c, World) =>
              (crossed'[r][i] <=> \/ RawMet(c, World)
                                  \/ crossed[r][i] /\ ~FellOut(c, World.balance))
         /\ ~HysteresisApplies(c, World) => (crossed'[r][i] <=> crossed[r][i])
  <1>1. i \in Positions /\ c \in Condition /\ r \in DOMAIN doc.rules
    BY DocumentConditions DEF InForce, IInv, TypeOK
  <1>2. crt \in ConditionRuntime
    BY <1>1 DEF IInv, TypeOK, RuleRuntime
  <1>3. runtime'[r].conditions[i] = EvaluateOne(c, crt, World)
    BY <1>1 DEF Tick, NextRuntime, InForce, EvaluateAll, CondRuntimes
  <1>4. World.now = now
    BY DEF World
  <1>5. /\ ~Met(c, crt, World) => runtime'[r].conditions[i].since = None
        /\ Met(c, crt, World) => runtime'[r].conditions[i].since =
                                   IF crt.since = None THEN now ELSE crt.since
        /\ (runtime'[r].conditions[i].latched <=> Latched(c, crt, World))
    BY <1>3, <1>4 DEF EvaluateOne, Since
  <1>6. unmetAt'[r][i] = IF Met(c, crt, World) THEN unmetAt[r][i] ELSE now
    BY <1>1 DEF Tick, RecordTick, MetNow, CondRuntimes
  <1>7. crossed'[r][i] = IF HysteresisApplies(c, World)
                         THEN \/ RawMet(c, World)
                              \/ crossed[r][i] /\ ~FellOut(c, World.balance)
                         ELSE crossed[r][i]
    BY <1>1 DEF Tick, RecordTick
  <1> QED BY <1>1, <1>2, <1>5, <1>6, <1>7

\* The rest of a tick, for every rule of the document.
LEMMA TickOfEpisode ==
  ASSUME IInv, Tick, NEW r \in Rules
  PROVE  /\ InForce(r) =>
              /\ runtime'[r].fired_this_episode = (Fires(r) \/ InEpisode(r))
              /\ runtime'[r].last_fired_at = IF Fires(r) THEN now ELSE runtime[r].last_fired_at
              /\ lastRun'[r] = IF Fires(r) THEN now ELSE lastRun[r]
         /\ ~InForce(r) =>
              /\ runtime'[r].fired_this_episode => runtime[r].fired_this_episode
                                                /\ r \notin DOMAIN doc.rules
              /\ runtime'[r].last_fired_at = runtime[r].last_fired_at
              /\ lastRun'[r] = lastRun[r]
         /\ metSince'[r] = IF ~(InForce(r) /\ AllRaw(r)) THEN None
                           ELSE IF metSince[r] = None THEN now ELSE metSince[r]
  <1>1. metSince'[r] = IF ~(InForce(r) /\ AllRaw(r)) THEN None
                       ELSE IF metSince[r] = None THEN now ELSE metSince[r]
    BY DEF Tick, RecordTick, InForce
  <1>2. ASSUME InForce(r)
        PROVE  /\ runtime'[r].fired_this_episode = (Fires(r) \/ InEpisode(r))
               /\ runtime'[r].last_fired_at = IF Fires(r) THEN now ELSE runtime[r].last_fired_at
               /\ lastRun'[r] = IF Fires(r) THEN now ELSE lastRun[r]
    <2>1. r \in DOMAIN doc.rules /\ Enabled(r)
      BY <1>2 DEF InForce
    <2>2. runtime'[r] = NextRuntime(r)
      BY <2>1 DEF Tick
    <2>3. (Enabled(r) /\ (Fires(r) \/ InEpisode(r))) = (Fires(r) \/ InEpisode(r))
      BY <2>1
    <2>4. NextRuntime(r).fired_this_episode = (Fires(r) \/ InEpisode(r))
      BY <2>3 DEF NextRuntime
    <2>5. NextRuntime(r).last_fired_at = IF Fires(r) THEN now ELSE runtime[r].last_fired_at
      BY DEF NextRuntime
    <2>6. lastRun'[r] = IF Fires(r) THEN now ELSE lastRun[r]
      BY <2>1 DEF Tick, RecordTick
    <2> QED BY <2>2, <2>4, <2>5, <2>6
  <1>3. ASSUME ~InForce(r)
        PROVE  /\ runtime'[r].fired_this_episode => runtime[r].fired_this_episode
                                                 /\ r \notin DOMAIN doc.rules
               /\ runtime'[r].last_fired_at = runtime[r].last_fired_at
               /\ lastRun'[r] = lastRun[r]
    <2>1. CASE r \notin DOMAIN doc.rules
      BY <2>1 DEF Tick, RecordTick
    <2>2. CASE r \in DOMAIN doc.rules
      <3>1. ~Enabled(r) /\ ~Fires(r)
        BY <1>3, <2>2 DEF InForce, Fires, Verdict
      <3>2. runtime'[r] = NextRuntime(r) /\ lastRun'[r] = lastRun[r]
        BY <2>2, <3>1 DEF Tick, RecordTick
      <3>3. NextRuntime(r).last_fired_at = runtime[r].last_fired_at
        BY <3>1 DEF NextRuntime
      <3>4. ~NextRuntime(r).fired_this_episode
        BY <3>1 DEF NextRuntime
      <3> QED BY <3>2, <3>3, <3>4
    <2> QED BY <2>1, <2>2
  <1> QED BY <1>1, <1>2, <1>3

\* A tick leaves the documents and what was edited as they are, and its time is new.
LEMMA TickKeeps ==
  ASSUME FullInv, Tick
  PROVE  /\ UNCHANGED <<doc, now, definedAt, startedAt>> /\ lastTick' = now
         /\ now \in Nat /\ now # None
         /\ lastTick # None => lastTick \in Nat /\ lastTick < now
         /\ \A r : (InForce(r)' <=> InForce(r)) /\ Conds(r)' = Conds(r)
         /\ \A r \in Rules : /\ lastRun[r] \in Instant /\ metSince[r] \in Instant
                             /\ definedAt[r] \in Instant
                             /\ runtime[r].last_fired_at \in Instant
         /\ \A r \in Rules, i \in Positions :
              unmetAt[r][i] \in Instant /\ runtime[r].conditions[i].since \in Instant
  <1>1. UNCHANGED <<doc, now, definedAt, startedAt>> /\ lastTick' = now
        /\ (lastTick # None => lastTick < now)
    BY DEF Tick
  <1>2. now \in Nat /\ now # None /\ lastTick \in Instant
    BY SentinelAssumption DEF FullInv, IInv, TypeOK
  <1>3. \A r : (InForce(r)' <=> InForce(r)) /\ Conds(r)' = Conds(r)
    BY <1>1 DEF InForce, Enabled, Conds
  <1>4. \A r \in Rules : /\ lastRun[r] \in Instant /\ metSince[r] \in Instant
                         /\ definedAt[r] \in Instant
                         /\ runtime[r].last_fired_at \in Instant
    BY DEF FullInv, IInv, TypeOK, RuleRuntime
  <1>5. \A r \in Rules, i \in Positions :
          unmetAt[r][i] \in Instant /\ runtime[r].conditions[i].since \in Instant
    BY DEF FullInv, IInv, TypeOK, RuleRuntime, ConditionRuntime
  <1> QED BY <1>1, <1>2, <1>3, <1>4, <1>5 DEF Instant

\* What a tick notes is at most its own time.
LEMMA TickNoted ==
  ASSUME FullInv, Tick
  PROVE  Noted'
  <1>1. FullInv /\ Noted
    BY DEF FullInv, HistoryInv
  <1>2. \A r \in Rules : metSince'[r] # None => metSince'[r] <= now
    BY <1>1, TickKeeps DEF Tick, RecordTick, Noted, Instant
  <1>3. \A r \in Rules : runtime'[r].last_fired_at # None => runtime'[r].last_fired_at <= now
    <2> SUFFICES ASSUME NEW r \in Rules, runtime'[r].last_fired_at # None
                 PROVE  runtime'[r].last_fired_at <= now
      OBVIOUS
    <2>1. runtime'[r].last_fired_at \in {now, runtime[r].last_fired_at}
      BY TickOfEpisode DEF FullInv
    <2>2. runtime[r].last_fired_at # None => runtime[r].last_fired_at <= now
      BY <1>1, TickKeeps DEF Noted, Instant
    <2> QED BY <2>1, <2>2, TickKeeps
  <1>4. \A r \in Rules, i \in Positions : unmetAt'[r][i] # None => unmetAt'[r][i] <= now
    <2> SUFFICES ASSUME NEW r \in Rules, NEW i \in Positions, unmetAt'[r][i] # None
                 PROVE  unmetAt'[r][i] <= now
      OBVIOUS
    <2>1. unmetAt'[r][i] \in {now, unmetAt[r][i]}
      BY DEF Tick, RecordTick
    <2>2. unmetAt[r][i] # None => unmetAt[r][i] <= now
      BY <1>1, TickKeeps DEF Noted, Instant
    <2> QED BY <2>1, <2>2, TickKeeps
  <1> QED BY <1>1, <1>2, <1>3, <1>4, TickKeeps DEF Noted

\* A condition a tick finds unmet has no timer any more; one it finds met keeps its
\* timer or starts it now, after every tick that found it unmet.
LEMMA TickTimers ==
  ASSUME FullInv, Tick
  PROVE  TimersRestart'
  <1> SUFFICES ASSUME NEW r \in Rules, InForce(r), NEW i \in DOMAIN Conds(r),
                      runtime'[r].conditions[i].since # None, unmetAt'[r][i] # None
               PROVE  \/ unmetAt'[r][i] < runtime'[r].conditions[i].since
                      \/ definedAt[r] # None /\ unmetAt'[r][i] <= definedAt[r]
    BY TickKeeps DEF TimersRestart
  <1>0. PICK c, crt : c = Conds(r)[i] /\ crt = runtime[r].conditions[i]
    OBVIOUS
  <1>1. i \in Positions
    BY <1>0, TickOfRule DEF FullInv
  <1>2. Met(c, crt, World)
    BY <1>0, TickOfRule DEF FullInv
  <1>3. /\ crt.since = None => runtime'[r].conditions[i].since = now
        /\ crt.since # None => runtime'[r].conditions[i].since = crt.since
    BY <1>0, <1>2, TickOfRule DEF FullInv
  <1>4. unmetAt'[r][i] = unmetAt[r][i]
    BY <1>0, <1>2, TickOfRule DEF FullInv
  <1>5. CASE crt.since = None
    <2>1. unmetAt[r][i] < now
      BY <1>1, <1>4, TickKeeps DEF FullInv, HistoryInv, Noted, Instant
    <2> QED BY <1>3, <1>4, <1>5, <2>1
  <1>6. CASE crt.since # None
    BY <1>0, <1>3, <1>4, <1>6 DEF FullInv, HistoryInv, TimersRestart
  <1> QED BY <1>5, <1>6

\* A tick ends an episode only when it finds a condition unmet.
LEMMA TickEpisodes ==
  ASSUME FullInv, Tick
  PROVE  EpisodesEnd'
  <1> SUFFICES ASSUME NEW r \in Rules, InForce(r), runtime'[r].last_fired_at # None,
                      ~runtime'[r].fired_this_episode
               PROVE  \/ definedAt[r] # None /\ definedAt[r] >= runtime'[r].last_fired_at
                      \/ \E i \in DOMAIN Conds(r) :
                           unmetAt'[r][i] # None /\ unmetAt'[r][i] > runtime'[r].last_fired_at
    BY TickKeeps DEF EpisodesEnd
  <1>1. /\ ~Fires(r) /\ ~InEpisode(r)
        /\ runtime'[r].last_fired_at = runtime[r].last_fired_at
    BY TickOfEpisode DEF FullInv
  <1>2. runtime[r].last_fired_at \in Nat /\ runtime[r].last_fired_at < now
    BY <1>1, TickKeeps DEF FullInv, HistoryInv, Noted, Instant
  <1>3. CASE runtime[r].fired_this_episode
    <2>1. PICK i \in DOMAIN Conds(r) : ~Met(Conds(r)[i], runtime[r].conditions[i], World)
      BY <1>1, <1>3 DEF InEpisode, AllRaw, AllMet, CondRuntimes
    <2>2. unmetAt'[r][i] = now
      BY <2>1, TickOfRule DEF FullInv
    <2> QED BY <1>1, <1>2, <2>2, TickKeeps
  <1>4. CASE ~runtime[r].fired_this_episode
    <2>1. CASE definedAt[r] # None /\ definedAt[r] >= runtime[r].last_fired_at
      BY <1>1, <2>1
    <2>2. CASE \E i \in DOMAIN Conds(r) :
                 unmetAt[r][i] # None /\ unmetAt[r][i] > runtime[r].last_fired_at
      <3>1. PICK i \in DOMAIN Conds(r) :
              unmetAt[r][i] # None /\ unmetAt[r][i] > runtime[r].last_fired_at
        BY <2>2
      <3>2. unmetAt'[r][i] \in {unmetAt[r][i], now}
        BY TickOfRule DEF FullInv
      <3> QED BY <1>1, <1>2, <3>1, <3>2, TickKeeps
    <2>3. \/ definedAt[r] # None /\ definedAt[r] >= runtime[r].last_fired_at
          \/ \E i \in DOMAIN Conds(r) :
               unmetAt[r][i] # None /\ unmetAt[r][i] > runtime[r].last_fired_at
      BY <1>1, <1>4 DEF FullInv, HistoryInv, EpisodesEnd
    <2> QED BY <2>1, <2>2, <2>3
  <1> QED BY <1>3, <1>4

\* The balance a tick evaluates is a number, or none.
LEMMA WorldBalance ==
  ASSUME TypeOK
  PROVE  World.balance \in Int \cup {None, NoField}
  BY InputAssumption DEF TypeOK, World

\* The latch a tick turns on or leaves on is one that crossed.
LEMMA TickLatches ==
  ASSUME FullInv, Tick
  PROVE  LatchesCross'
  <1> SUFFICES ASSUME NEW r \in Rules, InForce(r), definedAt[r] = None,
                      NEW i \in DOMAIN Conds(r), runtime'[r].conditions[i].latched
               PROVE  crossed'[r][i]
    BY TickKeeps DEF LatchesCross
  <1>0. PICK c, crt : c = Conds(r)[i] /\ crt = runtime[r].conditions[i]
    OBVIOUS
  <1>1. /\ c \in Condition
        /\ HysteresisApplies(c, World) =>
             (crossed'[r][i] <=> \/ RawMet(c, World)
                                 \/ crossed[r][i] /\ ~FellOut(c, World.balance))
        /\ ~HysteresisApplies(c, World) => (crossed'[r][i] <=> crossed[r][i])
    BY <1>0, TickOfRule DEF FullInv
  <1>2. crt.latched => crossed[r][i]
    BY <1>0 DEF FullInv, HistoryInv, LatchesCross
  <1>3. Latched(c, crt, World)
    BY <1>0, TickOfRule DEF FullInv
  <1>4. CASE HysteresisApplies(c, World)
    <2>1. RawMet(c, World) \/ (crt.latched /\ ~FellOut(c, World.balance))
      BY <1>1, <1>4, <1>3, LatchedCrosses, WorldBalance DEF FullInv, IInv
    <2> QED BY <1>1, <1>2, <1>4, <2>1
  <1>5. CASE ~HysteresisApplies(c, World)
    <2>1. crt.latched
      BY <1>5, <1>3 DEF Latched
    <2> QED BY <1>1, <1>2, <1>5, <2>1
  <1> QED BY <1>4, <1>5

\* With every condition met, every timer runs, and for no shorter than that.
LEMMA TickMetRuns ==
  ASSUME FullInv, Tick
  PROVE  MetRuns'
  <1> SUFFICES ASSUME NEW r \in Rules, metSince'[r] # None
               PROVE  /\ InForce(r)
                      /\ \A i \in DOMAIN Conds(r) :
                           /\ runtime'[r].conditions[i].since # None
                           /\ runtime'[r].conditions[i].since <= metSince'[r]
    BY TickKeeps DEF MetRuns
  <1>1. /\ InForce(r) /\ AllRaw(r)
        /\ metSince'[r] = IF metSince[r] = None THEN now ELSE metSince[r]
    BY TickOfEpisode DEF FullInv
  <1>2. ASSUME NEW i \in DOMAIN Conds(r)
        PROVE  /\ runtime'[r].conditions[i].since # None
               /\ runtime'[r].conditions[i].since <= metSince'[r]
    <2>0. PICK c, crt : c = Conds(r)[i] /\ crt = runtime[r].conditions[i]
      OBVIOUS
    <2>1. i \in Positions /\ Met(c, crt, World)
      BY <1>1, <2>0, TickOfRule DEF FullInv, AllRaw, AllMet, CondRuntimes
    <2>2. /\ crt.since = None => runtime'[r].conditions[i].since = now
          /\ crt.since # None => runtime'[r].conditions[i].since = crt.since
      BY <1>1, <2>0, <2>1, TickOfRule DEF FullInv
    <2>3. CASE metSince[r] = None
      <3>1. crt.since # None => crt.since <= now
        BY <2>0, <2>1 DEF FullInv, IInv, Timeline
      <3> QED BY <1>1, <2>2, <2>3, <3>1, TickKeeps
    <2>4. CASE metSince[r] # None
      <3>1. crt.since # None /\ crt.since <= metSince[r]
        BY <2>0, <2>4 DEF FullInv, HistoryInv, MetRuns
      <3> QED BY <1>1, <2>2, <2>4, <3>1
    <2> QED BY <2>3, <2>4
  <1> QED BY <1>1, <1>2

\* Whoever fires has all its conditions met.
LEMMA FiresMet ==
  ASSUME NEW r, Fires(r)
  PROVE  AllRaw(r)
  BY DEF Fires, Verdict

\* A tick starts or keeps an episode only of a rule whose conditions it finds met.
LEMMA TickEpisodeIsMet ==
  ASSUME FullInv, Tick
  PROVE  EpisodeIsMet'
  <1> SUFFICES ASSUME NEW r \in Rules, runtime'[r].fired_this_episode, definedAt[r] = None
               PROVE  /\ metSince'[r] # None
                      /\ lastRun'[r] # None /\ lastRun'[r] >= metSince'[r]
    BY TickKeeps DEF EpisodeIsMet
  <1>1. runtime[r].fired_this_episode =>
          /\ metSince[r] # None
          /\ lastRun[r] # None /\ lastRun[r] >= metSince[r]
    BY DEF FullInv, HistoryInv, EpisodeIsMet
  <1>2. InForce(r)
    <2> SUFFICES ASSUME ~InForce(r) PROVE FALSE
      OBVIOUS
    <2>1. runtime[r].fired_this_episode
      BY TickOfEpisode DEF FullInv
    <2> QED BY <1>1, <2>1 DEF FullInv, HistoryInv, MetRuns
  <1>3. Fires(r) \/ InEpisode(r)
    BY <1>2, TickOfEpisode DEF FullInv
  <1>4. AllRaw(r)
    BY <1>3, FiresMet DEF InEpisode
  <1>5. metSince'[r] = IF metSince[r] = None THEN now ELSE metSince[r]
    BY <1>2, <1>4, TickOfEpisode DEF FullInv
  <1>6. CASE Fires(r)
    <2>1. lastRun'[r] = now
      BY <1>2, <1>6, TickOfEpisode DEF FullInv
    <2>2. metSince[r] # None => metSince[r] <= now
      BY TickKeeps DEF FullInv, HistoryInv, Noted, Instant
    <2> QED BY <1>5, <2>1, <2>2, TickKeeps
  <1>7. CASE ~Fires(r)
    <2>1. lastRun'[r] = lastRun[r] /\ runtime[r].fired_this_episode
      BY <1>2, <1>3, <1>7, TickOfEpisode DEF FullInv, InEpisode
    <2> QED BY <1>1, <1>5, <2>1
  <1> QED BY <1>6, <1>7

\* A tick that leaves a rule waiting leaves it in cooldown or with a hold unfinished:
\* neither lasts longer than the conditions are met.
LEMMA TickTrigger ==
  ASSUME FullInv, Tick
  PROVE  TriggerNotLost'
  <1> SUFFICES ASSUME NEW r \in DOMAIN doc.rules, metSince'[r] # None,
                      results'[r] # "settling",
                      HoldsWithin(Conds(r), now - metSince'[r]),
                      now - metSince'[r] >= doc.rules[r].cooldown
               PROVE  \/ lastRun'[r] # None /\ lastRun'[r] >= metSince'[r]
                      \/ definedAt[r] # None /\ runtime'[r].fired_this_episode
    BY TickKeeps DEF TriggerNotLost, HoldsWithin
  <1>0. r \in Rules /\ doc \in Docs /\ doc.rules[r].cooldown \in Nat
    BY DocumentRules DEF FullInv, IInv, TypeOK, Rule
  <1>1. /\ InForce(r) /\ AllRaw(r)
        /\ metSince'[r] \in {now, metSince[r]}
    BY <1>0, TickOfEpisode DEF FullInv
  <1>2. metSince'[r] \in Nat /\ metSince'[r] <= now
    BY <1>0, <1>1, TickKeeps DEF FullInv, HistoryInv, Noted, Instant
  <1>3. CASE Fires(r)
    BY <1>0, <1>1, <1>2, <1>3, TickOfEpisode, TickKeeps DEF FullInv
  <1>4. CASE ~Fires(r) /\ InEpisode(r)
    <2>1. runtime'[r].fired_this_episode
      BY <1>0, <1>1, <1>4, TickOfEpisode DEF FullInv
    <2> QED BY <1>0, <2>1, TickEpisodeIsMet, TickKeeps DEF EpisodeIsMet
  <1>5. CASE ~Fires(r) /\ ~InEpisode(r)
    <2>1. Verdict(r) # "settling"
      BY <1>0, <1>5 DEF Tick
    <2>2. ~SawStale(Conds(r), World)
      BY <1>1, StaleIsUnmet DEF SawStale, AllRaw, AllMet
    <2>3. CoolingDown(r) \/ ~HeldLongEnough(r)
      BY <1>1, <1>5, <2>1, <2>2 DEF InForce, Fires, Verdict
    <2>4. CASE CoolingDown(r)
      <3>1. runtime[r].last_fired_at \in Nat /\ runtime[r].last_fired_at # None
        BY <1>0, <2>4, TickKeeps DEF CoolingDown, Instant
      <3>2. now - runtime[r].last_fired_at < doc.rules[r].cooldown
        BY <2>4 DEF CoolingDown
      <3>3. lastRun'[r] = runtime[r].last_fired_at
        BY <1>0, <1>1, <1>5, <3>1, TickOfEpisode DEF FullInv, IInv, Timeline
      <3> QED BY <1>0, <1>2, <3>1, <3>2, <3>3, TickKeeps
    <2>5. CASE ~HeldLongEnough(r)
      <3>1. PICK i \in DOMAIN Conds(r) : ~Held(Conds(r)[i], runtime[r].conditions[i], World)
        BY <2>5 DEF HeldLongEnough, AllHeld, CondRuntimes
      <3>2. PICK c, crt : c = Conds(r)[i] /\ crt = runtime[r].conditions[i]
        OBVIOUS
      <3>3. Met(c, crt, World) /\ i \in Positions
        BY <1>0, <1>1, <3>2, TickOfRule DEF AllRaw, AllMet, CondRuntimes, FullInv
      <3>4. now - Since(c, crt, World) < c.hold
        <4>1. Since(c, crt, World) \in Nat
          BY <1>0, <3>2, <3>3, TickKeeps DEF Since, World, Instant
        <4>2. c.hold \in Nat
          BY <1>0, <3>2, DocumentConditions
        <4> QED BY <3>1, <3>2, <3>3, <4>1, <4>2, TickKeeps DEF Held, World
      <3>5. runtime'[r].conditions[i].since = Since(c, crt, World)
        BY <1>0, <1>1, <3>2, <3>3, TickOfRule DEF Since, World, FullInv
      <3>6. runtime'[r].conditions[i].since <= metSince'[r]
            /\ runtime'[r].conditions[i].since # None
        BY <1>0, TickMetRuns, TickKeeps DEF MetRuns
      <3>7. runtime'[r].conditions[i].since \in Nat
        BY <1>0, <3>2, <3>3, <3>5, TickKeeps DEF Since, World, Instant
      <3>8. c.hold \in Nat /\ c.hold <= now - metSince'[r]
        BY <1>0, <3>2, DocumentConditions DEF HoldsWithin
      <3> QED BY <1>2, <3>4, <3>5, <3>6, <3>7, <3>8, TickKeeps
    <2> QED BY <2>3, <2>4, <2>5
  <1> QED BY <1>3, <1>4, <1>5

\* Every step keeps what the history says.
LEMMA HistoryStep == FullInv /\ [Next]_vars => HistoryInv' /\ TriggerNotLost'
  <1> SUFFICES ASSUME FullInv, [Next]_vars PROVE HistoryInv' /\ TriggerNotLost'
    OBVIOUS
  <1>0. now \in Nat
    BY DEF FullInv, IInv, TypeOK
  <1>1. CASE Tick
    BY <1>1, TickNoted, TickTimers, TickEpisodes, TickLatches, TickMetRuns,
       TickEpisodeIsMet, TickTrigger DEF HistoryInv
  <1>2. ASSUME NEW v \in BalanceValues, BalanceMessage(v) PROVE HistoryInv' /\ TriggerNotLost'
    BY <1>0, <1>2, QuietStep DEF BalanceMessage, engine, history
  <1>3. ASSUME NEW t \in Topics, NEW p \in TopicPayloads, TopicMessage(t, p)
        PROVE  HistoryInv' /\ TriggerNotLost'
    BY <1>0, <1>3, QuietStep DEF TopicMessage, engine, history
  <1>4. ASSUME NEW d \in Docs, Reload(d) PROVE HistoryInv' /\ TriggerNotLost'
    BY <1>4, ReloadHistory
  <1>5. ASSUME NEW d \in Docs, Restart(d) PROVE HistoryInv' /\ TriggerNotLost'
    BY <1>5, RestartHistory
  <1>6. CASE Elapse
    BY <1>0, <1>6, QuietStep DEF Elapse, engine, history
  <1>7. CASE UNCHANGED vars
    BY <1>0, <1>7, QuietStep DEF vars, engine, history
  <1> QED BY <1>1, <1>2, <1>3, <1>4, <1>5, <1>6, <1>7 DEF Next

\* The full invariant holds in every state that is reached.
LEMMA FullInvariance == Spec => []FullInv
  <1>1. Init => FullInv
    BY InitType, InitTimeline, InitHistory DEF FullInv, IInv
  <1>2. FullInv /\ [Next]_vars => FullInv'
    BY TypeCorrect, TimelineStep, HistoryStep DEF FullInv, IInv
  <1> QED BY <1>1, <1>2, PTL DEF Spec

-----------------------------------------------------------------------------
(***************************************************************************)
(* What follows for the rules.                                              *)
(***************************************************************************)
\* No trigger is lost: a rule whose conditions were met on every tick of its longest
\* hold and of its cooldown has run since they are met.
THEOREM TriggerNotLostProof == Spec => []TriggerNotLost
  <1>1. FullInv => TriggerNotLost
    BY DEF FullInv
  <1> QED BY <1>1, FullInvariance, PTL

\* A chain runs only on a tick, of a rule of the document that fires.
LEMMA RunsFire ==
  ASSUME FullInv, [Next]_vars, NEW r \in Rules, RunsNow(r)
  PROVE  /\ Tick /\ InForce(r) /\ Fires(r) /\ AllRaw(r)
         /\ ran'[r] = Verdict(r)
  <1>1. Tick /\ r \in DOMAIN doc.rules /\ Fires(r)
    BY OnlyTicksRun DEF FullInv
  <1>2. ran'[r] = Verdict(r)
    BY <1>1 DEF Tick, RecordTick
  <1>3. AllRaw(r) /\ Enabled(r)
    BY <1>1, FiresMet DEF Fires, Verdict
  <1> QED BY <1>1, <1>2, <1>3 DEF InForce

\* Whoever starts or repeats has held every condition for its hold time, and no tick of
\* that time found one of them unmet unless the rule was edited meanwhile.
THEOREM HoldProof == Spec => HoldIsUnbroken
  <1>1. ASSUME FullInv, [Next]_vars
        PROVE  \A r \in Rules : RunsNow(r) =>
                 \A i \in DOMAIN Conds(r) :
                   \/ unmetAt[r][i] = None
                   \/ now - unmetAt[r][i] > Conds(r)[i].hold
                   \/ definedAt[r] # None /\ now - definedAt[r] <= Conds(r)[i].hold
    <2> SUFFICES ASSUME NEW r \in Rules, RunsNow(r), NEW i \in DOMAIN Conds(r),
                        unmetAt[r][i] # None
                 PROVE  \/ now - unmetAt[r][i] > Conds(r)[i].hold
                        \/ definedAt[r] # None /\ now - definedAt[r] <= Conds(r)[i].hold
      BY <1>1
    <2>1. Tick /\ InForce(r) /\ Fires(r) /\ AllRaw(r)
      BY <1>1, RunsFire
    <2>2. PICK c, crt : c = Conds(r)[i] /\ crt = runtime[r].conditions[i]
      OBVIOUS
    <2>3. HeldLongEnough(r)
      BY <2>1 DEF Fires, Verdict, RepeatDue
    <2>4. Met(c, crt, World) /\ now - Since(c, crt, World) >= c.hold
      BY <2>2, <2>3 DEF HeldLongEnough, AllHeld, Held, CondRuntimes, World
    <2>5. i \in Positions /\ c.hold \in Nat
      BY <1>1, <2>1, <2>2, DocumentConditions DEF InForce, FullInv, IInv, TypeOK
    <2>6. unmetAt[r][i] \in Nat /\ unmetAt[r][i] < now
      BY <1>1, <2>1, <2>5, TickKeeps DEF FullInv, HistoryInv, Noted, Instant
    <2>7. CASE crt.since = None
      <3>1. Since(c, crt, World) = now
        BY <2>4, <2>7 DEF Since, World
      <3> QED BY <1>1, <2>1, <2>2, <2>4, <2>5, <2>6, <3>1, TickKeeps
    <2>8. CASE crt.since # None
      <3>1. Since(c, crt, World) = crt.since /\ crt.since \in Nat
        BY <1>1, <2>1, <2>2, <2>4, <2>5, <2>8, TickKeeps DEF Since, Instant
      <3>2. \/ unmetAt[r][i] < crt.since
            \/ definedAt[r] # None /\ unmetAt[r][i] <= definedAt[r]
        BY <1>1, <2>1, <2>2, <2>8 DEF FullInv, HistoryInv, TimersRestart
      <3>3. definedAt[r] # None => definedAt[r] \in Nat
        BY <1>1, <2>1, TickKeeps DEF Instant
      <3> QED BY <1>1, <2>1, <2>2, <2>4, <2>5, <2>6, <3>1, <3>2, <3>3, TickKeeps
    <2> QED BY <2>7, <2>8
  <1> QED BY <1>1, FullInvariance, PTL DEF Spec, HoldIsUnbroken

\* A rule starts again only after one of its conditions was unmet, or after an edit.
THEOREM OneStartProof == Spec => OneStartPerEpisode
  <1>1. ASSUME FullInv, [Next]_vars
        PROVE  \A r \in Rules : RunsNow(r) /\ ran'[r] = "start" =>
                 \/ runtime[r].last_fired_at = None
                 \/ definedAt[r] # None /\ definedAt[r] >= runtime[r].last_fired_at
                 \/ \E i \in DOMAIN Conds(r) :
                      unmetAt[r][i] # None /\ unmetAt[r][i] > runtime[r].last_fired_at
    <2> SUFFICES ASSUME NEW r \in Rules, RunsNow(r), ran'[r] = "start",
                        runtime[r].last_fired_at # None
                 PROVE  \/ definedAt[r] # None /\ definedAt[r] >= runtime[r].last_fired_at
                        \/ \E i \in DOMAIN Conds(r) :
                             unmetAt[r][i] # None /\ unmetAt[r][i] > runtime[r].last_fired_at
      BY <1>1
    <2>1. InForce(r) /\ AllRaw(r) /\ Verdict(r) = "start"
      BY <1>1, RunsFire
    <2>2. ~InEpisode(r)
      BY <2>1 DEF Verdict
    <2>3. ~runtime[r].fired_this_episode
      BY <2>1, <2>2 DEF InEpisode
    <2> QED BY <1>1, <2>1, <2>3 DEF FullInv, HistoryInv, EpisodesEnd
  <1> QED BY <1>1, FullInvariance, PTL DEF Spec, OneStartPerEpisode

\* An unedited rule acts on a hysteresis condition only after its value went past the
\* threshold itself, and before it fell out of the band.
THEOREM BandProof == Spec => HysteresisBand
  <1>1. ASSUME FullInv, [Next]_vars
        PROVE  \A r \in Rules : RunsNow(r) /\ definedAt[r] = None =>
                 \A i \in DOMAIN Conds(r) :
                   HysteresisApplies(Conds(r)[i], World) => crossed'[r][i]
    <2> SUFFICES ASSUME NEW r \in Rules, RunsNow(r), definedAt[r] = None,
                        NEW i \in DOMAIN Conds(r), HysteresisApplies(Conds(r)[i], World)
                 PROVE  crossed'[r][i]
      BY <1>1
    <2>1. Tick /\ InForce(r) /\ AllRaw(r)
      BY <1>1, RunsFire
    <2>2. PICK c, crt : c = Conds(r)[i] /\ crt = runtime[r].conditions[i]
      OBVIOUS
    <2>3. Latched(c, crt, World)
      BY <2>1, <2>2 DEF AllRaw, AllMet, CondRuntimes, Met
    <2>4. runtime'[r].conditions[i].latched
      BY <1>1, <2>1, <2>2, <2>3, TickOfRule DEF FullInv
    <2>5. LatchesCross'
      BY <1>1, <2>1, TickLatches
    <2> QED BY <1>1, <2>1, <2>4, <2>5, TickKeeps DEF LatchesCross
  <1> QED BY <1>1, FullInvariance, PTL DEF Spec, HysteresisBand
===============================================================================
