---------------------------- MODULE ScenarioEngine ----------------------------
(***************************************************************************)
(* The scenario engine of services/automation/automation_mqtt.py (class     *)
(* ScenarioEngine): a scenario waits for its `when`, runs on_start once,     *)
(* holds or regulates while it is active, and runs on_end once when it ends. *)
(*                                                                         *)
(* One Tick is one call of ScenarioEngine.tick over the whole document.      *)
(* The numbers of the regulator are in Regulator; here a regulator step      *)
(* publishes or not, and its publish is blocked or not.  The display fields  *)
(* net, error, base and last_sent_at are left out.                           *)
(***************************************************************************)
EXTENDS Conditions

CONSTANTS
  Scenarios,       \* scenario ids
  Docs,            \* the documents a reload or a restart may load
  Actions,         \* names of the on_start and on_end chains a definition carries
  BalanceValues,
  TopicPayloads,
  Choices,         \* what may come of a regulator step
  MaxTime          \* bound on the clock

(***************************************************************************)
(* Definitions, as _validate_scenario lets them pass.  `until` is <<>> when *)
(* the file has none.                                                       *)
(***************************************************************************)
Settings == [settling_seconds : Nat, balance_max_age_s : Nat, tick_interval_s : Nat,
             regulator_interval_s : Nat]

Scenario ==
  [enabled : BOOLEAN, when : ConditionLists, until : ConditionLists \cup {<<>>},
   mode : {"none", "hold", "regulate"},
   repeat_seconds : Nat,                     \* of a hold
   interval_s : Nat \cup {None},             \* of a regulator
   base : {"entity", "balance", "last"}, topic : Topics \cup {None},
   fallback : {"none", "number", "text"},    \* no payload, or what it reads as
   max_duration_s : Nat \cup {None}, min_run_s : Nat, cooldown_s : Nat,
   actions : Actions]

IsDocument(d) ==
  /\ d.settings \in Settings
  /\ DOMAIN d.scenarios \subseteq Scenarios
  /\ \A s \in DOMAIN d.scenarios :
       /\ d.scenarios[s] \in Scenario
       /\ d.scenarios[s].mode = "regulate" /\ d.scenarios[s].base = "entity" =>
            d.scenarios[s].topic \in Topics

\* A regulator step: inside the deadband or unchanged, or a value to publish, which
\* the executor lets through or not.
StepChoices == {"deadband", "unchanged", "sent", "blocked"}

ASSUME DocsAssumption == Docs # {} /\ \A d \in Docs : IsDocument(d)

ASSUME InputAssumption ==
  /\ BalanceValues \subseteq Int \cup {None, NoField}
  /\ TopicPayloads \subseteq Int \cup {Unparseable}
  /\ Choices \subseteq StepChoices
  /\ MaxTime \in Nat

VARIABLES
  doc, now, startedAt,
  lastTick,
  balance, balanceAt, topics, seen,   \* what the service received
  runtime,     \* ScenarioEngine._runtime
  did,         \* what the last tick ran: the chains and the kinds of `while` work
  \* history variables
  unmetAt,     \* per scenario and position, the last tick that found `when` unmet
  locked,      \* max_duration_s ended the scenario, and `when` was met on every tick since
  staleSince   \* first of the uninterrupted ticks it regulates without a balance

inputs == <<balance, balanceAt, topics, seen>>
history == <<unmetAt, locked, staleSince>>
vars == <<doc, now, startedAt, lastTick, inputs, runtime, did, history>>

Phases == {"idle", "active", "fallback", "disabled"}

WaitReasons == {"settling", "balance_stale", "rearm_pending", "cooldown"}

Reasons == WaitReasons \cup {None, "duration_reached", "base_missing", "deadband",
                             "unchanged", "blocked"}

ASSUME NoneIsNoName == None \notin Actions \cup WaitReasons

FreshConditions == [i \in Positions |-> NewConditionRuntime]

NewScenarioRuntime ==
  [phase |-> "idle", since |-> None, when |-> FreshConditions, until |-> FreshConditions,
   definition |-> None, hasValue |-> FALSE, last_step_at |-> None,
   last_hold_at |-> None, reason |-> None, rearm |-> FALSE, ended_at |-> None]

Work == [on_start : Actions \cup {None}, on_end : Actions \cup {None},
         while : SUBSET {"hold", "fallback", "recovered", "step"}]

NoWork == [on_start |-> None, on_end |-> None, while |-> {}]

Active(rt) == rt.phase \in {"active", "fallback"}
-----------------------------------------------------------------------------
(***************************************************************************)
(* What one tick reads.                                                     *)
(***************************************************************************)
Def(s) == doc.scenarios[s]

Settling == now - startedAt < doc.settings.settling_seconds

BalanceStale ==
  balanceAt = None \/ now - balanceAt > doc.settings.balance_max_age_s

World ==
  [balance |-> IF BalanceStale THEN None ELSE balance,
   topics |-> topics, seen |-> seen, now |-> now, started |-> startedAt]

\* _evaluate: the runtime with its conditions evaluated.
\* Mutant: the list of until runtimes stays empty.
MutEvaluate(s, rt) ==
  [rt EXCEPT !.when = EvaluateAll(Def(s).when, rt.when, World),
             !.until = IF Def(s).until = <<>> THEN <<>>
                       ELSE EvaluateAll(Def(s).until, rt.until, World)]

Evaluate(s, rt) ==
  [rt EXCEPT !.when = EvaluateAll(Def(s).when, rt.when, World),
             !.until = IF Def(s).until = <<>> THEN FreshConditions
                       ELSE EvaluateAll(Def(s).until, rt.until, World)]

WhenMet(s, rt) == AllMet(Def(s).when, rt.when, World)
WhenHeld(s, rt) == AllHeld(Def(s).when, rt.when, World)
WhenStale(s) == SawStale(Def(s).when, World)
UntilHeld(s, rt) == AllHeld(Def(s).until, rt.until, World)

(***************************************************************************)
(* _start, _end, _run_while: each yields the runtime it leaves behind and    *)
(* what it did.                                                             *)
(***************************************************************************)
Nothing(rt) == [rt |-> rt, did |-> NoWork]

Start(s, rt) ==
  [rt |-> [rt EXCEPT !.phase = "active", !.since = now, !.last_hold_at = None,
                     !.definition = Def(s).actions],
   did |-> [NoWork EXCEPT !.on_start = Def(s).actions]]

\* Mutant: the end forgets to clear the start time.
MutEnd(rt) ==
  [rt |-> [rt EXCEPT !.phase = "idle", !.ended_at = now, !.definition = None,
                     !.hasValue = FALSE, !.last_step_at = None, !.last_hold_at = None,
                     !.when = FreshConditions, !.until = FreshConditions],
   did |-> [NoWork EXCEPT !.on_end = rt.definition]]

\* on_end of the definition the scenario was started with, not of today's document.
End(rt) ==
  [rt |-> [rt EXCEPT !.phase = "idle", !.since = None, !.ended_at = now,
                     !.definition = None, !.hasValue = FALSE, !.last_step_at = None,
                     !.last_hold_at = None, !.when = FreshConditions,
                     !.until = FreshConditions],
   did |-> [NoWork EXCEPT !.on_end = rt.definition]]

Hold(s, rt) ==
  IF rt.last_hold_at # None /\ now - rt.last_hold_at < Def(s).repeat_seconds
  THEN Nothing(rt)
  ELSE [rt |-> [rt EXCEPT !.last_hold_at = now], did |-> [NoWork EXCEPT !.while = {"hold"}]]

\* A base value: from a topic, from the balance, or the last one sent, which never
\* lacks a number.
BaseMissing(s) ==
  \/ Def(s).base = "entity" /\ topics[Def(s).topic] \in {None, Unparseable}
  \/ Def(s).base = "balance" /\ World.balance \in {None, NoField}

Interval(s) ==
  LET own == IF Def(s).interval_s = None THEN doc.settings.regulator_interval_s
                                         ELSE Def(s).interval_s
  IN IF own > doc.settings.tick_interval_s THEN own ELSE doc.settings.tick_interval_s

\* The step found no balance or no base value: the fallback payload goes out once.
\* A payload that is no number, once sent, leaves no last value.
FallBack(s, rt, choice) ==
  LET why == IF World.balance = None THEN "balance_stale" ELSE "base_missing"
      stepped == [rt EXCEPT !.last_step_at = now, !.reason = why]
      sent == Def(s).fallback # "none" /\ choice # "blocked"
  IN IF rt.phase = "fallback" THEN Nothing(stepped)
     ELSE [rt |-> [stepped EXCEPT !.phase = "fallback",
                     !.hasValue = IF sent THEN Def(s).fallback = "number" ELSE rt.hasValue],
           did |-> [NoWork EXCEPT !.while = {"fallback"}]]

RegulatorStep(s, rt, choice) ==
  [rt |-> [rt EXCEPT !.phase = "active", !.last_step_at = now,
                     !.reason = IF choice = "sent" THEN None ELSE choice,
                     !.hasValue = choice = "sent" \/ rt.hasValue],
   did |-> [NoWork EXCEPT !.while = {w \in {"recovered", "step"} :
                                      \/ w = "recovered" /\ rt.phase = "fallback"
                                      \/ w = "step" /\ choice = "sent"}]]

\* Mutant: a base value that is not the balance does without it.
MutRegulate(s, rt, choice) ==
  IF rt.last_step_at # None /\ now - rt.last_step_at < Interval(s) THEN Nothing(rt)
  ELSE IF BaseMissing(s) THEN FallBack(s, rt, choice)
  ELSE RegulatorStep(s, rt, choice)

Regulate(s, rt, choice) ==
  IF rt.last_step_at # None /\ now - rt.last_step_at < Interval(s) THEN Nothing(rt)
  ELSE IF World.balance = None \/ BaseMissing(s) THEN FallBack(s, rt, choice)
  ELSE RegulatorStep(s, rt, choice)

RunWhile(s, rt, choice) ==
  IF Def(s).mode = "hold" THEN Hold(s, rt)
  ELSE IF Def(s).mode = "regulate" THEN Regulate(s, rt, choice)
  ELSE Nothing(rt)
-----------------------------------------------------------------------------
(***************************************************************************)
(* _advance, for a scenario that is switched on.                            *)
(***************************************************************************)
CoolingDown(s, rt) == rt.ended_at # None /\ now - rt.ended_at < Def(s).cooldown_s

\* Mutant: the lock lasts only until the next tick.
MutRearmLeft(s, rt) == FALSE

RearmLeft(s, rt) == rt.rearm /\ WhenMet(s, rt)

WaitReason(s, rt) ==
  IF Settling THEN "settling"
  ELSE IF WhenStale(s) THEN "balance_stale"
  ELSE IF RearmLeft(s, rt) THEN "rearm_pending"
  ELSE IF CoolingDown(s, rt) THEN "cooldown"
  ELSE None

\* Not running: wait, or start and do the first `while` in the same tick.
Wait(s, rt, choice) ==
  LET waiting == [Evaluate(s, rt) EXCEPT !.reason = WaitReason(s, rt),
                                         !.rearm = RearmLeft(s, rt)]
      started == Start(s, waiting)
      first == RunWhile(s, started.rt, choice)
  IN IF waiting.reason = None /\ WhenHeld(s, rt)
     THEN [rt |-> first.rt, did |-> [first.did EXCEPT !.on_start = started.did.on_start]]
     ELSE Nothing(waiting)

DurationReached(s, rt) ==
  Def(s).max_duration_s # None /\ now - rt.since >= Def(s).max_duration_s

\* Mutant: a balance that went stale counts as a condition no longer met.
MutEndMet(s, rt) ==
  IF Def(s).until = <<>> THEN Def(s).max_duration_s = None /\ ~WhenMet(s, rt)
                         ELSE UntilHeld(s, rt)

\* Without until, the end of `when` counts only when no condition lacks its balance.
EndMet(s, rt) ==
  IF Def(s).until = <<>>
  THEN Def(s).max_duration_s = None /\ ~WhenMet(s, rt) /\ ~WhenStale(s)
  ELSE UntilHeld(s, rt)

RanLongEnough(s, rt) == now - rt.since >= Def(s).min_run_s

Continue(s, rt, choice) ==
  LET evaluated == Evaluate(s, rt)
      ended == End(evaluated)
  IN IF DurationReached(s, rt)
     THEN [ended EXCEPT !.rt.reason = "duration_reached", !.rt.rearm = TRUE]
     ELSE IF EndMet(s, rt) /\ RanLongEnough(s, rt) THEN ended
     ELSE RunWhile(s, [evaluated EXCEPT !.reason = None], choice)

(***************************************************************************)
(* ScenarioEngine.tick: switched off, removed from the document, running,   *)
(* waiting.  A switched off scenario evaluates conditions only for display,  *)
(* from fresh timers every time.                                            *)
(***************************************************************************)
\* Mutant: switched off scenarios are not looked at.
MutSwitchOff(s, rt) ==
  LET ended == IF Active(rt) THEN End(rt) ELSE Nothing(rt)
  IN [ended EXCEPT !.rt.phase = "disabled", !.rt.reason = None]

SwitchOff(s, rt) ==
  LET ended == IF Active(rt) THEN End(rt) ELSE Nothing(rt)
      off == [ended.rt EXCEPT !.phase = "disabled", !.reason = None,
                              !.when = FreshConditions, !.until = FreshConditions]
  IN [rt |-> Evaluate(s, off), did |-> ended.did]

Remove(rt) ==
  [rt |-> NewScenarioRuntime, did |-> IF Active(rt) THEN End(rt).did ELSE NoWork]

Step(s, choice) ==
  LET rt == runtime[s] IN
  IF s \notin DOMAIN doc.scenarios THEN Remove(rt)
  ELSE IF ~Def(s).enabled THEN SwitchOff(s, rt)
  ELSE IF Active(rt) THEN Continue(s, rt, choice)
  ELSE Wait(s, rt, choice)

(***************************************************************************)
(* What the history variables note of a tick.                               *)
(***************************************************************************)
EndsByDuration(s) ==
  /\ did'[s].on_end # None
  /\ s \in DOMAIN doc.scenarios /\ Def(s).enabled
  /\ DurationReached(s, runtime[s])

UnmetNow(s, i) ==
  /\ s \in DOMAIN doc.scenarios
  /\ i \in DOMAIN Def(s).when
  /\ ~Met(Def(s).when[i], runtime[s].when[i], World)

RecordTick ==
  /\ unmetAt' = [s \in Scenarios |-> [i \in Positions |->
                   IF UnmetNow(s, i) THEN now ELSE unmetAt[s][i]]]
  /\ locked' = [s \in Scenarios |->
        \/ EndsByDuration(s)
        \/ locked[s] /\ s \in DOMAIN doc.scenarios
                     /\ \A i \in Positions : ~UnmetNow(s, i)]
  /\ staleSince' = [s \in Scenarios |->
        IF /\ s \in DOMAIN doc.scenarios
           /\ Active(runtime'[s]) /\ Active(runtime[s])
           /\ Def(s).mode = "regulate" /\ BalanceStale
        THEN IF staleSince[s] = None THEN now ELSE staleSince[s]
        ELSE None]
-----------------------------------------------------------------------------
NoTopics == [t \in Topics |-> None]

Init ==
  /\ doc \in Docs
  /\ now = 0 /\ startedAt = 0 /\ lastTick = None
  /\ balance = None /\ balanceAt = None
  /\ topics = NoTopics /\ seen = NoTopics
  /\ runtime = [s \in Scenarios |-> NewScenarioRuntime]
  /\ did = [s \in Scenarios |-> NoWork]
  /\ unmetAt = [s \in Scenarios |-> [i \in Positions |-> None]]
  /\ locked = [s \in Scenarios |-> FALSE]
  /\ staleSince = [s \in Scenarios |-> None]

Tick ==
  /\ lastTick # None => lastTick < now
  /\ lastTick' = now
  /\ \E choice \in [Scenarios -> Choices] :
       /\ runtime' = [s \in Scenarios |-> Step(s, choice[s]).rt]
       /\ did' = [s \in Scenarios |-> Step(s, choice[s]).did]
  /\ RecordTick
  /\ UNCHANGED <<doc, now, startedAt, inputs>>

BalanceMessage(value) ==
  /\ balance' = value
  /\ balanceAt' = now
  /\ UNCHANGED <<doc, now, startedAt, lastTick, topics, seen, runtime, did, history>>

TopicMessage(t, payload) ==
  /\ topics' = [topics EXCEPT ![t] = payload]
  /\ seen' = [seen EXCEPT ![t] = now]
  /\ UNCHANGED <<doc, now, startedAt, lastTick, balance, balanceAt, runtime, did, history>>

Reload(d) ==
  /\ d # doc
  /\ doc' = d
  /\ UNCHANGED <<now, startedAt, lastTick, inputs, runtime, did, history>>

\* A restart forgets every phase; a running scenario's on_end does not run.
Restart(d) ==
  /\ doc' = d
  /\ startedAt' = now /\ lastTick' = None
  /\ balance' = None /\ balanceAt' = None
  /\ topics' = NoTopics /\ seen' = NoTopics
  /\ runtime' = [s \in Scenarios |-> NewScenarioRuntime]
  /\ did' = [s \in Scenarios |-> NoWork]
  /\ unmetAt' = [s \in Scenarios |-> [i \in Positions |-> None]]
  /\ locked' = [s \in Scenarios |-> FALSE]
  /\ staleSince' = [s \in Scenarios |-> None]
  /\ UNCHANGED now

Elapse ==
  /\ now < MaxTime
  /\ now' = now + 1
  /\ UNCHANGED <<doc, startedAt, lastTick, inputs, runtime, did, history>>

Next ==
  \/ Tick
  \/ \E v \in BalanceValues : BalanceMessage(v)
  \/ \E t \in Topics, p \in TopicPayloads : TopicMessage(t, p)
  \/ \E d \in Docs : Reload(d)
  \/ \E d \in Docs : Restart(d)
  \/ Elapse

Spec == Init /\ [][Next]_vars

-----------------------------------------------------------------------------
(***************************************************************************)
(* Properties.                                                              *)
(***************************************************************************)
ScenarioRuntime ==
  [phase : Phases, since : Instant, when : [Positions -> ConditionRuntime],
   until : [Positions -> ConditionRuntime], definition : Actions \cup {None},
   hasValue : BOOLEAN, last_step_at : Instant, last_hold_at : Instant,
   reason : Reasons, rearm : BOOLEAN, ended_at : Instant]

\* Every variable has its type.
TypeOK ==
  /\ doc \in Docs
  /\ now \in Nat /\ startedAt \in Nat
  /\ lastTick \in Instant /\ balanceAt \in Instant
  /\ balance \in BalanceValues \cup {None}
  /\ topics \in [Topics -> TopicPayloads \cup {None}]
  /\ seen \in [Topics -> Instant]
  /\ runtime \in [Scenarios -> ScenarioRuntime] /\ did \in [Scenarios -> Work]
  /\ unmetAt \in [Scenarios -> [Positions -> Instant]]
  /\ locked \in [Scenarios -> BOOLEAN]
  /\ staleSince \in [Scenarios -> Instant]

\* A running scenario knows since when it runs and which on_end it owes; nobody else
\* carries either.  _advance subtracts `since` and _end reads the definition unchecked.
RunningKnowsItsEnd ==
  \A s \in Scenarios :
    /\ Active(runtime[s]) <=> runtime[s].definition # None
    /\ Active(runtime[s]) <=> runtime[s].since # None
    /\ Active(runtime[s]) => runtime[s].since <= now

\* on_start and on_end alternate, on_end is the one of the definition that was started,
\* and a scenario ended by its duration starts again only after its `when` was unmet.
Lifecycle == INSTANCE ScenarioLifecycle WITH
  running <- [s \in Scenarios |-> runtime[s].definition],
  ran <- [s \in Scenarios |-> [on_start |-> did[s].on_start, on_end |-> did[s].on_end]]

\* The engine implements the lifecycle: what _start and _end do is what it promises.
LifecycleSpec == Lifecycle!Spec

\* A scenario starts only when each `when` condition was met on every tick of its hold
\* time, switched off or not, edited or not.
HoldStartsOverWhenUnmet ==
  [][\A s \in Scenarios : lastTick' # lastTick /\ did'[s].on_start # None =>
       \A i \in DOMAIN Def(s).when :
         unmetAt[s][i] = None \/ now - unmetAt[s][i] > Def(s).when[i].hold]_vars

\* A balance that stops arriving ends no scenario that lives on balance conditions:
\* such a tick ends it only by switching off, removal or its duration.
StaleEndsNothing ==
  [][\A s \in Scenarios :
       /\ lastTick' # lastTick /\ did'[s].on_end # None /\ BalanceStale
       /\ s \in DOMAIN doc.scenarios /\ Def(s).enabled
       /\ \A i \in DOMAIN Def(s).when : Def(s).when[i].type = "balance_threshold"
       /\ \A i \in DOMAIN Def(s).until : Def(s).until[i].type = "balance_threshold"
       => DurationReached(s, runtime[s])]_vars

\* A regulator without a balance falls back within one interval: on the first tick
\* that is an interval later at the latest.
FallbackNotLate ==
  [][\A s \in DOMAIN doc.scenarios :
       /\ lastTick' # lastTick /\ staleSince'[s] # None
       /\ now - staleSince'[s] >= Interval(s)
       => runtime'[s].phase = "fallback"]_vars
===============================================================================
