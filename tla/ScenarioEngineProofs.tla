------------------------- MODULE ScenarioEngineProofs -------------------------
(***************************************************************************)
(* Proofs about ScenarioEngine, for every set of scenarios and every         *)
(* collection of valid documents: type correctness, that the engine           *)
(* implements ScenarioLifecycle, and every other property its run checks.     *)
(*                                                                         *)
(* A running scenario knows since when it runs and which on_end it owes.      *)
(* The lifecycle needs one more fact: while the history still counts a       *)
(* scenario as locked, its rearm flag is set (LockedRearms).  The hold time   *)
(* and the fallback rest on what the ticks leave behind (TicksInv): timers    *)
(* are younger than the last tick that found their condition unmet, and a     *)
(* regulator that stepped without a balance has fallen back.                  *)
(***************************************************************************)
EXTENDS ScenarioEngine

LockedRearms == \A s \in Scenarios : locked[s] => runtime[s].rearm

IInv == TypeOK /\ RunningKnowsItsEnd /\ LockedRearms

\* A runtime that is whole: typed, and running exactly with a start and a definition.
Whole(rt) ==
  /\ rt \in ScenarioRuntime
  /\ Active(rt) <=> rt.definition # None
  /\ Active(rt) <=> rt.since # None
  /\ Active(rt) => rt.since <= now

\* A runtime the work of a running scenario may leave behind.
GoesOn(rt, next) ==
  /\ Whole(next) /\ Active(next)
  /\ next.definition = rt.definition /\ next.rearm = rt.rearm
  /\ next.when = rt.when /\ next.last_step_at \in {rt.last_step_at, now}

RunsNoChain(work) == work \in Work /\ work.on_start = None /\ work.on_end = None

-----------------------------------------------------------------------------
(***************************************************************************)
(* What the documents guarantee, and what an evaluation returns.            *)
(***************************************************************************)
LEMMA DocumentScenario ==
  ASSUME doc \in Docs, NEW s \in DOMAIN doc.scenarios
  PROVE  /\ s \in Scenarios /\ Def(s) \in Scenario
         /\ Def(s).actions \in Actions /\ Def(s).actions # None
         /\ Def(s).when \in ConditionLists
         /\ Def(s).until \in ConditionLists \cup {<<>>}
  BY DocsAssumption, NoneIsNoName DEF IsDocument, Scenario, Def

\* A condition that was never evaluated has a runtime of its type.
LEMMA FreshType == FreshConditions \in [Positions -> ConditionRuntime]
  BY DEF FreshConditions, NewConditionRuntime, ConditionRuntime, Instant

\* Evaluating touches the condition runtimes only.
LEMMA EvaluateKeeps ==
  ASSUME doc \in Docs, now \in Nat, NEW s \in DOMAIN doc.scenarios, NEW rt \in ScenarioRuntime
  PROVE  /\ Evaluate(s, rt) \in ScenarioRuntime
         /\ Evaluate(s, rt).phase = rt.phase /\ Evaluate(s, rt).since = rt.since
         /\ Evaluate(s, rt).definition = rt.definition /\ Evaluate(s, rt).rearm = rt.rearm
         /\ Evaluate(s, rt).last_step_at = rt.last_step_at
         /\ Evaluate(s, rt).when = EvaluateAll(Def(s).when, rt.when, World)
  <1>1. World.now \in Nat
    BY DEF World
  <1>2. rt.when \in [Positions -> ConditionRuntime] /\ rt.until \in [Positions -> ConditionRuntime]
    BY DEF ScenarioRuntime
  <1>3. EvaluateAll(Def(s).when, rt.when, World) \in [Positions -> ConditionRuntime]
    BY <1>1, <1>2, DocumentScenario, ListType, EvaluateAllType
  <1>4. Def(s).until # <<>> =>
          EvaluateAll(Def(s).until, rt.until, World) \in [Positions -> ConditionRuntime]
    <2>1. Def(s).until # <<>> => Def(s).until \in ConditionLists
      BY DocumentScenario
    <2> QED BY <1>1, <1>2, <2>1, ListType, EvaluateAllType
  <1> DEFINE when == EvaluateAll(Def(s).when, rt.when, World)
             until == IF Def(s).until = <<>> THEN FreshConditions
                      ELSE EvaluateAll(Def(s).until, rt.until, World)
  <1>5. when \in [Positions -> ConditionRuntime] /\ until \in [Positions -> ConditionRuntime]
    BY <1>3, <1>4, FreshType
  <1>6. Evaluate(s, rt) = [rt EXCEPT !.when = when, !.until = until]
    BY DEF Evaluate
  <1>7. when = EvaluateAll(Def(s).when, rt.when, World)
    OBVIOUS
  <1> HIDE DEF when, until
  <1> QED BY <1>5, <1>6, <1>7 DEF ScenarioRuntime

-----------------------------------------------------------------------------
(***************************************************************************)
(* The work of a running scenario.                                          *)
(***************************************************************************)
LEMMA NoWorkType == RunsNoChain(NoWork)
  BY DEF RunsNoChain, NoWork, Work

\* What is done while a scenario runs starts and ends nothing.
LEMMA WhileWorkType ==
  ASSUME NEW w \in SUBSET {"hold", "fallback", "recovered", "step"}
  PROVE  RunsNoChain([NoWork EXCEPT !.while = w])
  BY DEF RunsNoChain, NoWork, Work

\* Holding keeps the scenario running.
LEMMA HoldGoesOn ==
  ASSUME now \in Nat, NEW s, NEW rt, Whole(rt), Active(rt)
  PROVE  GoesOn(rt, Hold(s, rt).rt) /\ RunsNoChain(Hold(s, rt).did)
  <1>1. GoesOn(rt, rt)
    BY DEF GoesOn
  <1>2. GoesOn(rt, [rt EXCEPT !.last_hold_at = now])
    BY DEF GoesOn, Whole, ScenarioRuntime, Active, Instant
  <1>3. RunsNoChain([NoWork EXCEPT !.while = {"hold"}])
    BY WhileWorkType
  <1> QED BY <1>1, <1>2, <1>3, NoWorkType DEF Hold, Nothing

\* Falling back keeps it running.
LEMMA FallBackGoesOn ==
  ASSUME now \in Nat, NEW s, NEW choice, NEW rt, Whole(rt), Active(rt)
  PROVE  GoesOn(rt, FallBack(s, rt, choice).rt) /\ RunsNoChain(FallBack(s, rt, choice).did)
  <1> DEFINE why == IF World.balance = None THEN "balance_stale" ELSE "base_missing"
             stepped == [rt EXCEPT !.last_step_at = now, !.reason = why]
             sent == Def(s).fallback # "none" /\ choice # "blocked"
             value == IF sent THEN Def(s).fallback = "number" ELSE rt.hasValue
             fallen == [stepped EXCEPT !.phase = "fallback", !.hasValue = value]
  <1>1. why \in Reasons
    BY DEF Reasons, WaitReasons
  <1>2. value \in BOOLEAN
    <2>1. rt.hasValue \in BOOLEAN
      BY DEF Whole, ScenarioRuntime
    <2> QED BY <2>1
  <1>3. GoesOn(rt, stepped)
    <2> HIDE DEF why
    <2> QED BY <1>1 DEF GoesOn, Whole, ScenarioRuntime, Active, Instant
  <1>4. GoesOn(rt, fallen)
    <2> HIDE DEF why, value
    <2> QED BY <1>1, <1>2 DEF GoesOn, Whole, ScenarioRuntime, Active, Instant, Phases
  <1>5. RunsNoChain([NoWork EXCEPT !.while = {"fallback"}])
    BY WhileWorkType
  <1>6. FallBack(s, rt, choice) =
          IF rt.phase = "fallback" THEN Nothing(stepped)
          ELSE [rt |-> fallen, did |-> [NoWork EXCEPT !.while = {"fallback"}]]
    BY DEF FallBack
  <1> HIDE DEF fallen, stepped
  <1> QED BY <1>3, <1>4, <1>5, <1>6, NoWorkType DEF Nothing

\* A step of the regulator keeps it running.
LEMMA RegulatorStepGoesOn ==
  ASSUME now \in Nat, NEW s, NEW choice \in Choices, NEW rt, Whole(rt), Active(rt)
  PROVE  /\ GoesOn(rt, RegulatorStep(s, rt, choice).rt)
         /\ RunsNoChain(RegulatorStep(s, rt, choice).did)
  <1> DEFINE why == IF choice = "sent" THEN None ELSE choice
             value == choice = "sent" \/ rt.hasValue
             stepped == [rt EXCEPT !.phase = "active", !.last_step_at = now,
                                   !.reason = why, !.hasValue = value]
             work == {w \in {"recovered", "step"} :
                        \/ w = "recovered" /\ rt.phase = "fallback"
                        \/ w = "step" /\ choice = "sent"}
  <1>1. why \in Reasons
    BY InputAssumption DEF Reasons, WaitReasons, StepChoices
  <1>2. value \in BOOLEAN
    OBVIOUS
  <1>3. GoesOn(rt, stepped)
    <2> HIDE DEF why, value
    <2> QED BY <1>1, <1>2 DEF GoesOn, Whole, ScenarioRuntime, Active, Instant, Phases
  <1>4. RunsNoChain([NoWork EXCEPT !.while = work])
    BY WhileWorkType
  <1>5. RegulatorStep(s, rt, choice) =
          [rt |-> stepped, did |-> [NoWork EXCEPT !.while = work]]
    BY DEF RegulatorStep
  <1> HIDE DEF stepped, work
  <1> QED BY <1>3, <1>4, <1>5

\* Whatever `while` does, the scenario goes on with the definition it was started with.
LEMMA RunWhileGoesOn ==
  ASSUME now \in Nat, NEW s, NEW choice \in Choices, NEW rt, Whole(rt), Active(rt)
  PROVE  GoesOn(rt, RunWhile(s, rt, choice).rt) /\ RunsNoChain(RunWhile(s, rt, choice).did)
  <1>1. GoesOn(rt, Nothing(rt).rt) /\ RunsNoChain(Nothing(rt).did)
    BY NoWorkType DEF GoesOn, Nothing
  <1>2. GoesOn(rt, Regulate(s, rt, choice).rt) /\ RunsNoChain(Regulate(s, rt, choice).did)
    BY <1>1, FallBackGoesOn, RegulatorStepGoesOn DEF Regulate
  <1> QED BY <1>1, <1>2, HoldGoesOn DEF RunWhile

-----------------------------------------------------------------------------
(***************************************************************************)
(* One step of one scenario, seen from its lifecycle.                       *)
(***************************************************************************)
StartsIn(rt, result) ==
  /\ rt.definition = None /\ result.rt.definition \in Actions
  /\ ~rt.rearm
  /\ result.did.on_start = result.rt.definition /\ result.did.on_end = None

EndsIn(rt, result) ==
  /\ rt.definition # None /\ result.rt.definition = None
  /\ result.did.on_start = None /\ result.did.on_end = rt.definition

StaysIn(rt, result) ==
  /\ result.rt.definition = rt.definition
  /\ result.did.on_start = None /\ result.did.on_end = None

StepsWell(rt, result) ==
  /\ Whole(result.rt) /\ result.did \in Work
  /\ result.rt.last_step_at \in {None, now, rt.last_step_at}
  /\ StartsIn(rt, result) \/ EndsIn(rt, result) \/ StaysIn(rt, result)

\* The end of a running scenario: its own on_end, and nothing of it goes on.
LEMMA EndEnds ==
  ASSUME now \in Nat, NEW rt, Whole(rt), Active(rt)
  PROVE  /\ Whole(End(rt).rt) /\ End(rt).did \in Work /\ ~Active(End(rt).rt)
         /\ EndsIn(rt, End(rt)) /\ End(rt).rt.rearm = rt.rearm
         /\ End(rt).rt.when = FreshConditions /\ End(rt).rt.last_step_at = None
  <1>1. /\ Whole(End(rt).rt) /\ ~Active(End(rt).rt) /\ End(rt).rt.rearm = rt.rearm
        /\ End(rt).rt.when = FreshConditions /\ End(rt).rt.last_step_at = None
    BY FreshType DEF End, Whole, ScenarioRuntime, Active, Instant, Phases
  <1>2. rt.definition \in Actions /\ rt.definition # None
    BY DEF Whole, ScenarioRuntime
  <1>3. End(rt).did \in Work
    BY <1>2 DEF End, Work, NoWork
  <1>4. EndsIn(rt, End(rt))
    BY <1>2 DEF EndsIn, End, NoWork, ScenarioRuntime, Whole
  <1> QED BY <1>1, <1>3, <1>4

\* Waiting: a start needs the rearm flag gone.
LEMMA WaitSteps ==
  ASSUME doc \in Docs, now \in Nat, NEW s \in DOMAIN doc.scenarios,
         NEW choice \in Choices, NEW rt, Whole(rt), ~Active(rt)
  PROVE  /\ StepsWell(rt, Wait(s, rt, choice))
         /\ Wait(s, rt, choice).did.on_end = None
         /\ Wait(s, rt, choice).rt.rearm = RearmLeft(s, rt)
         /\ Wait(s, rt, choice).rt.when = EvaluateAll(Def(s).when, rt.when, World)
         /\ Wait(s, rt, choice).did.on_start # None => ~WhenStale(s) /\ WhenHeld(s, rt)
  <1> DEFINE why == WaitReason(s, rt)
             rearm == RearmLeft(s, rt)
             evaluated == EvaluateAll(Def(s).when, rt.when, World)
             waiting == [Evaluate(s, rt) EXCEPT !.reason = why, !.rearm = rearm]
             started == Start(s, waiting)
             first == RunWhile(s, started.rt, choice)
             both == [rt |-> first.rt,
                      did |-> [first.did EXCEPT !.on_start = started.did.on_start]]
  <1>1. /\ rt \in ScenarioRuntime /\ rt.definition = None /\ rt.since = None
        /\ Def(s).actions \in Actions /\ Def(s).actions # None
    BY DocumentScenario DEF Whole
  <1>2. why \in Reasons /\ (why = None => ~rearm /\ ~WhenStale(s))
    <2> HIDE DEF rearm
    <2>1. why = IF Settling THEN "settling"
                ELSE IF WhenStale(s) THEN "balance_stale"
                ELSE IF rearm THEN "rearm_pending"
                ELSE IF CoolingDown(s, rt) THEN "cooldown" ELSE None
      BY DEF WaitReason, rearm
    <2> HIDE DEF why
    <2> QED BY <2>1, NoneIsNoName DEF WaitReasons, Reasons
  <1>3. rearm \in BOOLEAN
    BY DEF RearmLeft
  <1>4. Wait(s, rt, choice) =
          IF why = None /\ WhenHeld(s, rt) THEN both ELSE Nothing(waiting)
    <2>1. waiting.reason = why
      <3>1. Evaluate(s, rt) \in ScenarioRuntime
        BY <1>1, EvaluateKeeps
      <3> HIDE DEF why, rearm
      <3> QED BY <3>1 DEF ScenarioRuntime
    <2> QED BY <2>1 DEF Wait
  <1>5. /\ Whole(waiting) /\ ~Active(waiting) /\ waiting.rearm = rearm
        /\ waiting.definition = None
        /\ waiting.when = evaluated /\ waiting.last_step_at = rt.last_step_at
    <2>1. /\ Evaluate(s, rt) \in ScenarioRuntime
          /\ Evaluate(s, rt).phase = rt.phase /\ Evaluate(s, rt).since = rt.since
          /\ Evaluate(s, rt).definition = rt.definition
          /\ Evaluate(s, rt).last_step_at = rt.last_step_at
          /\ Evaluate(s, rt).when = evaluated
      BY <1>1, EvaluateKeeps
    <2> HIDE DEF why, rearm, evaluated
    <2> QED BY <1>1, <1>2, <1>3, <2>1 DEF Whole, ScenarioRuntime, Active
  <1>6. /\ Whole(started.rt) /\ Active(started.rt)
        /\ started.rt.definition = Def(s).actions /\ started.rt.rearm = rearm
        /\ started.did.on_start = Def(s).actions
        /\ started.rt.when = evaluated /\ started.rt.last_step_at = rt.last_step_at
    <2> HIDE DEF waiting, rearm, evaluated
    <2>1. started.rt = [waiting EXCEPT !.phase = "active", !.since = now,
                          !.last_hold_at = None, !.definition = Def(s).actions]
          /\ started.did = [NoWork EXCEPT !.on_start = Def(s).actions]
      BY DEF Start
    <2>2. now # None /\ now \in Instant /\ None \in Instant
      BY SentinelAssumption DEF Instant
    <2>3. started.did.on_start = Def(s).actions
      BY <2>1 DEF NoWork
    <2>4. /\ waiting \in ScenarioRuntime /\ waiting.rearm = rearm
          /\ waiting.when = evaluated /\ waiting.last_step_at = rt.last_step_at
      BY <1>5 DEF Whole
    <2> HIDE DEF started, Instant
    <2>5. /\ started.rt \in ScenarioRuntime
          /\ started.rt.phase = "active" /\ started.rt.since = now
          /\ started.rt.definition = Def(s).actions /\ started.rt.rearm = rearm
          /\ started.rt.when = evaluated /\ started.rt.last_step_at = rt.last_step_at
      BY <1>1, <2>1, <2>2, <2>4 DEF ScenarioRuntime, Phases
    <2> QED BY <1>1, <2>2, <2>3, <2>5 DEF Whole, Active
  <1>7. GoesOn(started.rt, first.rt) /\ RunsNoChain(first.did)
    <2> HIDE DEF started
    <2> QED BY <1>6, RunWhileGoesOn
  <1> HIDE DEF why, rearm, evaluated, waiting, started, first
  <1>8. CASE why = None /\ WhenHeld(s, rt)
    <2>0. ~rt.rearm /\ ~WhenStale(s)
      BY <1>2, <1>8 DEF rearm, RearmLeft, WhenHeld, WhenMet, AllHeld, AllMet, Held
    <2>1. /\ Whole(both.rt) /\ both.rt.definition = Def(s).actions /\ both.rt.rearm = rearm
          /\ both.rt.when = evaluated /\ both.rt.last_step_at \in {now, rt.last_step_at}
      BY <1>6, <1>7 DEF GoesOn
    <2>2. both.did \in Work /\ both.did.on_start = Def(s).actions /\ both.did.on_end = None
      BY <1>1, <1>6, <1>7 DEF RunsNoChain, Work
    <2>3. StartsIn(rt, both)
      BY <1>1, <2>0, <2>1, <2>2 DEF StartsIn
    <2> HIDE DEF both
    <2> QED BY <1>4, <1>8, <2>0, <2>1, <2>2, <2>3 DEF StepsWell, rearm, evaluated
  <1>9. CASE ~(why = None /\ WhenHeld(s, rt))
    <2>1. StaysIn(rt, Nothing(waiting))
      BY <1>1, <1>5, NoWorkType DEF StaysIn, Nothing, RunsNoChain
    <2> QED BY <1>4, <1>5, <1>9, <2>1, NoWorkType
            DEF StepsWell, Nothing, RunsNoChain, rearm, evaluated
  <1> QED BY <1>8, <1>9

\* Running: the duration ends it and sets the rearm flag; another end, or none, leaves it.
LEMMA ContinueSteps ==
  ASSUME doc \in Docs, now \in Nat, NEW s \in DOMAIN doc.scenarios,
         NEW choice \in Choices, NEW rt, Whole(rt), Active(rt)
  PROVE  /\ StepsWell(rt, Continue(s, rt, choice))
         /\ ~StartsIn(rt, Continue(s, rt, choice))
         /\ Continue(s, rt, choice).rt.rearm = (DurationReached(s, rt) \/ rt.rearm)
         /\ Continue(s, rt, choice).did.on_end # None <=> EndsIn(rt, Continue(s, rt, choice))
         /\ EndsIn(rt, Continue(s, rt, choice)) => DurationReached(s, rt) \/ EndMet(s, rt)
         /\ Continue(s, rt, choice).rt.when
              \in {FreshConditions, EvaluateAll(Def(s).when, rt.when, World)}
  <1> DEFINE evaluated == Evaluate(s, rt)
             ended == End(evaluated)
             timed == [ended EXCEPT !.rt.reason = "duration_reached", !.rt.rearm = TRUE]
             rested == [evaluated EXCEPT !.reason = None]
             worked == RunWhile(s, rested, choice)
  <1>1. /\ rt \in ScenarioRuntime /\ rt.rearm \in BOOLEAN
        /\ rt.definition # None /\ rt.definition \in Actions
    BY DEF Whole, ScenarioRuntime
  <1>2. /\ Whole(evaluated) /\ Active(evaluated)
        /\ evaluated.definition = rt.definition /\ evaluated.rearm = rt.rearm
        /\ evaluated.last_step_at = rt.last_step_at
        /\ evaluated.when = EvaluateAll(Def(s).when, rt.when, World)
    <2>1. /\ evaluated \in ScenarioRuntime
          /\ evaluated.phase = rt.phase /\ evaluated.since = rt.since
          /\ evaluated.definition = rt.definition /\ evaluated.rearm = rt.rearm
          /\ evaluated.last_step_at = rt.last_step_at
          /\ evaluated.when = EvaluateAll(Def(s).when, rt.when, World)
      BY <1>1, EvaluateKeeps
    <2> HIDE DEF evaluated
    <2> QED BY <2>1 DEF Whole, Active
  <1> HIDE DEF evaluated
  <1>3. /\ Whole(ended.rt) /\ ended.did \in Work /\ EndsIn(rt, ended)
        /\ ended.rt.rearm = rt.rearm
        /\ ended.rt.when = FreshConditions /\ ended.rt.last_step_at = None
    BY <1>2, EndEnds DEF EndsIn
  <1>4. /\ Whole(timed.rt) /\ timed.did \in Work /\ EndsIn(rt, timed) /\ timed.rt.rearm = TRUE
        /\ timed.rt.when = FreshConditions /\ timed.rt.last_step_at = None
    <2>1. ended.rt \in ScenarioRuntime
      BY <1>3 DEF Whole
    <2>2. timed.rt = [ended.rt EXCEPT !.reason = "duration_reached", !.rearm = TRUE]
          /\ timed.did = ended.did
      BY DEF End
    <2> HIDE DEF ended, timed
    <2>3. /\ Whole(timed.rt) /\ timed.rt.rearm = TRUE
          /\ timed.rt.definition = ended.rt.definition
          /\ timed.rt.when = FreshConditions /\ timed.rt.last_step_at = None
      BY <1>3, <2>1, <2>2 DEF Whole, ScenarioRuntime, Active, Reasons, WaitReasons
    <2> QED BY <1>3, <2>2, <2>3 DEF EndsIn
  <1>5. /\ Whole(rested) /\ Active(rested) /\ rested.definition = rt.definition
        /\ rested.rearm = rt.rearm /\ rested.last_step_at = rt.last_step_at
        /\ rested.when = EvaluateAll(Def(s).when, rt.when, World)
    BY <1>2 DEF Whole, ScenarioRuntime, Active, Reasons, WaitReasons
  <1> HIDE DEF rested
  <1>6. GoesOn(rested, worked.rt) /\ RunsNoChain(worked.did)
    BY <1>5, RunWhileGoesOn
  <1>7. Whole(worked.rt) /\ worked.did \in Work /\ StaysIn(rt, worked)
        /\ worked.rt.rearm = rt.rearm
        /\ worked.rt.last_step_at \in {now, rt.last_step_at}
        /\ worked.rt.when = EvaluateAll(Def(s).when, rt.when, World)
    BY <1>5, <1>6 DEF GoesOn, RunsNoChain, StaysIn
  <1>8. Continue(s, rt, choice) =
          IF DurationReached(s, rt) THEN timed
          ELSE IF EndMet(s, rt) /\ RanLongEnough(s, rt) THEN ended ELSE worked
    BY DEF Continue, rested, evaluated
  <1> HIDE DEF ended, timed, worked
  <1>9. DurationReached(s, rt) \in BOOLEAN
    BY DEF DurationReached
  <1> QED BY <1>1, <1>3, <1>4, <1>7, <1>8, <1>9 DEF StepsWell, StartsIn, EndsIn, StaysIn

\* Switched off: a running scenario ends, the rearm flag stays as it was.
LEMMA SwitchOffSteps ==
  ASSUME doc \in Docs, now \in Nat, NEW s \in DOMAIN doc.scenarios, NEW rt, Whole(rt)
  PROVE  /\ StepsWell(rt, SwitchOff(s, rt)) /\ ~StartsIn(rt, SwitchOff(s, rt))
         /\ SwitchOff(s, rt).rt.rearm = rt.rearm /\ ~Active(SwitchOff(s, rt).rt)
         /\ SwitchOff(s, rt).rt.when = EvaluateAll(Def(s).when, FreshConditions, World)
  <1> DEFINE ended == IF Active(rt) THEN End(rt) ELSE Nothing(rt)
             off == [ended.rt EXCEPT !.phase = "disabled", !.reason = None,
                              !.when = FreshConditions, !.until = FreshConditions]
  <1>1. /\ Whole(ended.rt) /\ ended.did \in Work /\ ~Active(ended.rt)
        /\ EndsIn(rt, ended) \/ StaysIn(rt, ended)
        /\ ended.rt.rearm = rt.rearm /\ ended.did.on_start = None
        /\ ended.rt.last_step_at \in {None, rt.last_step_at}
    BY EndEnds, NoWorkType DEF Nothing, RunsNoChain, StaysIn, EndsIn
  <1> HIDE DEF ended
  <1>2. off \in ScenarioRuntime /\ off.phase = "disabled" /\ off.since = None
        /\ off.definition = None /\ ended.rt.definition = None /\ off.rearm = rt.rearm
        /\ off.when = FreshConditions /\ off.last_step_at = ended.rt.last_step_at
    BY <1>1, FreshType DEF Whole, ScenarioRuntime, Phases, Reasons
  <1> HIDE DEF off
  <1>3. /\ Evaluate(s, off) \in ScenarioRuntime
        /\ Evaluate(s, off).phase = "disabled" /\ Evaluate(s, off).since = None
        /\ Evaluate(s, off).definition = None /\ Evaluate(s, off).rearm = rt.rearm
        /\ Evaluate(s, off).last_step_at = ended.rt.last_step_at
        /\ Evaluate(s, off).when = EvaluateAll(Def(s).when, FreshConditions, World)
    BY <1>2, EvaluateKeeps
  <1>4. Whole(Evaluate(s, off))
    BY <1>3 DEF Whole, Active
  <1>5. SwitchOff(s, rt) = [rt |-> Evaluate(s, off), did |-> ended.did]
    BY DEF SwitchOff, off, ended
  <1> QED BY <1>1, <1>2, <1>3, <1>4, <1>5, NoneIsNoName
          DEF StepsWell, StartsIn, EndsIn, StaysIn, Active

\* The runtime of a scenario that was never seen is whole.
LEMMA NewRuntimeWhole == Whole(NewScenarioRuntime)
  BY FreshType DEF Whole, NewScenarioRuntime, ScenarioRuntime, Active, Phases, Reasons, Instant

\* Removing a scenario ends it if it runs and starts nothing.
LEMMA RemoveSteps ==
  ASSUME now \in Nat, NEW rt, Whole(rt)
  PROVE  /\ StepsWell(rt, Remove(rt)) /\ ~StartsIn(rt, Remove(rt))
         /\ Remove(rt).rt.when = FreshConditions
  <1>1. /\ NewScenarioRuntime.definition = None /\ NewScenarioRuntime.last_step_at = None
        /\ NewScenarioRuntime.when = FreshConditions
    BY DEF NewScenarioRuntime
  <1>2. CASE Active(rt)
    BY <1>1, <1>2, NewRuntimeWhole, EndEnds, NoneIsNoName
       DEF Remove, StepsWell, EndsIn, StartsIn
  <1>3. CASE ~Active(rt)
    BY <1>1, <1>3, NewRuntimeWhole, NoWorkType, NoneIsNoName
       DEF Remove, StepsWell, StaysIn, StartsIn, RunsNoChain, Whole
  <1> QED BY <1>2, <1>3

-----------------------------------------------------------------------------
(***************************************************************************)
(* A tick.                                                                  *)
(***************************************************************************)
\* Every scenario steps well, whatever the document says of it.
LEMMA StepSteps ==
  ASSUME IInv, NEW s \in Scenarios, NEW choice \in Choices
  PROVE  StepsWell(runtime[s], Step(s, choice))
  <1>1. Whole(runtime[s]) /\ doc \in Docs /\ now \in Nat
    BY DEF IInv, TypeOK, RunningKnowsItsEnd, Whole
  <1> QED BY <1>1, RemoveSteps, SwitchOffSteps, ContinueSteps, WaitSteps DEF Step

\* A scenario the history counts as locked after its step has its rearm flag set.
LEMMA StepRearms ==
  ASSUME IInv, NEW s \in Scenarios, NEW choice \in Choices,
         s \in DOMAIN doc.scenarios,
         \/ /\ Step(s, choice).did.on_end # None /\ Def(s).enabled
            /\ DurationReached(s, runtime[s])
         \/ locked[s] /\ \A i \in Positions : ~UnmetNow(s, i)
  PROVE  Step(s, choice).rt.rearm
  <1>1. Whole(runtime[s]) /\ doc \in Docs /\ now \in Nat
    BY DEF IInv, TypeOK, RunningKnowsItsEnd, Whole
  <1>2. locked[s] => runtime[s].rearm
    BY DEF IInv, LockedRearms
  <1>3. CASE ~Def(s).enabled
    BY <1>1, <1>2, <1>3, SwitchOffSteps DEF Step
  <1>4. CASE Def(s).enabled /\ Active(runtime[s])
    BY <1>1, <1>2, <1>4, ContinueSteps DEF Step
  <1>5. CASE Def(s).enabled /\ ~Active(runtime[s])
    <2>1. Step(s, choice) = Wait(s, runtime[s], choice)
      BY <1>5 DEF Step
    <2>2. locked[s] /\ \A i \in Positions : ~UnmetNow(s, i)
      BY <1>1, <1>5, <2>1, WaitSteps
    <2>3. DOMAIN Def(s).when \subseteq Positions
      BY <1>1, DocumentScenario, ListType
    <2>4. WhenMet(s, runtime[s])
      BY <2>2, <2>3 DEF UnmetNow, WhenMet, AllMet
    <2> QED BY <1>1, <1>2, <1>5, <2>1, <2>2, <2>4, WaitSteps DEF RearmLeft
  <1> QED BY <1>3, <1>4, <1>5

\* One round of ScenarioEngine.tick keeps the invariant.
LEMMA TickInv == IInv /\ Tick => IInv'
  <1> SUFFICES ASSUME IInv, Tick PROVE IInv'
    OBVIOUS
  <1>1. PICK choice \in [Scenarios -> Choices] :
          /\ runtime' = [s \in Scenarios |-> Step(s, choice[s]).rt]
          /\ did' = [s \in Scenarios |-> Step(s, choice[s]).did]
    BY DEF Tick
  <1>2. \A s \in Scenarios : Whole(Step(s, choice[s]).rt) /\ Step(s, choice[s]).did \in Work
    BY StepSteps DEF StepsWell
  <1>3. UNCHANGED <<doc, now, startedAt, balance, balanceAt, topics, seen>> /\ lastTick' = now
    BY DEF Tick, inputs
  <1>4. now \in Nat /\ now \in Instant
    BY DEF IInv, TypeOK, Instant
  <1>5. unmetAt' \in [Scenarios -> [Positions -> Instant]]
    BY <1>4 DEF Tick, RecordTick, IInv, TypeOK
  <1>6. locked' \in [Scenarios -> BOOLEAN]
    <2> DEFINE L(s) == \/ EndsByDuration(s)
                       \/ locked[s] /\ s \in DOMAIN doc.scenarios
                                    /\ \A i \in Positions : ~UnmetNow(s, i)
    <2>1. \A s \in Scenarios : L(s) \in BOOLEAN
      OBVIOUS
    <2>2. locked' = [s \in Scenarios |-> L(s)]
      BY DEF Tick, RecordTick
    <2> HIDE DEF L
    <2> QED BY <2>1, <2>2
  <1>7. staleSince' \in [Scenarios -> Instant]
    <2>1. None \in Instant
      BY DEF Instant
    <2>2. \A s \in Scenarios : staleSince[s] \in Instant
      BY DEF IInv, TypeOK
    <2> QED BY <1>4, <2>1, <2>2 DEF Tick, RecordTick
  <1>8. TypeOK'
    BY <1>1, <1>2, <1>3, <1>4, <1>5, <1>6, <1>7 DEF IInv, TypeOK, Whole
  <1>9. RunningKnowsItsEnd'
    BY <1>1, <1>2, <1>3 DEF RunningKnowsItsEnd, Whole
  <1>10. LockedRearms'
    <2> SUFFICES ASSUME NEW s \in Scenarios, locked'[s] PROVE runtime'[s].rearm
      BY DEF LockedRearms
    <2>1. \/ EndsByDuration(s)
          \/ locked[s] /\ s \in DOMAIN doc.scenarios /\ \A i \in Positions : ~UnmetNow(s, i)
      BY DEF Tick, RecordTick
    <2>2. choice[s] \in Choices /\ did'[s] = Step(s, choice[s]).did
          /\ runtime'[s] = Step(s, choice[s]).rt
      BY <1>1
    <2> QED BY <2>1, <2>2, StepRearms DEF EndsByDuration
  <1> QED BY <1>8, <1>9, <1>10 DEF IInv

-----------------------------------------------------------------------------
(***************************************************************************)
(* The invariant of the specification.                                      *)
(***************************************************************************)
LEMMA InitInv == Init => IInv
  <1> SUFFICES ASSUME Init PROVE IInv
    OBVIOUS
  <1>1. now \in Nat
    BY DEF Init
  <1>2. Whole(NewScenarioRuntime) /\ NoWork \in Work
    BY <1>1, NewRuntimeWhole, NoWorkType DEF RunsNoChain
  <1>3. NoTopics \in [Topics -> TopicPayloads \cup {None}] /\ NoTopics \in [Topics -> Instant]
    BY DEF NoTopics, Instant
  <1>4. TypeOK
    BY <1>2, <1>3 DEF Init, TypeOK, Instant, Whole
  <1>5. RunningKnowsItsEnd
    BY <1>2 DEF Init, RunningKnowsItsEnd, Whole
  <1> QED BY <1>4, <1>5 DEF IInv, LockedRearms, Init

\* Every step keeps the invariant.
LEMMA StepInv == IInv /\ [Next]_vars => IInv'
  <1> SUFFICES ASSUME IInv, [Next]_vars PROVE IInv'
    OBVIOUS
  <1> USE DEF inputs, history
  <1>0. TypeOK /\ now \in Nat /\ now \in Instant
    BY DEF IInv, TypeOK, Instant
  <1>1. CASE Tick
    BY <1>1, TickInv
  <1>2. ASSUME NEW v \in BalanceValues, BalanceMessage(v) PROVE IInv'
    BY <1>0, <1>2 DEF IInv, TypeOK, BalanceMessage, RunningKnowsItsEnd, LockedRearms
  <1>3. ASSUME NEW t \in Topics, NEW p \in TopicPayloads, TopicMessage(t, p) PROVE IInv'
    <2>1. topics' \in [Topics -> TopicPayloads \cup {None}] /\ seen' \in [Topics -> Instant]
      BY <1>0, <1>3 DEF TypeOK, TopicMessage
    <2> QED BY <1>0, <1>3, <2>1 DEF IInv, TypeOK, TopicMessage, RunningKnowsItsEnd, LockedRearms
  <1>4. ASSUME NEW d \in Docs, Reload(d) PROVE IInv'
    BY <1>0, <1>4 DEF IInv, TypeOK, Reload, RunningKnowsItsEnd, LockedRearms
  <1>5. ASSUME NEW d \in Docs, Restart(d) PROVE IInv'
    <2>1. Whole(NewScenarioRuntime) /\ NoWork \in Work
      BY <1>0, NewRuntimeWhole, NoWorkType DEF RunsNoChain
    <2>2. NoTopics \in [Topics -> TopicPayloads \cup {None}] /\ NoTopics \in [Topics -> Instant]
      BY DEF NoTopics, Instant
    <2>3. TypeOK'
      BY <1>0, <1>5, <2>1, <2>2 DEF TypeOK, Restart, Instant, Whole
    <2>4. RunningKnowsItsEnd'
      BY <1>5, <2>1 DEF Restart, RunningKnowsItsEnd, Whole
    <2> QED BY <1>5, <2>3, <2>4 DEF IInv, LockedRearms, Restart
  <1>6. CASE Elapse
    <2>1. now' \in Nat /\ now <= now'
      BY <1>0, <1>6 DEF Elapse
    <2>2. \A s \in Scenarios : runtime[s].since # None => runtime[s].since \in Nat
      BY <1>0 DEF TypeOK, ScenarioRuntime, Instant
    <2>3. RunningKnowsItsEnd'
      BY <1>0, <1>6, <2>1, <2>2 DEF IInv, RunningKnowsItsEnd, Elapse
    <2> QED BY <1>6, <2>1, <2>3 DEF IInv, TypeOK, Elapse, LockedRearms
  <1>7. CASE UNCHANGED vars
    BY <1>7 DEF IInv, TypeOK, RunningKnowsItsEnd, LockedRearms, vars
  <1> QED BY <1>1, <1>2, <1>3, <1>4, <1>5, <1>6, <1>7 DEF Next

\* The invariant holds in every state that is reached.
LEMMA Invariance == Spec => []IInv
  BY InitInv, StepInv, PTL DEF Spec

\* Every variable has its type in every reachable state.
THEOREM TypeInvariance == Spec => []TypeOK
  BY Invariance, PTL DEF IInv

\* A running scenario, and only a running one, knows since when it runs and which
\* on_end it owes, for every set of scenarios and every valid document.
THEOREM RunningKnowsItsEndProof == Spec => []RunningKnowsItsEnd
  BY Invariance, PTL DEF IInv

-----------------------------------------------------------------------------
(***************************************************************************)
(* The engine implements ScenarioLifecycle.                                 *)
(***************************************************************************)
LEMMA LifecycleInit == Init => Lifecycle!Init
  BY DEF Init, Lifecycle!Init, Lifecycle!Quiet, NewScenarioRuntime, NoWork

\* A tick is a step of the lifecycle.
LEMMA LifecycleTick == IInv /\ Tick => Lifecycle!Next
  <1> SUFFICES ASSUME IInv, Tick, NEW s \in Scenarios
               PROVE  Lifecycle!Starts(s) \/ Lifecycle!Ends(s) \/ Lifecycle!Stays(s)
    BY DEF Lifecycle!Next, Lifecycle!Work
  <1>1. PICK choice \in Choices :
          runtime'[s] = Step(s, choice).rt /\ did'[s] = Step(s, choice).did
    BY DEF Tick
  <1> DEFINE result == Step(s, choice)
  <1>2. StartsIn(runtime[s], result) \/ EndsIn(runtime[s], result)
        \/ StaysIn(runtime[s], result)
    BY StepSteps DEF StepsWell
  <1>3. locked'[s] => EndsByDuration(s) \/ locked[s]
    BY DEF Tick, RecordTick
  <1>4. EndsByDuration(s) => result.did.on_end # None
    BY <1>1 DEF EndsByDuration
  <1>5. locked[s] => runtime[s].rearm
    BY DEF IInv, LockedRearms
  <1> HIDE DEF result
  <1>6. result.rt = runtime'[s] /\ result.did = did'[s]
    BY <1>1 DEF result
  <1>7. CASE StartsIn(runtime[s], result)
    BY <1>3, <1>4, <1>5, <1>6, <1>7 DEF StartsIn, Lifecycle!Starts, Lifecycle!Quiet
  <1>8. CASE EndsIn(runtime[s], result)
    BY <1>6, <1>8 DEF EndsIn, Lifecycle!Ends, Lifecycle!Quiet
  <1>9. CASE StaysIn(runtime[s], result)
    BY <1>3, <1>4, <1>6, <1>9 DEF StaysIn, Lifecycle!Stays, Lifecycle!Quiet
  <1> QED BY <1>2, <1>7, <1>8, <1>9

\* Every step is a step of the lifecycle or changes nothing of it.
LEMMA LifecycleStep == IInv /\ [Next]_vars => [Lifecycle!Next]_(Lifecycle!vars)
  <1> SUFFICES ASSUME IInv, [Next]_vars PROVE Lifecycle!Next \/ UNCHANGED Lifecycle!vars
    OBVIOUS
  <1> USE DEF history
  <1>1. CASE Tick
    BY <1>1, LifecycleTick
  <1>2. CASE UNCHANGED <<runtime, did, locked>>
    BY <1>2 DEF Lifecycle!vars
  <1>3. ASSUME NEW d \in Docs, Restart(d) PROVE Lifecycle!Crash
    BY <1>3 DEF Restart, Lifecycle!Crash, Lifecycle!Quiet, NewScenarioRuntime, NoWork
  <1> QED BY <1>1, <1>2, <1>3
          DEF Next, BalanceMessage, TopicMessage, Reload, Elapse, vars, Lifecycle!Next

\* on_start and on_end alternate, the on_end is the one of the definition that was
\* started, and a scenario ended by its duration starts again only after its `when`
\* was unmet: for every set of scenarios and every valid document.
THEOREM LifecycleProof == Spec => LifecycleSpec
  BY LifecycleInit, LifecycleStep, Invariance, PTL DEF Spec, LifecycleSpec, Lifecycle!Spec

-----------------------------------------------------------------------------
(***************************************************************************)
(* What the ticks leave behind, whatever document was in force.              *)
(***************************************************************************)
\* What a tick noted lies in its past.
Noted ==
  /\ lastTick # None => lastTick <= now
  /\ \A s \in Scenarios :
       /\ runtime[s].last_step_at # None =>
            lastTick # None /\ runtime[s].last_step_at <= lastTick
       /\ \A i \in Positions :
            unmetAt[s][i] # None => lastTick # None /\ unmetAt[s][i] <= lastTick

\* A hold timer is younger than the last tick that found its condition unmet.
TimersRestart ==
  \A s \in Scenarios, i \in Positions :
    runtime[s].when[i].since # None /\ unmetAt[s][i] # None =>
      unmetAt[s][i] < runtime[s].when[i].since

\* A regulator that took a step since its balance is gone has fallen back.
StaleFallsBack ==
  \A s \in Scenarios : staleSince[s] # None =>
    /\ Active(runtime[s])
    /\ runtime[s].last_step_at # None /\ runtime[s].last_step_at >= staleSince[s] =>
         runtime[s].phase = "fallback"

TicksInv == Noted /\ TimersRestart /\ StaleFallsBack

FullInv == IInv /\ TicksInv

\* What a tick does with one scenario.
LEMMA TickOfScenario ==
  ASSUME IInv, Tick, NEW s \in Scenarios
  PROVE  \E choice \in Choices :
           /\ runtime'[s] = Step(s, choice).rt /\ did'[s] = Step(s, choice).did
           /\ StepsWell(runtime[s], Step(s, choice))
  <1>1. PICK choice \in Choices :
          runtime'[s] = Step(s, choice).rt /\ did'[s] = Step(s, choice).did
    BY DEF Tick
  <1> QED BY <1>1, StepSteps

\* The scenario that runs is whole, and its document valid.
LEMMA InvWhole ==
  ASSUME IInv
  PROVE  /\ doc \in Docs /\ now \in Nat /\ now # None
         /\ World.balance \in Int \cup {None, NoField} /\ World.now = now
         /\ \A s \in Scenarios : Whole(runtime[s])
  <1>1. World.balance \in Int \cup {None, NoField} /\ World.now = now
    BY InputAssumption DEF IInv, TypeOK, World
  <1> QED BY <1>1, SentinelAssumption DEF IInv, TypeOK, RunningKnowsItsEnd, Whole

\* The timers of `when` after a tick: evaluated from those before or from fresh ones,
\* or fresh.
LEMMA TickTimersOf ==
  ASSUME IInv, Tick, NEW s \in Scenarios
  PROVE  \/ runtime'[s].when = FreshConditions
         \/ /\ s \in DOMAIN doc.scenarios
            /\ \/ runtime'[s].when = EvaluateAll(Def(s).when, runtime[s].when, World)
               \/ runtime'[s].when = EvaluateAll(Def(s).when, FreshConditions, World)
  <1>1. PICK choice \in Choices : runtime'[s] = Step(s, choice).rt
    BY TickOfScenario
  <1> QED BY <1>1, InvWhole, RemoveSteps, SwitchOffSteps, ContinueSteps, WaitSteps DEF Step

\* A timer that runs after a tick ran before it, or starts now because the tick found
\* its condition met; either way the tick did not find it unmet.
LEMMA TickTimer ==
  ASSUME IInv, Tick, NEW s \in Scenarios, NEW i \in Positions,
         runtime'[s].when[i].since # None
  PROVE  /\ runtime'[s].when[i].since \in {runtime[s].when[i].since, now}
         /\ unmetAt'[s][i] = unmetAt[s][i]
  <1>1. FreshConditions[i] = NewConditionRuntime /\ NewConditionRuntime.since = None
    BY DEF FreshConditions, NewConditionRuntime
  <1>2. s \in DOMAIN doc.scenarios
    BY <1>1, TickTimersOf
  <1>3. unmetAt'[s][i] = IF UnmetNow(s, i) THEN now ELSE unmetAt[s][i]
    BY DEF Tick, RecordTick
  <1>4. CASE i \notin DOMAIN Def(s).when
    <2>1. runtime'[s].when[i] \in {runtime[s].when[i], FreshConditions[i]}
      BY <1>4, TickTimersOf DEF EvaluateAll
    <2> QED BY <1>1, <1>3, <1>4, <2>1 DEF UnmetNow
  <1>5. CASE i \in DOMAIN Def(s).when
    <2>1. PICK c, crt : c = Def(s).when[i] /\ crt = runtime[s].when[i]
      OBVIOUS
    <2>2. c \in Condition
      BY <1>2, <1>5, <2>1, InvWhole, DocumentScenario, ListType
    <2>3. runtime'[s].when[i] \in {EvaluateOne(c, crt, World),
                                   EvaluateOne(c, NewConditionRuntime, World)}
      BY <1>1, <1>5, <2>1, TickTimersOf DEF EvaluateAll
    <2>4. CASE runtime'[s].when[i] = EvaluateOne(c, crt, World)
      <3>1. Met(c, crt, World) /\ runtime'[s].when[i].since \in {crt.since, now}
        BY <2>4, InvWhole DEF EvaluateOne, Since
      <3> QED BY <1>3, <2>1, <3>1 DEF UnmetNow
    <2>5. CASE runtime'[s].when[i] = EvaluateOne(c, NewConditionRuntime, World)
      <3>1. Met(c, NewConditionRuntime, World) /\ runtime'[s].when[i].since = now
        BY <1>1, <2>5, InvWhole DEF EvaluateOne, Since
      <3>2. Met(c, crt, World)
        BY <2>2, <3>1, InvWhole, FreshMetIsMet
      <3> QED BY <1>3, <2>1, <3>1, <3>2 DEF UnmetNow
    <2> QED BY <2>3, <2>4, <2>5
  <1> QED BY <1>4, <1>5

\* A regulator without a balance that goes on has fallen back, unless its interval is
\* not over.
LEMMA ContinueFallsBack ==
  ASSUME doc \in Docs, now \in Nat, NEW s \in DOMAIN doc.scenarios,
         NEW choice \in Choices, NEW rt, Whole(rt), Active(rt),
         Def(s).mode = "regulate", World.balance = None,
         NEW next, next = Continue(s, rt, choice).rt, Active(next)
  PROVE  \/ /\ rt.last_step_at # None /\ now - rt.last_step_at < Interval(s)
            /\ next.last_step_at = rt.last_step_at /\ next.phase = rt.phase
         \/ next.last_step_at = now /\ next.phase = "fallback"
  <1> DEFINE evaluated == Evaluate(s, rt)
             ended == End(evaluated)
             timed == [ended EXCEPT !.rt.reason = "duration_reached", !.rt.rearm = TRUE]
             rested == [evaluated EXCEPT !.reason = None]
             why == "balance_stale"
             stepped == [rested EXCEPT !.last_step_at = now, !.reason = why]
  <1>1. rt \in ScenarioRuntime
    BY DEF Whole
  <1>2. /\ evaluated \in ScenarioRuntime
        /\ evaluated.phase = rt.phase /\ evaluated.last_step_at = rt.last_step_at
    BY <1>1, EvaluateKeeps
  <1>3. next = IF DurationReached(s, rt) THEN timed.rt
               ELSE IF EndMet(s, rt) /\ RanLongEnough(s, rt) THEN ended.rt
               ELSE RunWhile(s, rested, choice).rt
    BY DEF Continue
  <1> HIDE DEF evaluated
  <1>4. /\ rested \in ScenarioRuntime
        /\ rested.phase = rt.phase /\ rested.last_step_at = rt.last_step_at
    BY <1>2 DEF ScenarioRuntime, Reasons
  <1>5. ~Active(ended.rt) /\ ~Active(timed.rt)
    <2>1. ended.rt.phase = "idle"
      BY <1>2 DEF End, ScenarioRuntime
    <2>2. timed.rt.phase = "idle"
      BY <1>2 DEF End, ScenarioRuntime
    <2> QED BY <2>1, <2>2 DEF Active
  <1>6. next = Regulate(s, rested, choice).rt
    BY <1>3, <1>5 DEF RunWhile
  <1> HIDE DEF ended, timed, rested
  <1>7. CASE rested.last_step_at # None /\ now - rested.last_step_at < Interval(s)
    BY <1>4, <1>6, <1>7 DEF Regulate, Nothing
  <1>8. CASE ~(rested.last_step_at # None /\ now - rested.last_step_at < Interval(s))
    <2>1. next = FallBack(s, rested, choice).rt
      BY <1>6, <1>8 DEF Regulate
    <2>2. stepped.phase = rested.phase /\ stepped.last_step_at = now
      BY <1>4 DEF ScenarioRuntime
    <2>3. CASE rested.phase = "fallback"
      <3>1. next = stepped
        BY <2>1, <2>3 DEF FallBack, Nothing
      <3> QED BY <2>2, <2>3, <3>1
    <2>4. CASE rested.phase # "fallback"
      <3>1. PICK value : next = [stepped EXCEPT !.phase = "fallback", !.hasValue = value]
        BY <2>1, <2>4 DEF FallBack
      <3>2. next.phase = "fallback" /\ next.last_step_at = stepped.last_step_at
        BY <1>4, <3>1 DEF ScenarioRuntime
      <3> QED BY <2>2, <3>2
    <2> QED BY <2>3, <2>4
  <1> QED BY <1>7, <1>8

\* The same for a tick, of a scenario that regulates without a balance before and after.
LEMMA TickFallsBack ==
  ASSUME IInv, Tick, NEW s \in Scenarios, staleSince'[s] # None
  PROVE  /\ s \in DOMAIN doc.scenarios /\ Active(runtime'[s])
         /\ staleSince'[s] \in {now, staleSince[s]}
         /\ \/ /\ runtime[s].last_step_at # None
               /\ now - runtime[s].last_step_at < Interval(s)
               /\ runtime'[s].last_step_at = runtime[s].last_step_at
               /\ runtime'[s].phase = runtime[s].phase
            \/ runtime'[s].last_step_at = now /\ runtime'[s].phase = "fallback"
  <1>1. /\ s \in DOMAIN doc.scenarios /\ Active(runtime'[s]) /\ Active(runtime[s])
        /\ Def(s).mode = "regulate" /\ BalanceStale
        /\ staleSince'[s] = IF staleSince[s] = None THEN now ELSE staleSince[s]
    BY DEF Tick, RecordTick
  <1>2. PICK choice \in Choices : runtime'[s] = Step(s, choice).rt
    BY TickOfScenario
  <1>3. Def(s).enabled
    BY <1>1, <1>2, InvWhole, SwitchOffSteps DEF Step
  <1>4. runtime'[s] = Continue(s, runtime[s], choice).rt
    BY <1>1, <1>2, <1>3 DEF Step
  <1>5. World.balance = None
    BY <1>1 DEF World
  <1>6. \/ /\ runtime[s].last_step_at # None
           /\ now - runtime[s].last_step_at < Interval(s)
           /\ runtime'[s].last_step_at = runtime[s].last_step_at
           /\ runtime'[s].phase = runtime[s].phase
        \/ runtime'[s].last_step_at = now /\ runtime'[s].phase = "fallback"
    BY <1>1, <1>4, <1>5, InvWhole, ContinueFallsBack
  <1> QED BY <1>1, <1>6

-----------------------------------------------------------------------------
(***************************************************************************)
(* What the ticks leave behind is an invariant.                             *)
(***************************************************************************)
LEMMA InitTicks == Init => TicksInv
  BY DEF Init, TicksInv, Noted, TimersRestart, StaleFallsBack, NewScenarioRuntime

\* What a tick notes is at most its own time.
LEMMA TickNoted ==
  ASSUME FullInv, Tick
  PROVE  Noted'
  <1>1. IInv /\ Noted /\ now \in Nat /\ now' = now /\ lastTick' = now
    BY InvWhole DEF FullInv, TicksInv, Tick
  <1>2. lastTick \in Nat \cup {None}
    BY <1>1 DEF IInv, TypeOK, Instant
  <1>3. ASSUME NEW s \in Scenarios, runtime'[s].last_step_at # None
        PROVE  runtime'[s].last_step_at <= now
    <2>1. runtime'[s].last_step_at \in {now, runtime[s].last_step_at}
      BY <1>1, <1>3, TickOfScenario DEF StepsWell
    <2>2. runtime[s].last_step_at \in Nat \cup {None}
      BY <1>1 DEF IInv, TypeOK, ScenarioRuntime, Instant
    <2> QED BY <1>1, <1>2, <1>3, <2>1, <2>2 DEF Noted
  <1>4. ASSUME NEW s \in Scenarios, NEW i \in Positions, unmetAt'[s][i] # None
        PROVE  unmetAt'[s][i] <= now
    <2>1. unmetAt'[s][i] \in {now, unmetAt[s][i]}
      BY DEF Tick, RecordTick
    <2>2. unmetAt[s][i] \in Nat \cup {None}
      BY <1>1 DEF IInv, TypeOK, Instant
    <2> QED BY <1>1, <1>2, <1>4, <2>1, <2>2 DEF Noted
  <1> QED BY <1>1, <1>3, <1>4, InvWhole DEF Noted

\* A timer that starts now starts after every tick that found its condition unmet.
LEMMA TickTimersRestart ==
  ASSUME FullInv, Tick
  PROVE  TimersRestart'
  <1> SUFFICES ASSUME NEW s \in Scenarios, NEW i \in Positions,
                      runtime'[s].when[i].since # None, unmetAt'[s][i] # None
               PROVE  unmetAt'[s][i] < runtime'[s].when[i].since
    BY DEF TimersRestart
  <1>1. /\ runtime'[s].when[i].since \in {runtime[s].when[i].since, now}
        /\ unmetAt'[s][i] = unmetAt[s][i]
    BY TickTimer DEF FullInv
  <1>2. unmetAt[s][i] < now
    <2>1. lastTick # None /\ unmetAt[s][i] <= lastTick /\ lastTick < now
      BY <1>1 DEF FullInv, TicksInv, Noted, Tick
    <2>2. lastTick \in Nat /\ unmetAt[s][i] \in Nat /\ now \in Nat
      BY <1>1, <2>1 DEF FullInv, IInv, TypeOK, Instant
    <2> QED BY <2>1, <2>2
  <1> QED BY <1>1, <1>2 DEF FullInv, TicksInv, TimersRestart

\* A regulator steps on a tick after its balance is gone only by falling back.
LEMMA TickStaleFallsBack ==
  ASSUME FullInv, Tick
  PROVE  StaleFallsBack'
  <1> SUFFICES ASSUME NEW s \in Scenarios, staleSince'[s] # None
               PROVE  /\ Active(runtime'[s])
                      /\ /\ runtime'[s].last_step_at # None
                         /\ runtime'[s].last_step_at >= staleSince'[s]
                         => runtime'[s].phase = "fallback"
    BY DEF StaleFallsBack, Active
  <1>1. /\ Active(runtime'[s])
        /\ staleSince'[s] \in {now, staleSince[s]}
        /\ \/ /\ runtime'[s].last_step_at = runtime[s].last_step_at
              /\ runtime'[s].phase = runtime[s].phase
           \/ runtime'[s].phase = "fallback"
    BY TickFallsBack DEF FullInv
  <1>2. runtime[s].last_step_at # None => runtime[s].last_step_at < now
    <2>1. runtime[s].last_step_at # None =>
            lastTick # None /\ runtime[s].last_step_at <= lastTick /\ lastTick < now
      BY DEF FullInv, TicksInv, Noted, Tick
    <2>2. /\ lastTick \in Nat \cup {None} /\ now \in Nat
          /\ runtime[s].last_step_at \in Nat \cup {None}
      BY DEF FullInv, IInv, TypeOK, ScenarioRuntime, Instant
    <2> QED BY <2>1, <2>2
  <1>3. now \in Nat /\ runtime[s].last_step_at \in Nat \cup {None}
    BY DEF FullInv, IInv, TypeOK, ScenarioRuntime, Instant
  <1>4. CASE staleSince'[s] = now
    BY <1>1, <1>2, <1>3, <1>4
  <1>5. CASE staleSince'[s] = staleSince[s]
    BY <1>1, <1>5 DEF FullInv, TicksInv, StaleFallsBack
  <1> QED BY <1>1, <1>4, <1>5

\* Every step keeps what the ticks leave behind.
LEMMA TicksStep == FullInv /\ [Next]_vars => TicksInv'
  <1> SUFFICES ASSUME FullInv, [Next]_vars PROVE TicksInv'
    OBVIOUS
  <1> USE DEF history
  <1>1. CASE Tick
    BY <1>1, TickNoted, TickTimersRestart, TickStaleFallsBack DEF TicksInv
  <1>2. ASSUME UNCHANGED <<lastTick, runtime, history>>, now' \in Nat, now <= now'
        PROVE  TicksInv'
    <2>1. now \in Nat /\ lastTick \in Nat \cup {None}
      BY DEF FullInv, IInv, TypeOK, Instant
    <2> QED BY <1>2, <2>1
            DEF FullInv, TicksInv, Noted, TimersRestart, StaleFallsBack, Active
  <1>3. ASSUME NEW d \in Docs, Restart(d) PROVE TicksInv'
    BY <1>3 DEF Restart, TicksInv, Noted, TimersRestart, StaleFallsBack, NewScenarioRuntime
  <1>4. now \in Nat
    BY DEF FullInv, IInv, TypeOK
  <1> QED BY <1>1, <1>2, <1>3, <1>4
          DEF Next, BalanceMessage, TopicMessage, Reload, Elapse, vars

\* The full invariant holds in every state that is reached.
LEMMA FullInvariance == Spec => []FullInv
  <1>1. Init => FullInv
    BY InitInv, InitTicks DEF FullInv
  <1>2. FullInv /\ [Next]_vars => FullInv'
    BY StepInv, TicksStep DEF FullInv
  <1> QED BY <1>1, <1>2, PTL DEF Spec

-----------------------------------------------------------------------------
(***************************************************************************)
(* What follows for the scenarios.                                          *)
(***************************************************************************)
\* Only a tick runs chains.
LEMMA OnlyTicksRun ==
  ASSUME [Next]_vars, lastTick' # lastTick, NEW s \in Scenarios,
         did'[s] # NoWork \/ staleSince'[s] # None
  PROVE  Tick
  <1>1. ASSUME NEW d \in Docs, Restart(d) PROVE FALSE
    BY <1>1 DEF Restart
  <1> QED BY <1>1 DEF Next, BalanceMessage, TopicMessage, Reload, Elapse, vars

\* A list of conditions that need the balance is stale without it, and none of them met.
LEMMA BalanceListIsStale ==
  ASSUME BalanceStale, NEW conds \in ConditionLists,
         \A i \in DOMAIN conds : conds[i].type = "balance_threshold"
  PROVE  SawStale(conds, World) /\ \A crts : ~AllHeld(conds, crts, World)
  <1>1. 1 \in DOMAIN conds
    BY DEF ConditionLists, Positions
  <1>2. NeedsStaleBalance(conds[1], World)
    BY <1>1 DEF NeedsStaleBalance, World
  <1>3. \A crts : ~Held(conds[1], crts[1], World)
    BY <1>2, StaleIsUnmet DEF Held
  <1> QED BY <1>1, <1>2, <1>3 DEF SawStale, AllHeld

\* A balance that stops arriving ends no scenario that lives on balance conditions.
THEOREM StaleEndsNothingProof == Spec => StaleEndsNothing
  <1>1. ASSUME IInv, [Next]_vars
        PROVE  \A s \in Scenarios :
                 /\ lastTick' # lastTick /\ did'[s].on_end # None /\ BalanceStale
                 /\ s \in DOMAIN doc.scenarios /\ Def(s).enabled
                 /\ \A i \in DOMAIN Def(s).when : Def(s).when[i].type = "balance_threshold"
                 /\ \A i \in DOMAIN Def(s).until : Def(s).until[i].type = "balance_threshold"
                 => DurationReached(s, runtime[s])
    <2> SUFFICES ASSUME NEW s \in Scenarios,
                        lastTick' # lastTick, did'[s].on_end # None, BalanceStale,
                        s \in DOMAIN doc.scenarios, Def(s).enabled,
                        \A i \in DOMAIN Def(s).when : Def(s).when[i].type = "balance_threshold",
                        \A i \in DOMAIN Def(s).until : Def(s).until[i].type = "balance_threshold"
                 PROVE  DurationReached(s, runtime[s])
      OBVIOUS
    <2>1. Tick
      BY <1>1, OnlyTicksRun DEF NoWork
    <2>2. PICK choice \in Choices : did'[s] = Step(s, choice).did
      BY <1>1, <2>1, TickOfScenario
    <2>3. Active(runtime[s]) /\ did'[s] = Continue(s, runtime[s], choice).did
      BY <1>1, <2>2, InvWhole, WaitSteps DEF Step
    <2>4. DurationReached(s, runtime[s]) \/ EndMet(s, runtime[s])
      BY <1>1, <2>3, InvWhole, ContinueSteps
    <2>5. WhenStale(s)
      BY <1>1, InvWhole, DocumentScenario, BalanceListIsStale DEF WhenStale
    <2>6. Def(s).until # <<>> => ~UntilHeld(s, runtime[s])
      BY <1>1, InvWhole, DocumentScenario, BalanceListIsStale DEF UntilHeld
    <2> QED BY <2>4, <2>5, <2>6 DEF EndMet
  <1> QED BY <1>1, Invariance, PTL DEF Spec, StaleEndsNothing

\* A scenario starts only when each `when` condition was met on every tick of its hold
\* time, switched off or not, edited or not.
THEOREM HoldProof == Spec => HoldStartsOverWhenUnmet
  <1>1. ASSUME FullInv, [Next]_vars
        PROVE  \A s \in Scenarios : lastTick' # lastTick /\ did'[s].on_start # None =>
                 \A i \in DOMAIN Def(s).when :
                   unmetAt[s][i] = None \/ now - unmetAt[s][i] > Def(s).when[i].hold
    <2> SUFFICES ASSUME NEW s \in Scenarios, lastTick' # lastTick, did'[s].on_start # None,
                        NEW i \in DOMAIN Def(s).when, unmetAt[s][i] # None
                 PROVE  now - unmetAt[s][i] > Def(s).when[i].hold
      OBVIOUS
    <2>1. Tick
      BY <1>1, OnlyTicksRun DEF NoWork
    <2>2. PICK choice \in Choices :
            did'[s] = Step(s, choice).did /\ StepsWell(runtime[s], Step(s, choice))
      BY <1>1, <2>1, TickOfScenario DEF FullInv
    <2>3. StartsIn(runtime[s], Step(s, choice))
      BY <2>2 DEF StepsWell, EndsIn, StaysIn
    <2>4. s \in DOMAIN doc.scenarios /\ did'[s] = Wait(s, runtime[s], choice).did
      BY <1>1, <2>2, <2>3, InvWhole, RemoveSteps, SwitchOffSteps, ContinueSteps
         DEF Step, FullInv
    <2>5. ~Active(runtime[s])
      BY <1>1, <2>3, InvWhole DEF StartsIn, Whole, FullInv
    <2>6. WhenHeld(s, runtime[s])
      BY <1>1, <2>4, <2>5, InvWhole, WaitSteps DEF FullInv
    <2>7. PICK c, crt : c = Def(s).when[i] /\ crt = runtime[s].when[i]
      OBVIOUS
    <2>8. Held(c, crt, World)
      BY <2>6, <2>7 DEF WhenHeld, AllHeld
    <2>9. i \in Positions /\ c \in Condition /\ c.hold \in Nat /\ now \in Nat
      BY <1>1, <2>4, <2>7, InvWhole, DocumentScenario, ListType DEF FullInv
    <2>10. crt \in ConditionRuntime
      BY <1>1, <2>7, <2>9 DEF FullInv, IInv, TypeOK, ScenarioRuntime
    <2>11. /\ Since(c, crt, World) \in {now, crt.since} \ {None}
           /\ now - Since(c, crt, World) >= c.hold
      BY <1>1, <2>8, <2>9, <2>10, InvWhole, EvaluateOneType DEF FullInv
    <2>12. unmetAt[s][i] \in Nat /\ unmetAt[s][i] < now
      <3>1. lastTick # None /\ unmetAt[s][i] <= lastTick /\ lastTick < now
        BY <1>1, <2>1, <2>9 DEF FullInv, TicksInv, Noted, Tick
      <3>2. lastTick \in Nat /\ unmetAt[s][i] \in Nat /\ now \in Nat
        BY <1>1, <2>9, <3>1 DEF FullInv, IInv, TypeOK, Instant
      <3> QED BY <3>1, <3>2
    <2>13. CASE Since(c, crt, World) = now
      BY <2>7, <2>9, <2>11, <2>12, <2>13
    <2>14. CASE Since(c, crt, World) = crt.since
      <3>1. crt.since \in Nat
        BY <2>10, <2>11, <2>14 DEF ConditionRuntime, Instant
      <3>2. unmetAt[s][i] < crt.since
        BY <1>1, <2>7, <2>9, <2>11, <2>14 DEF FullInv, TicksInv, TimersRestart
      <3> QED BY <2>7, <2>9, <2>11, <2>12, <2>14, <3>1, <3>2
    <2> QED BY <2>11, <2>13, <2>14
  <1> QED BY <1>1, FullInvariance, PTL DEF Spec, HoldStartsOverWhenUnmet

\* A regulator without a balance has fallen back on the first tick that is an interval
\* later.
THEOREM FallbackProof == Spec => FallbackNotLate
  <1>1. ASSUME FullInv, [Next]_vars
        PROVE  \A s \in DOMAIN doc.scenarios :
                 /\ lastTick' # lastTick /\ staleSince'[s] # None
                 /\ now - staleSince'[s] >= Interval(s)
                 => runtime'[s].phase = "fallback"
    <2> SUFFICES ASSUME NEW s \in DOMAIN doc.scenarios, lastTick' # lastTick,
                        staleSince'[s] # None, now - staleSince'[s] >= Interval(s)
                 PROVE  runtime'[s].phase = "fallback"
      OBVIOUS
    <2>0. s \in Scenarios /\ doc \in Docs /\ now \in Nat
      BY <1>1, InvWhole, DocumentScenario DEF FullInv
    <2>1. Tick
      BY <1>1, <2>0, OnlyTicksRun
    <2>2. CASE /\ runtime[s].last_step_at # None
               /\ now - runtime[s].last_step_at < Interval(s)
               /\ runtime'[s].last_step_at = runtime[s].last_step_at
      <3>1. Interval(s) \in Nat
        BY <2>0, DocumentScenario, DocsAssumption
           DEF Interval, Settings, Scenario, IsDocument
      <3>2. runtime[s].last_step_at \in Nat
        BY <1>1, <2>0, <2>2 DEF FullInv, IInv, TypeOK, ScenarioRuntime, Instant
      <3>3. staleSince'[s] \in Nat
        BY <1>1, <2>0, <2>1, TickFallsBack DEF FullInv, IInv, TypeOK, Instant
      <3>4. runtime'[s].last_step_at # None /\ runtime'[s].last_step_at >= staleSince'[s]
        BY <2>0, <2>2, <3>1, <3>2, <3>3
      <3> QED BY <1>1, <2>0, <2>1, <3>4, TickStaleFallsBack DEF StaleFallsBack
    <2> QED BY <1>1, <2>0, <2>1, <2>2, TickFallsBack DEF FullInv
  <1> QED BY <1>1, FullInvariance, PTL DEF Spec, FallbackNotLate
===============================================================================
