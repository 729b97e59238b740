------------------------------ MODULE Conditions ------------------------------
(***************************************************************************)
(* The conditions of services/automation/automation_mqtt.py: what makes a  *)
(* condition of a rule or a scenario true on a tick, the hysteresis latch, *)
(* the hold time, and the AND over all conditions.  Rules (RuleEngine) and *)
(* scenarios (ScenarioEngine) evaluate their conditions with exactly these *)
(* operators, as Engine and ScenarioEngine share evaluate_conditions.      *)
(*                                                                         *)
(* A "world" is what one evaluation reads:                                 *)
(*   [balance, topics, seen, now, started]                                 *)
(* balance is None when no balance is known or the last one is too old, and *)
(* NoField when the document lacks the field; a topic's payload is None     *)
(* before its first message and Unparseable when no value can be read.      *)
(***************************************************************************)
EXTENDS Integers, Sequences, TLAPS

CONSTANTS
  None,           \* Python's None
  NoField,        \* a balance document without the field a condition names
  Unparseable,    \* a payload a condition cannot read a value from
  Topics,         \* topics conditions read
  MaxConditions   \* the longest condition list (8 in the code)

ASSUME SentinelAssumption ==
  /\ None \notin Int /\ NoField \notin Int /\ Unparseable \notin Int
  /\ None # NoField /\ None # Unparseable

ASSUME MaxConditionsAssumption == MaxConditions \in Nat \ {0}

Positions == 1..MaxConditions

Instant == Nat \cup {None}

(***************************************************************************)
(* Condition definitions, as _validate_condition lets them pass.  A window  *)
(* has no hold_seconds; cond.get("hold_seconds", 0) reads 0 there.          *)
(***************************************************************************)
Comparisons == {"above", "below"}

BalanceThreshold ==
  [type : {"balance_threshold"}, comparison : Comparisons, threshold : Int,
   hysteresis : Nat, hold : Nat]

TopicValue ==
  [type : {"topic_value"}, topic : Topics,
   comparison : Comparisons \cup {"equals", "not_equals"}, value : Int, hold : Nat]

TopicStale == [type : {"topic_stale"}, topic : Topics, max_age : Nat \ {0}, hold : Nat]

TimeWindow == [type : {"time_window"}, start : Int, end : Int, hold : {0}]

Condition == BalanceThreshold \cup TopicValue \cup TopicStale \cup TimeWindow

ConditionLists == {s \in Seq(Condition) : Len(s) \in Positions}

HasHoldSeconds(c) == c.type # "time_window"

(***************************************************************************)
(* evaluate_condition_raw and its helpers.                                 *)
(***************************************************************************)
Compare(value, comparison, threshold) ==
  \/ comparison = "above" /\ value > threshold
  \/ comparison = "below" /\ value < threshold
  \/ comparison = "equals" /\ value = threshold
  \/ comparison = "not_equals" /\ value # threshold

\* A topic never heard of counts as silent since the service started.
TopicAge(topic, w) ==
  w.now - (IF w.seen[topic] = None THEN w.started ELSE w.seen[topic])

RawMet(c, w) ==
  \/ /\ c.type = "balance_threshold"
     /\ w.balance \notin {None, NoField}
     /\ Compare(w.balance, c.comparison, c.threshold)
  \/ /\ c.type = "topic_value"
     /\ w.topics[c.topic] \notin {None, Unparseable}
     /\ Compare(w.topics[c.topic], c.comparison, c.value)
  \/ /\ c.type = "topic_stale"
     /\ TopicAge(c.topic, w) > c.max_age
  \/ /\ c.type = "time_window"
     /\ c.start <= w.now /\ w.now < c.end

\* The reason "balance_stale" of one condition.
NeedsStaleBalance(c, w) == c.type = "balance_threshold" /\ w.balance = None

(***************************************************************************)
(* ConditionRuntime and _apply_hysteresis: the latch moves only when the    *)
(* balance has a value for the field; otherwise it keeps its last state.    *)
(***************************************************************************)
ConditionRuntime == [since : Instant, latched : BOOLEAN]

NewConditionRuntime == [since |-> None, latched |-> FALSE]

HysteresisApplies(c, w) ==
  /\ c.type = "balance_threshold"
  /\ c.hysteresis > 0
  /\ w.balance \notin {None, NoField}

StaysOn(c, value) ==
  \/ c.comparison = "above" /\ value >= c.threshold - c.hysteresis
  \/ c.comparison = "below" /\ value <= c.threshold + c.hysteresis

\* Mutants: the latch turns on at the lower edge; the hold ends a second late; the
\* hold keeps running through a tick that finds the condition unmet.
MutLatched(c, crt, w) ==
  IF HysteresisApplies(c, w) THEN StaysOn(c, w.balance) ELSE crt.latched

Latched(c, crt, w) ==
  IF ~HysteresisApplies(c, w) THEN crt.latched
  ELSE IF crt.latched THEN StaysOn(c, w.balance)
  ELSE Compare(w.balance, c.comparison, c.threshold)

(***************************************************************************)
(* _evaluate_one: met now, the runtime it leaves behind, and held.          *)
(***************************************************************************)
Met(c, crt, w) ==
  IF HysteresisApplies(c, w) THEN Latched(c, crt, w) ELSE RawMet(c, w)

MutSince(c, crt, w) ==
  IF crt.since = None /\ Met(c, crt, w) THEN w.now ELSE crt.since

Since(c, crt, w) ==
  IF ~Met(c, crt, w) THEN None
  ELSE IF crt.since = None THEN w.now ELSE crt.since

EvaluateOne(c, crt, w) == [since |-> Since(c, crt, w), latched |-> Latched(c, crt, w)]

MutHeld(c, crt, w) == Met(c, crt, w) /\ w.now - Since(c, crt, w) > c.hold

Held(c, crt, w) == Met(c, crt, w) /\ w.now - Since(c, crt, w) >= c.hold

(***************************************************************************)
(* evaluate_conditions: condition i of the list uses the runtime at         *)
(* position i, whatever condition stood there before.                       *)
(***************************************************************************)
AllMet(conds, crts, w) == \A i \in DOMAIN conds : Met(conds[i], crts[i], w)

AllHeld(conds, crts, w) == \A i \in DOMAIN conds : Held(conds[i], crts[i], w)

SawStale(conds, w) == \E i \in DOMAIN conds : NeedsStaleBalance(conds[i], w)

\* Mutant: the runtime list shrinks to the conditions of the document.
MutEvaluateAll(conds, crts, w) ==
  [i \in DOMAIN conds |-> EvaluateOne(conds[i], crts[i], w)]

EvaluateAll(conds, crts, w) ==
  [i \in Positions |-> IF i \in DOMAIN conds THEN EvaluateOne(conds[i], crts[i], w)
                                             ELSE crts[i]]

\* `hold_seconds` of the slowest condition: what the whole rule has to wait for.
HoldsWithin(conds, seconds) == \A i \in DOMAIN conds : conds[i].hold <= seconds

-------------------------------------------------------------------------------
(***************************************************************************)
(* What the evaluation of conditions returns, for every condition list and   *)
(* every world: the lemmas RuleEngineProofs and ScenarioEngineProofs share.  *)
(***************************************************************************)

\* A list of conditions stands at positions, and every condition has a hold time.
LEMMA ListType ==
  ASSUME NEW conds \in ConditionLists
  PROVE  /\ DOMAIN conds \subseteq Positions
         /\ \A i \in DOMAIN conds : conds[i] \in Condition /\ conds[i].hold \in Nat
  <1>1. /\ conds \in Seq(Condition)
        /\ DOMAIN conds = 1..Len(conds)
        /\ Len(conds) \in 1..MaxConditions
    BY DEF ConditionLists, Positions
  <1>2. DOMAIN conds \subseteq Positions
    BY <1>1, MaxConditionsAssumption DEF Positions
  <1>3. \A i \in DOMAIN conds : conds[i] \in Condition
    BY <1>1
  <1>4. \A c \in Condition : c.hold \in Nat
    BY DEF Condition, BalanceThreshold, TopicValue, TopicStale, TimeWindow
  <1> QED BY <1>2, <1>3, <1>4

\* Evaluating a condition yields a runtime again, and its timer starts no earlier
\* than it did, or now.
LEMMA EvaluateOneType ==
  ASSUME NEW c \in Condition, NEW crt \in ConditionRuntime, NEW w, w.now \in Nat
  PROVE  /\ EvaluateOne(c, crt, w) \in ConditionRuntime
         /\ EvaluateOne(c, crt, w).since \in {None, w.now, crt.since}
         /\ Held(c, crt, w) => /\ Since(c, crt, w) \in {w.now, crt.since} \ {None}
                               /\ w.now - Since(c, crt, w) >= c.hold
  <1>1. Latched(c, crt, w) \in BOOLEAN
    <2>1. StaysOn(c, w.balance) \in BOOLEAN
      BY Zenon DEF StaysOn
    <2>2. Compare(w.balance, c.comparison, c.threshold) \in BOOLEAN
      BY Zenon DEF Compare
    <2>3. crt.latched \in BOOLEAN
      BY DEF ConditionRuntime
    <2> QED BY <2>1, <2>2, <2>3, Zenon DEF Latched
  <1>2. Since(c, crt, w) \in {None, w.now, crt.since} /\ Since(c, crt, w) \in Instant
    BY DEF Since, ConditionRuntime, Instant
  <1>3. w.now # None
    BY SentinelAssumption
  <1>4. Met(c, crt, w) => Since(c, crt, w) \in {w.now, crt.since} \ {None}
    BY <1>3 DEF Since
  <1> QED
    BY <1>1, <1>2, <1>4 DEF EvaluateOne, ConditionRuntime, Held

\* The same for the whole list: positions beyond the list keep their runtime.
LEMMA EvaluateAllType ==
  ASSUME NEW conds, DOMAIN conds \subseteq Positions,
         \A i \in DOMAIN conds : conds[i] \in Condition,
         NEW crts \in [Positions -> ConditionRuntime], NEW w, w.now \in Nat
  PROVE  /\ EvaluateAll(conds, crts, w) \in [Positions -> ConditionRuntime]
         /\ \A i \in Positions :
              EvaluateAll(conds, crts, w)[i].since \in {None, w.now, crts[i].since}
  BY EvaluateOneType DEF EvaluateAll

\* A condition that lacks its balance is not met.
LEMMA StaleIsUnmet ==
  ASSUME NEW c, NEW crt, NEW w, NeedsStaleBalance(c, w)
  PROVE  ~Met(c, crt, w)
  BY DEF NeedsStaleBalance, Met, HysteresisApplies, RawMet

\* What is met from a fresh runtime is met from any: a latch that is on only helps.
LEMMA FreshMetIsMet ==
  ASSUME NEW c \in Condition, NEW crt, NEW w, w.balance \in Int \cup {None, NoField},
         Met(c, NewConditionRuntime, w)
  PROVE  Met(c, crt, w)
  <1>1. CASE ~HysteresisApplies(c, w)
    BY <1>1 DEF Met
  <1>2. CASE HysteresisApplies(c, w)
    <2>1. w.balance \in Int /\ c \in BalanceThreshold
      BY <1>2
      DEF HysteresisApplies, Condition, BalanceThreshold, TopicValue, TopicStale, TimeWindow
    <2>2. c.threshold \in Int /\ c.hysteresis \in Nat /\ c.comparison \in Comparisons
      BY <2>1 DEF BalanceThreshold
    <2>3. Compare(w.balance, c.comparison, c.threshold)
      BY <1>2 DEF Met, Latched, NewConditionRuntime
    <2>4. StaysOn(c, w.balance)
      BY <2>1, <2>2, <2>3 DEF Compare, StaysOn, Comparisons
    <2> QED BY <1>2, <2>3, <2>4 DEF Met, Latched
  <1> QED BY <1>1, <1>2
===============================================================================
