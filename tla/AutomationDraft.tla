---------------------------- MODULE AutomationDraft ----------------------------
(***************************************************************************)
(* One automation being edited (dashboard/internal/webui/static/js:         *)
(* automations.page.js, automations-scenario.js, automations-devices.js):   *)
(* the conditions and actions of a rule, the regulator of a scenario, and   *)
(* the device picker every choice of a device waits for.                    *)
(*                                                                         *)
(* A value is what tells its kind: a payload is "none" (no key), "empty",   *)
(* "number", "on" or "off".  The picker is modal; only the catalogue may    *)
(* be read again behind it.                                                 *)
(***************************************************************************)
EXTENDS Naturals, Sequences, SequencesExt

CONSTANTS
  Entities,   \* function: unique id -> [group, switch, bounds, readable]
  Absent,     \* nothing chosen
  MaxParts    \* bound on conditions, actions and regulator together

VARIABLES
  conditions, actions,
  repeats,       \* repeat_seconds is set
  regulator,     \* of the scenario: Absent unless it regulates
  emptied,       \* history: the user emptied the fallback
  picker,        \* what the open picker is for
  topics         \* the catalogue: command topic of each entity, Absent when it is gone

draftVars == <<conditions, actions, repeats, regulator, emptied, picker, topics>>
partVars == <<conditions, actions, repeats>>
regulatorVars == <<regulator, emptied>>

Names == DOMAIN Entities
Known(id) == id \in Names /\ topics[id] # Absent
SwitchCandidates == {id \in Names : Known(id) /\ Entities[id].switch}
SetpointCandidates == {id \in Names : Known(id) /\ Entities[id].bounds}
MeterCandidates == {id \in Names : Known(id) /\ Entities[id].readable}

Parts == Len(conditions) + Len(actions) + (IF regulator = Absent THEN 0 ELSE 1)

Closed == picker = Absent
Open(purpose, index) ==
  /\ Closed /\ picker' = [for |-> purpose, at |-> index]
  /\ UNCHANGED <<partVars, regulatorVars, topics>>

--------------------------------------------------------------------------
(* Conditions.                                                              *)

Condition(type, comparison) ==
  [type |-> type, comparison |-> comparison, value |-> type # "time", maxAge |-> FALSE, entity |-> Absent]

AddCondition(type) ==
  /\ Closed /\ Parts < MaxParts
  /\ conditions' = Append(conditions, Condition(type, IF type = "balance" THEN "above"
                                                      ELSE IF type = "entity" THEN "below" ELSE "none"))
  /\ UNCHANGED <<actions, repeats, regulatorVars, picker, topics>>

RemoveCondition(i) ==
  /\ Closed /\ i \in DOMAIN conditions
  /\ conditions' = RemoveAt(conditions, i)
  /\ UNCHANGED <<actions, repeats, regulatorVars, picker, topics>>

Comparisons(type) ==
  CASE type = "balance" -> {"above", "below"}
    [] type = "entity" -> {"above", "below", "equals", "not_equals", "stale"}
    [] OTHER -> {}

\* "stale" needs an age, everything else a value.
Compared(c, comparison) ==
  IF comparison = "stale" THEN [c EXCEPT !.comparison = comparison, !.maxAge = TRUE]
  ELSE IF c.comparison # "stale" THEN [c EXCEPT !.comparison = comparison]
  ELSE [c EXCEPT !.comparison = comparison, !.maxAge = FALSE, !.value = TRUE]

SetComparison(i, comparison) ==
  /\ Closed /\ i \in DOMAIN conditions /\ comparison \in Comparisons(conditions[i].type)
  /\ conditions' = [conditions EXCEPT ![i] = Compared(@, comparison)]
  /\ UNCHANGED <<actions, repeats, regulatorVars, picker, topics>>

--------------------------------------------------------------------------
(* Actions.                                                                 *)

Publish(id, topic, source, payload, field, bounds) ==
  [type |-> "publish", entity |-> id, topic |-> topic, source |-> source,
   payload |-> payload, field |-> field, bounds |-> bounds]

BuildSwitchAction(id, state) == Publish(id, topics[id], "constant", state, FALSE, FALSE)
BuildToggleAction(id) == Publish(id, topics[id], "toggle", "none", FALSE, FALSE)
BuildSetpointAction(id, balance, payload) ==
  Publish(id, topics[id], IF balance THEN "balance" ELSE "constant",
          IF balance THEN "none" ELSE payload, balance, Entities[id].bounds)
BuildMqttAction == Publish(Absent, "", "constant", "empty", FALSE, FALSE)
BuildNotification ==
  [Publish(Absent, "", "none", "none", FALSE, FALSE) EXCEPT !.type = "notification"]

\* By its id, else by the topic.
ActionEntity(a) ==
  IF a.type # "publish" THEN Absent
  ELSE IF a.entity # Absent THEN (IF Known(a.entity) THEN a.entity ELSE Absent)
  ELSE IF \E id \in Names : Known(id) /\ topics[id] = a.topic
         THEN CHOOSE id \in Names : Known(id) /\ topics[id] = a.topic ELSE Absent

ActionKind(a) ==
  LET id == ActionEntity(a)
      device == a.type = "publish" /\ (id # Absent \/ a.entity # Absent)
  IN IF a.type = "notification" THEN "notify"
     ELSE IF device /\ (a.source = "toggle"
                        \/ (id # Absent /\ Entities[id].switch /\ a.payload \in {"on", "off"}))
       THEN "switch"
     ELSE IF device /\ (a.bounds \/ (id # Absent /\ Entities[id].bounds)) THEN "setpoint" ELSE "mqtt"

AddPlainAction(kind) ==
  /\ Closed /\ Parts < MaxParts
  /\ actions' = Append(actions, IF kind = "notify" THEN BuildNotification ELSE BuildMqttAction)
  /\ UNCHANGED <<conditions, repeats, regulatorVars, picker, topics>>

AddDeviceAction == Parts < MaxParts /\ Open("add", 0)

RemoveAction(i) ==
  /\ Closed /\ i \in DOMAIN actions
  /\ actions' = RemoveAt(actions, i)
  /\ UNCHANGED <<conditions, repeats, regulatorVars, picker, topics>>

SetSwitchState(i, state) ==
  /\ Closed /\ i \in DOMAIN actions /\ ActionEntity(actions[i]) # Absent /\ ActionKind(actions[i]) = "switch"
  /\ LET id == ActionEntity(actions[i])
     IN actions' = [actions EXCEPT ![i] = IF state = "toggle" THEN BuildToggleAction(id)
                                          ELSE BuildSwitchAction(id, state)]
  /\ UNCHANGED <<conditions, repeats, regulatorVars, picker, topics>>

\* A fixed value, or one from the balance.
FromSource(a, mode) ==
  IF mode = "balance" THEN [a EXCEPT !.source = mode, !.field = TRUE, !.payload = "none"]
  ELSE [a EXCEPT !.source = mode, !.field = FALSE, !.payload = IF @ = "none" THEN "empty" ELSE @]

SetSetpointSource(i, mode) ==
  /\ Closed /\ i \in DOMAIN actions /\ ActionKind(actions[i]) = "setpoint"
  /\ actions' = [actions EXCEPT ![i] = FromSource(@, mode)]
  /\ UNCHANGED <<conditions, repeats, regulatorVars, picker, topics>>

\* Free text: the topic of an MQTT action.
TypeTopic(i, id) ==
  /\ Closed /\ i \in DOMAIN actions /\ ActionKind(actions[i]) = "mqtt" /\ Known(id)
  /\ actions[i].type = "publish"
  /\ actions' = [actions EXCEPT ![i].topic = topics[id]]
  /\ UNCHANGED <<conditions, repeats, regulatorVars, picker, topics>>

ChooseActionDevice(i) ==
  i \in DOMAIN actions /\ ActionKind(actions[i]) \in {"switch", "setpoint"} /\ Open("action", i)

ChooseConditionEntity(i) ==
  i \in DOMAIN conditions /\ conditions[i].type = "entity" /\ Open("condition", i)

HasToggleAction == \E i \in DOMAIN actions : actions[i].source = "toggle"

SetRepeatMode(on) ==
  /\ Closed /\ (on => ~HasToggleAction)
  /\ repeats' = on
  /\ UNCHANGED <<conditions, actions, regulatorVars, picker, topics>>

--------------------------------------------------------------------------
(* The regulator of a scenario.                                             *)

SetWhileMode(mode) ==
  /\ Closed /\ (mode = "regulate" /\ regulator = Absent => Parts < MaxParts)
  /\ regulator' = IF mode = "regulate"
                    THEN [output |-> Absent, direction |-> "producer", base |-> "last", fallback |-> "set"]
                    ELSE Absent
  /\ emptied' = FALSE
  /\ UNCHANGED <<partVars, picker, topics>>

\* An inverter needs a fallback; a missing one becomes the upper limit.
Directed(r, direction) ==
  [r EXCEPT !.direction = direction,
            !.fallback = IF direction = "producer" THEN "set" ELSE @]

SetRegulatorDirection(direction) ==
  /\ Closed /\ regulator # Absent
  /\ regulator' = Directed(regulator, direction)
  /\ emptied' = (emptied /\ direction # "producer")
  /\ UNCHANGED <<partVars, picker, topics>>

EmptyFallback ==
  /\ Closed /\ regulator # Absent /\ regulator.fallback = "set"
  /\ regulator' = [regulator EXCEPT !.fallback = ""] /\ emptied' = TRUE
  /\ UNCHANGED <<partVars, picker, topics>>

SetRegulatorBase(source) ==
  /\ Closed /\ regulator # Absent /\ regulator' = [regulator EXCEPT !.base = source]
  /\ UNCHANGED <<partVars, emptied, picker, topics>>

ChooseActuator == regulator # Absent /\ Open("actuator", 0)
ChooseMeter == regulator # Absent /\ Open("meter", 0)

\* The role of the device may turn the direction.
WithOutput(r, id) ==
  LET turned == CASE Entities[id].group \in {"wallbox", "heat_pump"} -> Directed(r, "consumer")
                  [] Entities[id].group = "inverter" -> Directed(r, "producer")
                  [] OTHER -> r
  IN [turned EXCEPT !.output = id, !.fallback = IF turned.direction = "producer" THEN "set" ELSE @]

--------------------------------------------------------------------------
(* The picker's answer, and the catalogue behind it.                        *)

PickerCandidates ==
  CASE picker.for = "add" -> SwitchCandidates \cup SetpointCandidates
    [] picker.for = "action" -> IF ActionKind(actions[picker.at]) = "switch" THEN SwitchCandidates
                                ELSE SetpointCandidates
    [] picker.for = "actuator" -> SetpointCandidates
    [] OTHER -> MeterCandidates

\* The action as it is when the picker answers, on the chosen device.
OnDevice(a, id) ==
  IF ActionKind(a) = "switch"
    THEN IF a.source = "toggle" THEN BuildToggleAction(id)
         ELSE BuildSwitchAction(id, IF a.payload = "off" THEN "off" ELSE "on")
    ELSE BuildSetpointAction(id, a.source = "balance", IF a.payload = "none" THEN "empty" ELSE a.payload)

Picked(id) ==
  /\ ~Closed /\ id \in PickerCandidates /\ picker' = Absent
  /\ actions' = CASE picker.for = "add" -> Append(actions, IF Entities[id].switch THEN BuildSwitchAction(id, "on")
                                                           ELSE BuildSetpointAction(id, FALSE, "number"))
                  [] picker.for = "action" -> [actions EXCEPT ![picker.at] = OnDevice(@, id)]
                  [] OTHER -> actions
  /\ conditions' = IF picker.for = "condition" THEN [conditions EXCEPT ![picker.at].entity = id] ELSE conditions
  /\ regulator' = CASE picker.for = "actuator" -> WithOutput(regulator, id)
                    [] picker.for = "meter" -> [regulator EXCEPT !.base = "entity"]
                    [] OTHER -> regulator
  /\ emptied' = (emptied /\ regulator' # Absent /\ regulator'.fallback = "")
  /\ UNCHANGED <<repeats, topics>>

Cancelled ==
  /\ ~Closed /\ picker' = Absent
  /\ UNCHANGED <<partVars, regulatorVars, topics>>

\* A device is gone, or back.
CatalogueRead(id) ==
  /\ topics' = [topics EXCEPT ![id] = IF @ = Absent THEN id ELSE Absent]
  /\ UNCHANGED <<partVars, regulatorVars, picker>>

--------------------------------------------------------------------------
Init ==
  /\ conditions = <<>> /\ actions = <<>> /\ repeats = FALSE
  /\ regulator = Absent /\ emptied = FALSE /\ picker = Absent
  /\ topics = [id \in Names |-> id]

Next ==
  \/ \E type \in {"balance", "entity", "time"} : AddCondition(type)
  \/ \E i \in 1 .. MaxParts :
       \/ RemoveCondition(i) \/ RemoveAction(i) \/ ChooseActionDevice(i) \/ ChooseConditionEntity(i)
       \/ \E comparison \in Comparisons("entity") : SetComparison(i, comparison)
       \/ \E state \in {"on", "off", "toggle"} : SetSwitchState(i, state)
       \/ \E mode \in {"balance", "constant"} : SetSetpointSource(i, mode)
       \/ \E id \in Names : TypeTopic(i, id)
  \/ \E kind \in {"notify", "mqtt"} : AddPlainAction(kind)
  \/ AddDeviceAction \/ ChooseActuator \/ ChooseMeter \/ EmptyFallback \/ Cancelled
  \/ \E on \in BOOLEAN : SetRepeatMode(on)
  \/ \E mode \in {"none", "hold", "regulate"} : SetWhileMode(mode)
  \/ \E direction \in {"producer", "consumer"} : SetRegulatorDirection(direction)
  \/ \E source \in {"balance", "last"} : SetRegulatorBase(source)
  \/ \E id \in Names : Picked(id) \/ CatalogueRead(id)

Spec == Init /\ [][Next]_draftVars

--------------------------------------------------------------------------
\* Whatever order the buttons were pressed in, and whatever the catalogue did behind the
\* picker: the keys of an action are the ones its source reads, no more and no fewer.
SourceFits ==
  \A i \in DOMAIN actions :
    LET a == actions[i]
    IN a.type = "publish" => /\ a.field <=> a.source = "balance"
                             /\ (a.payload # "none") <=> a.source = "constant"
                             /\ a.source = "toggle" => Entities[a.entity].switch

\* A comparison always has what it compares with: an age for "stale", else a value.
OperandFits ==
  \A i \in DOMAIN conditions :
    LET c == conditions[i]
    IN c.type # "time" => IF c.comparison = "stale" THEN c.maxAge ELSE c.value /\ ~c.maxAge

\* A regulated inverter has a fallback, by whichever way the direction and the device
\* came about, unless the user emptied it.
ProducerHasFallback ==
  (regulator # Absent /\ regulator.direction = "producer") => (regulator.fallback = "set" \/ emptied)
==============================================================================
