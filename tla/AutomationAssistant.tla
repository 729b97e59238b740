-------------------------- MODULE AutomationAssistant --------------------------
(***************************************************************************)
(* The assistant dialog of the automations page (dashboard/internal/webui/  *)
(* static/js/automations.page.js): a template is started with the default   *)
(* answers, its visible steps are answered one by one, the summary leads    *)
(* back to any of them, and the entry is created.  The templates            *)
(* (automation-templates.js, automation-wizard.js): which devices a step    *)
(* offers, what is answered by default, which steps are visible, when one   *)
(* is complete, and the entry a template builds.                            *)
(*                                                                         *)
(* A device is one record of what its entities can do; an entity is the     *)
(* pair <<device, what it is>>.  A condition is the name of what it asks, a *)
(* time span is "span" or, with equal ends, "empty".  A build that throws   *)
(* gives [ok |-> FALSE].  A step of several numbers is one step per number, *)
(* and a summary row names the first of them.                               *)
(***************************************************************************)
EXTENDS Integers, Sequences, FiniteSets, SequencesExt

CONSTANTS
  MinInterval, \* publish_min_interval_s of the document
  Contexts,    \* set of [devices, soc, location]
  MaxChanges,  \* bound on answers changed
  Limit8       \* bound on entries in the lists (RULE_LIMIT, SCENARIO_LIMIT)

--------------------------------------------------------------------------
(* The devices a step offers.                                               *)

\* [id, disabled] and what a template asks of an entry.
Entry(d, disabled) == [id |-> d.id, disabled |-> disabled, device |-> d]

Listed(devices, Fits(_), Disabled(_)) ==
  LET fitting == SelectSeq(devices, Fits)
  IN [i \in DOMAIN fitting |-> Entry(fitting[i], Disabled(fitting[i]))]

HasRole(d, role) == d.role = role
NoLimit(d) == d.actuator = "none"
Taken(d) == d.regulated \/ NoLimit(d)

HardwareEntries(devices, role) == Listed(devices, LAMBDA d : HasRole(d, role), Taken)
SwitchEntries(devices) == Listed(devices, LAMBDA d : d.switch, LAMBDA d : FALSE)
HeatPumpEntries(devices) ==
  Listed(devices, LAMBDA d : HasRole(d, "heat_pump"),
         LAMBDA d : NoLimit(d) /\ ~d.switch /\ SwitchEntries(devices) = <<>>)
BatteryEntries(devices) ==
  Listed(devices, LAMBDA d : HasRole(d, "battery"), LAMBDA d : d.actuator \notin {"W", "%"})
RodEntries(devices) ==
  Listed(devices, LAMBDA d : HasRole(d, "none") /\ d.actuator \in {"W", "%"} /\ d.thermometer,
         LAMBDA d : d.regulated)
\* Heat pumps with a setpoint and wallboxes with an actuator, in a unit the signal knows.
GridTargetEntries(devices) ==
  Listed(devices, LAMBDA d : d.role \in {"heat_pump", "wallbox"} /\ ~NoLimit(d),
         LAMBDA d : (d.role = "wallbox" /\ d.regulated) \/ d.actuator \notin {"W", "A"})
ReadableEntries(devices, what) ==
  Listed(devices, LAMBDA d : IF what = "price" THEN d.price ELSE d.input, LAMBDA d : FALSE)

BuildContext(devices, soc, location) ==
  [inverter |-> HardwareEntries(devices, "pv"), wallbox |-> HardwareEntries(devices, "wallbox"),
   switch |-> SwitchEntries(devices), heat_pump |-> HeatPumpEntries(devices),
   battery |-> BatteryEntries(devices), rod |-> RodEntries(devices),
   grid_target |-> GridTargetEntries(devices), price |-> ReadableEntries(devices, "price"),
   input |-> ReadableEntries(devices, "input"),
   inverter_measured |-> Listed(devices, LAMBDA d : HasRole(d, "pv") /\ d.measured, LAMBDA d : FALSE),
   soc |-> soc, location |-> location]

Usable(list) == SelectSeq(list, LAMBDA e : ~e.disabled)
Has(list, id) == \E i \in DOMAIN list : list[i].id = id
Device(list, id) == (CHOOSE e \in ToSet(list) : e.id = id).device

--------------------------------------------------------------------------
(* The steps.                                                               *)

Pick(id, filter) == [id |-> id, type |-> "device", filter |-> filter]
Tiles(id, default, options) == [id |-> id, type |-> "tiles", default |-> default, options |-> options]
Multi(id, default, options) == [id |-> id, type |-> "multi", default |-> default, options |-> options]
Presets(id, default, other) == [id |-> id, type |-> "presets", default |-> default, other |-> other]
Number(id, min, max, default) == [id |-> id, type |-> "number", default |-> default, min |-> min, max |-> max]
Time(id) == [id |-> id, type |-> "time"]
Summary == [id |-> "summary", type |-> "summary"]

TariffSteps ==
  <<Tiles("source", "fixed", <<"fixed", "price">>), Time("window"), Pick("price", "price"),
    Presets("thr", 15, 10)>>
RestartSteps ==
  <<Multi("restart", {}, {"restart"}), Pick("switch", "switch"), Number("pause", 1, 30, 2)>>
Severity == Tiles("severity", "warning", <<"info", "warning", "critical">>)
Period == Tiles("period", "sun", <<"sun", "always", "fixed">>)
Battery == Tiles("battery", "first", <<"first", "parallel">>)
Notices == Multi("extras", {"history"}, {"notify", "history"})

SurplusWallboxSteps ==
  <<Pick("device", "wallbox"), Tiles("mode", "sun", <<"sun", "min", "battery">>),
    Number("soc", 10, 90, 40), Presets("start", 1400, 2000),
    Multi("extras", {"connected", "history"}, {"connected", "history"})>>
ZeroFeedSteps ==
  <<Pick("device", "inverter"), Tiles("measure", "own", <<"own", "balance", "last">>),
    Presets("target", 30, 60), Period, Time("window"),
    Multi("extras", {"reset", "history"}, {"reset", "notify", "history"})>>
SurplusSwitchSteps ==
  <<Pick("device", "switch"), Presets("on", 1500, 1000),
    Tiles("off", "import", <<"import", "runtime", "sunset">>), Number("runtime", 10, 600, 120),
    Multi("extras", {"repeat"}, {"weekdays", "repeat"})>>
BatteryWarnSteps == <<Presets("below", 20, 10), Severity>>
TimeSwitchSteps == <<Pick("device", "switch"), Time("window")>>
HeatPumpSteps ==
  <<Pick("device", "heat_pump"), Tiles("control", "sg", <<"sg", "setpoint">>), Pick("contact", "switch"),
    Number("lift", 1, 10, 5), Presets("start", 2500, 1500), Battery,
    Number("run", 10, 120, 30), Number("pause", 5, 60, 20), Period, Time("window"), Notices>>
TariffChargeSteps ==
  TariffSteps \o <<Pick("battery", "battery"), Number("target", 30, 100, 80), Number("power", 500, 5000, 2000),
                   Multi("extras", {"block", "history"}, {"block", "only", "notify", "history"})>>
FullMonthlySteps ==
  <<Pick("battery", "battery"), Number("day", 1, 28, 1), Tiles("source", "surplus", <<"surplus", "grid">>)>>
InverterSilentSteps ==
  <<Pick("device", "inverter_measured"), Number("minutes", 5, 120, 15), Severity,
    Number("again", 1, 24, 6)>> \o RestartSteps
LowTariffSteps == <<Pick("device", "wallbox")>> \o TariffSteps \o <<Multi("connected", {"connected"}, {"connected"})>>
GridCapSteps == <<Presets("limit", 11000, 16000), Pick("device", "wallbox"), Tiles("speed", "calm", <<"calm", "fast">>),
                  Notices>>
GridSignalSteps ==
  <<Pick("input", "input"), [id |-> "targets", type |-> "devices", filter |-> "grid_target"],
    Number("power", 1, 11, 4), Multi("extras", {"notify"}, {"notify"})>>
HeatingRodSteps == <<Pick("device", "rod"), Presets("target", 30, 60), Number("max_temp", 40, 90, 65), Battery, Notices>>
PvMissingSteps ==
  <<Pick("device", "inverter_measured"), Number("limit", 5, 200, 20), Number("minutes", 10, 120, 30),
    Severity>> \o RestartSteps

Steps(template) ==
  CASE template = "surplus_wallbox" -> SurplusWallboxSteps [] template = "zero_feed" -> ZeroFeedSteps
    [] template = "surplus_switch" -> SurplusSwitchSteps [] template = "battery_warn" -> BatteryWarnSteps
    [] template = "time_switch" -> TimeSwitchSteps [] template = "heat_pump" -> HeatPumpSteps
    [] template = "tariff" -> TariffChargeSteps [] template = "battery_full_monthly" -> FullMonthlySteps
    [] template = "inverter_silent" -> InverterSilentSteps [] template = "wallbox_low_tariff" -> LowTariffSteps
    [] template = "grid_cap" -> GridCapSteps [] template = "grid_signal" -> GridSignalSteps
    [] template = "heating_rod" -> HeatingRodSteps [] template = "pv_missing" -> PvMissingSteps

\* The devices a template needs, and whether it needs a state of charge.
RequiredDevices ==
  [surplus_wallbox |-> "wallbox", zero_feed |-> "inverter", surplus_switch |-> "switch", battery_warn |-> "",
   time_switch |-> "switch", heat_pump |-> "heat_pump", tariff |-> "battery", battery_full_monthly |-> "battery",
   inverter_silent |-> "inverter_measured", wallbox_low_tariff |-> "wallbox", grid_cap |-> "wallbox",
   grid_signal |-> "grid_target", heating_rod |-> "rod", pv_missing |-> "inverter_measured"]
Templates == DOMAIN RequiredDevices

Available(template, ctx) ==
  /\ RequiredDevices[template] # "" => Usable(ctx[RequiredDevices[template]]) # <<>>
  /\ template \in {"battery_warn", "tariff", "battery_full_monthly"} => ctx.soc

--------------------------------------------------------------------------
(* Answers.                                                                 *)

RestartChosen(a) == "restart" \in DOMAIN a /\ "restart" \in a.restart

Unavailable(step, option, ctx, a) ==
  LET pair == <<step, option>>
  IN CASE pair \in {<<"mode", "min">>, <<"period", "sun">>, <<"off", "sunset">>} -> ~ctx.location
       [] pair = <<"mode", "battery">> -> ~ctx.soc
       [] pair = <<"measure", "own">> -> ~Device(ctx.inverter, a.device).measured
       [] pair = <<"control", "sg">> -> ctx.switch = <<>>
       [] pair = <<"control", "setpoint">> ->
            LET d == Device(ctx.heat_pump, a.device) IN NoLimit(d) \/ ~d.value
       [] pair = <<"source", "price">> -> ctx.price = <<>>
       [] option = "connected" -> ~Device(ctx.wallbox, a.device).plug
       [] pair = <<"extras", "block">> -> a.battery = "" \/ ~Device(ctx.battery, a.battery).limit
       [] option = "restart" -> ~Device(ctx.inverter, a.device).switch /\ Usable(ctx.switch) = <<>>
       [] OTHER -> FALSE

OwnSwitch(ctx, id) == IF Has(ctx.heat_pump, id) /\ Device(ctx.heat_pump, id).switch THEN id ELSE ""

DefaultAnswer(step, ctx, a) ==
  CASE step.type = "device" ->
         LET usable == Usable(ctx[step.filter])
             own == IF step.id = "contact" THEN OwnSwitch(ctx, a.device)
                    ELSE IF step.id = "switch" /\ Device(ctx.inverter, a.device).switch THEN a.device ELSE ""
         IN IF own # "" /\ Has(usable, own) THEN own ELSE IF usable = <<>> THEN "" ELSE Head(usable).id
    [] step.type = "tiles" ->
         LET open == SelectSeq(step.options, LAMBDA o : ~Unavailable(step.id, o, ctx, a))
         IN IF step.default \in ToSet(open) \/ open = <<>> THEN step.default ELSE Head(open)
    [] step.type = "multi" -> {o \in step.default : ~Unavailable(step.id, o, ctx, a)}
    [] step.type = "devices" -> {}
    [] step.type = "time" -> "span"
    [] OTHER -> step.default

DefaultAnswers(template, ctx) ==
  FoldLeft(LAMBDA a, step : [k \in DOMAIN a \cup {step.id} |->
                               IF k = step.id THEN DefaultAnswer(step, ctx, a) ELSE a[k]],
           [k \in {} |-> ""], Steps(template))

Visible(step, template, ctx, a) ==
  CASE step = "soc" -> a.mode = "battery"
    [] step = "window" /\ "period" \in DOMAIN a -> a.period = "fixed"
    [] step = "window" /\ "source" \in DOMAIN a -> a.source = "fixed"
    [] step \in {"price", "thr"} -> a.source = "price"
    [] step = "runtime" -> a.off = "runtime"
    [] step = "contact" -> a.control = "sg"
    [] step = "lift" -> a.control = "setpoint"
    [] step = "battery" /\ template \in {"heat_pump", "heating_rod"} -> ctx.soc
    [] step \in {"switch", "pause"} /\ "restart" \in DOMAIN a -> RestartChosen(a)
    [] OTHER -> TRUE

VisibleSteps(template, ctx, a) ==
  Append(SelectSeq(Steps(template), LAMBDA s : Visible(s.id, template, ctx, a)), Summary)

StepComplete(step, answer) ==
  CASE step.type = "device" -> answer # ""
    [] step.type = "number" -> answer >= step.min /\ answer <= step.max
    [] step.type = "presets" -> answer > 0
    [] step.type = "devices" -> answer # {}
    [] step.type = "time" -> answer = "span"
    [] OTHER -> TRUE

--------------------------------------------------------------------------
(* What the templates build.                                                *)

Refused == [ok |-> FALSE]
Message == <<"", "notice">>
Scenario(when, until, start, end) ==
  [ok |-> TRUE, kind |-> "scenario", when |-> when, until |-> until, start |-> start, end |-> end,
   while |-> "none", hold |-> <<>>, repeat |-> 0, output |-> <<>>, cooldown |-> 0, minRun |-> 0, maxDuration |-> 0]
Regulating(scenario, id) == [scenario EXCEPT !.while = "regulate", !.output = <<id, "set">>]
Rule(cooldown, conditions) ==
  [Scenario(conditions, <<>>, <<Message>>, <<>>) EXCEPT !.kind = "rule", !.cooldown = cooldown]

Set(id) == <<id, "set">>
Switch(id) == <<id, "switch">>
Limit(id) == <<id, "limit">>
If(condition, sequence) == IF condition THEN sequence ELSE <<>>
Notice(a) == If("notify" \in a.extras, <<Message>>)
Actuator(list, id) == Has(list, id) /\ ~NoLimit(Device(list, id))

BuildSurplusWallbox(a, ctx) ==
  IF ~Actuator(ctx.wallbox, a.device) THEN Refused
  ELSE LET d == Device(ctx.wallbox, a.device)
       IN Regulating(Scenario(<<"export">> \o If("connected" \in a.extras /\ d.plug, <<"plug">>), <<a.mode>>,
                              If(d.switch, <<Switch(d.id)>>),
                              IF d.switch THEN <<Switch(d.id)>> ELSE <<Set(d.id)>>), d.id)

BuildZeroFeed(a, ctx) ==
  IF ~Actuator(ctx.inverter, a.device) \/ (a.measure = "own" /\ ~Device(ctx.inverter, a.device).measured) THEN Refused
  ELSE Regulating(Scenario(<<a.period>>, <<>>, Notice(a), If("reset" \in a.extras, <<Set(a.device)>>)), a.device)

BuildSurplusSwitch(a, ctx) ==
  IF ~Has(ctx.switch, a.device) THEN Refused
  ELSE LET repeat == "repeat" \in a.extras
           on == <<Switch(a.device)>>
       IN [Scenario(<<"export">> \o If("weekdays" \in a.extras, <<"days">>), If(a.off # "runtime", <<a.off>>),
                    If(~repeat, on), on)
             EXCEPT !.while = IF repeat THEN "hold" ELSE "none", !.hold = If(repeat, on),
                    !.repeat = IF repeat THEN 60 ELSE 0,
                    !.maxDuration = IF a.off = "runtime" THEN a.runtime * 60 ELSE 0]

BuildBatteryWarn(a, ctx) == Rule(3600, <<"soc">>)

BuildTimeSwitch(a, ctx) ==
  IF ~Has(ctx.switch, a.device) THEN Refused
  ELSE Scenario(<<"window">>, <<>>, <<Switch(a.device)>>, <<Switch(a.device)>>)

BuildHeatPump(a, ctx) ==
  LET d == Device(ctx.heat_pump, a.device)
      sg == a.control = "sg"
      target == IF sg THEN Switch(a.contact) ELSE Set(d.id)
  IN IF ~Has(ctx.heat_pump, a.device) \/ (sg /\ ~Has(ctx.switch, a.contact)) \/ (~sg /\ (NoLimit(d) \/ ~d.value))
       THEN Refused
     ELSE [Scenario(<<"export">> \o If(a.battery = "first" /\ ctx.soc, <<"soc">>) \o <<a.period>>, <<"export">>,
                    <<target>> \o Notice(a), <<target>>)
             EXCEPT !.minRun = a.run * 60, !.cooldown = a.pause * 60]

TariffWhen(a) == IF a.source = "fixed" THEN <<"window">> ELSE <<"price">>
PriceFound(a, ctx) == a.source = "fixed" \/ Has(ctx.price, a.price)

BuildTariff(a, ctx) ==
  LET d == Device(ctx.battery, a.battery)
      block == "block" \in a.extras
  IN IF ~Has(ctx.battery, a.battery) \/ NoLimit(d) \/ ~d.value \/ (block /\ ~d.limit) \/ ~PriceFound(a, ctx) THEN Refused
     ELSE Scenario(TariffWhen(a) \o If("only" \in a.extras, <<"soc">>) \o <<"soc">>, <<>>,
                   <<Set(d.id)>> \o If(block, <<Limit(d.id)>>) \o Notice(a),
                   <<Set(d.id)>> \o If(block, <<Limit(d.id)>>))

BuildFullMonthly(a, ctx) ==
  LET d == Device(ctx.battery, a.battery)
  IN IF ~Has(ctx.battery, a.battery) \/ NoLimit(d) \/ ~d.value THEN Refused
     ELSE Scenario(<<"day", "soc">> \o If(a.source = "surplus", <<"export">>), <<>>, <<Set(d.id)>>, <<Set(d.id)>>)

\* With a restart the rule becomes a scenario: the switch off, and after the pause on again.
RuleOrRestart(rule, a, ctx) ==
  IF ~RestartChosen(a) THEN rule
  ELSE IF ~Has(ctx.switch, a.switch) THEN Refused
  ELSE [Scenario(rule.when, <<>>, rule.start \o <<Switch(a.switch)>>, <<Switch(a.switch)>>)
          EXCEPT !.maxDuration = a.pause * 60, !.cooldown = rule.cooldown]

BuildInverterSilent(a, ctx) ==
  IF ~Has(ctx.inverter_measured, a.device) THEN Refused
  ELSE RuleOrRestart(Rule(a.again * 3600, <<"stale">>), a, ctx)

BuildPvMissing(a, ctx) ==
  IF ~Has(ctx.inverter_measured, a.device) THEN Refused
  ELSE RuleOrRestart(Rule(21600, <<"sun", "below">>), a, ctx)

BuildLowTariff(a, ctx) ==
  IF ~Actuator(ctx.wallbox, a.device) \/ ~PriceFound(a, ctx) THEN Refused
  ELSE Scenario(TariffWhen(a) \o If("connected" \in a.connected /\ Device(ctx.wallbox, a.device).plug, <<"plug">>),
                <<>>, <<Set(a.device)>>, <<Set(a.device)>>)

BuildGridCap(a, ctx) ==
  IF ~Actuator(ctx.wallbox, a.device) THEN Refused
  ELSE Regulating(Scenario(<<"import">>, <<"import">>, Notice(a), <<Set(a.device)>>), a.device)

BuildGridSignal(a, ctx) ==
  LET targets == SetToSeq(a.targets)
      entities == [i \in DOMAIN targets |-> Set(targets[i])]
  IN IF ~Has(ctx.input, a.input) \/ a.targets = {} \/ \E id \in a.targets : ~Has(Usable(ctx.grid_target), id) THEN Refused
     ELSE Scenario(<<"input">>, <<>>, entities \o Notice(a), entities)

BuildHeatingRod(a, ctx) ==
  IF ~Has(ctx.rod, a.device) THEN Refused
  ELSE Regulating(Scenario(<<"export", "below">> \o If(a.battery = "first" /\ ctx.soc, <<"soc">>), <<"import">>,
                           Notice(a), <<Set(a.device)>>), a.device)

Build(template, a, ctx) ==
  CASE template = "surplus_wallbox" -> BuildSurplusWallbox(a, ctx) [] template = "zero_feed" -> BuildZeroFeed(a, ctx)
    [] template = "surplus_switch" -> BuildSurplusSwitch(a, ctx) [] template = "battery_warn" -> BuildBatteryWarn(a, ctx)
    [] template = "time_switch" -> BuildTimeSwitch(a, ctx) [] template = "heat_pump" -> BuildHeatPump(a, ctx)
    [] template = "tariff" -> BuildTariff(a, ctx) [] template = "battery_full_monthly" -> BuildFullMonthly(a, ctx)
    [] template = "inverter_silent" -> BuildInverterSilent(a, ctx)
    [] template = "wallbox_low_tariff" -> BuildLowTariff(a, ctx) [] template = "grid_cap" -> BuildGridCap(a, ctx)
    [] template = "grid_signal" -> BuildGridSignal(a, ctx) [] template = "heating_rod" -> BuildHeatingRod(a, ctx)
    [] template = "pv_missing" -> BuildPvMissing(a, ctx)

--------------------------------------------------------------------------
(* The steps the rows of a template's summary lead back to.                 *)

Row(condition, step) == IF condition THEN {step} ELSE {}
NoticeRow(a) == Row("notify" \in a.extras, "extras")
RestartRow(a) == Row(RestartChosen(a), "pause")

TariffRow(a) == IF a.source = "fixed" THEN {"window"} ELSE {"thr"}
PlugRow(chosen, a, ctx, step) == Row(chosen /\ Device(ctx.wallbox, a.device).plug, step)

SummarizeSurplusWallbox(a, ctx) ==
  {"start", "device", IF a.mode = "battery" THEN "soc" ELSE "mode"}
    \cup PlugRow("connected" \in a.extras, a, ctx, "extras")
SummarizeZeroFeed(a) == {"period", "measure", "target"} \cup Row(a.extras \cap {"notify", "reset"} # {}, "extras")
SummarizeSurplusSwitch(a) ==
  {"on", IF a.off = "runtime" THEN "runtime" ELSE "off"}
    \cup Row(a.off # "runtime" \/ "repeat" \notin a.extras, "device") \cup Row(a.extras # {}, "extras")
SummarizeBatteryWarn == {"below", "severity"}
SummarizeTimeSwitch == {"window", "device"}
SummarizeHeatPump == {"control", "start", "run"}
SummarizeTariff(a) == TariffRow(a) \cup {"target"}
SummarizeFullMonthly == {"day", "source", "battery"}
SummarizeInverterSilent(a) == {"minutes", "severity", "again"} \cup RestartRow(a)
SummarizeLowTariff(a, ctx) ==
  TariffRow(a) \cup {"device"} \cup PlugRow("connected" \in a.connected, a, ctx, "connected")
SummarizeGridCap(a) == {"limit", "speed", "device"} \cup NoticeRow(a)
SummarizeGridSignal(a) == {"input", "targets"} \cup NoticeRow(a)
SummarizeHeatingRod(a, ctx) ==
  {"max_temp", "target", "device"} \cup Row(a.battery = "first" /\ ctx.soc, "battery") \cup NoticeRow(a)
SummarizePvMissing(a) == {"device", "minutes", "severity"} \cup RestartRow(a)

SummaryRows(template, a, ctx) ==
  CASE template = "surplus_wallbox" -> SummarizeSurplusWallbox(a, ctx) [] template = "zero_feed" -> SummarizeZeroFeed(a)
    [] template = "surplus_switch" -> SummarizeSurplusSwitch(a) [] template = "battery_warn" -> SummarizeBatteryWarn
    [] template = "time_switch" -> SummarizeTimeSwitch [] template = "heat_pump" -> SummarizeHeatPump
    [] template = "tariff" -> SummarizeTariff(a) [] template = "battery_full_monthly" -> SummarizeFullMonthly
    [] template = "inverter_silent" -> SummarizeInverterSilent(a)
    [] template = "wallbox_low_tariff" -> SummarizeLowTariff(a, ctx) [] template = "grid_cap" -> SummarizeGridCap(a)
    [] template = "grid_signal" -> SummarizeGridSignal(a) [] template = "heating_rod" -> SummarizeHeatingRod(a, ctx)
    [] template = "pv_missing" -> SummarizePvMissing(a)

--------------------------------------------------------------------------
(* What the page asks of an entry before it is saved.                       *)

Commands(actions) == {x \in ToSet(actions) : x # Message}

Counted(sequence) == Len(sequence) \in 1 .. 8

RuleSavable(rule) ==
  /\ Counted(rule.when) /\ Counted(rule.start)
  /\ Commands(rule.start) # {} => rule.cooldown >= MinInterval

ScenarioSavable(s, regulated) ==
  /\ Counted(s.when) /\ (s.until # <<>> => Counted(s.until))
  /\ Len(s.start) <= 8 /\ Len(s.end) <= 8
  /\ s.maxDuration # 0 => s.maxDuration \in 60 .. 86400
  /\ s.minRun <= 86400 /\ s.cooldown <= 86400
  /\ s.while = "hold" => Counted(s.hold) /\ s.repeat >= MinInterval
  /\ s.while = "regulate" => s.output \notin regulated

Savable(entry, regulated) ==
  IF entry.kind = "rule" THEN RuleSavable(entry) ELSE ScenarioSavable(entry, regulated)

--------------------------------------------------------------------------
(* The dialog.                                                              *)

VARIABLES
  home,     \* the context the dialog was opened with, <<>> while it is closed
  template, \* "" in the gallery
  answers,
  index,    \* of the visible step shown
  changes,
  created,  \* the entry just created, with what was regulated then; <<>> once the dialog closed
  entries,  \* entries the assistant has made
  closing   \* the sheet slides away; the dialog closes when it has

assistantVars == <<home, template, answers, index, changes, created, entries, closing>>
NoAnswers == [k \in {} |-> ""]

Ctx == BuildContext(home.devices, home.soc, home.location)
AssistantSteps == VisibleSteps(template, Ctx, answers)
AssistantStep == AssistantSteps[index]
Open == home # <<>> /\ ~closing
Shown == Open /\ template # "" /\ index <= Len(AssistantSteps)

CanAdvance ==
  AssistantStep.type = "summary" \/ StepComplete(AssistantStep, answers[AssistantStep.id])

--------------------------------------------------------------------------
OpenAssistant(context) ==
  /\ home = <<>> /\ home' = context
  /\ template' = "" /\ answers' = NoAnswers /\ index' = 1
  /\ UNCHANGED <<changes, created, entries, closing>>

StartTemplate(t) ==
  /\ Open /\ template = "" /\ Available(t, Ctx)
  /\ template' = t /\ answers' = DefaultAnswers(t, Ctx) /\ index' = 1
  /\ UNCHANGED <<home, changes, created, entries, closing>>

AssistantNext ==
  /\ Shown /\ CanAdvance /\ index < Len(AssistantSteps)
  /\ index' = index + 1
  /\ UNCHANGED <<home, template, answers, changes, created, entries, closing>>

\* From the first step back to the gallery.
AssistantBack ==
  /\ Shown
  /\ IF index = 1 THEN template' = "" /\ answers' = NoAnswers /\ UNCHANGED index
     ELSE index' = index - 1 /\ UNCHANGED <<template, answers>>
  /\ UNCHANGED <<home, changes, created, entries, closing>>

\* The steps "change" in the summary leads to; a row whose step is hidden leads nowhere.
Rows == SummaryRows(template, answers, Ctx)
AssistantGoTo(i) ==
  /\ Shown /\ AssistantStep.type = "summary" /\ AssistantSteps[i].id \in Rows
  /\ index' = i
  /\ UNCHANGED <<home, template, answers, changes, created, entries, closing>>

\* What may be answered: devices and options that are not barred, values inside and outside.
Answerable(step) ==
  CASE step.type = "device" -> {e.id : e \in ToSet(Usable(Ctx[step.filter]))}
    [] step.type = "tiles" -> {o \in ToSet(step.options) : ~Unavailable(step.id, o, Ctx, answers)}
    [] step.type = "presets" -> {step.other, 0}
    [] step.type = "number" -> {step.min, step.max, step.max + 1}
    [] step.type = "time" -> {"span", "empty"}
    [] step.type = "devices" -> {answers[step.id] \cup {e.id} : e \in ToSet(Usable(Ctx[step.filter]))}
    [] step.type = "multi" ->
         {answers[step.id] \cup {o} : o \in {x \in step.options : ~Unavailable(step.id, x, Ctx, answers)}}
           \cup {answers[step.id] \ {o} : o \in step.options}
    [] OTHER -> {}

AssistantPick(value) ==
  /\ Shown /\ changes < MaxChanges /\ value # answers[AssistantStep.id]
  /\ answers' = [answers EXCEPT ![AssistantStep.id] = value]
  /\ changes' = changes + 1
  /\ UNCHANGED <<home, template, index, created, entries, closing>>

Regulated == {<<home.devices[i].id, "set">> : i \in {j \in DOMAIN home.devices : home.devices[j].regulated}}

\* Nothing happens without a valid entry or when the list is full.
AssistantCreate ==
  /\ Shown /\ AssistantStep.type = "summary"
  /\ Build(template, answers, Ctx).ok /\ entries < Limit8
  /\ created' = <<Build(template, answers, Ctx), Regulated>>
  /\ entries' = entries + 1
  /\ closing' = TRUE
  /\ UNCHANGED <<home, template, answers, index, changes>>

\* An empty rule or scenario; at the limit the dialog stays.
StartBlank ==
  /\ Open /\ template = "" /\ entries < Limit8
  /\ entries' = entries + 1 /\ closing' = TRUE
  /\ UNCHANGED <<home, template, answers, index, changes, created>>

CloseAssistant == Open /\ closing' = TRUE /\ UNCHANGED <<home, template, answers, index, changes, created, entries>>

\* The slide is over, or there was none: once.
Closed ==
  /\ closing /\ closing' = FALSE
  /\ home' = <<>> /\ template' = "" /\ answers' = NoAnswers /\ index' = 1 /\ changes' = 0 /\ created' = <<>>
  /\ UNCHANGED entries

--------------------------------------------------------------------------
Init ==
  /\ home = <<>> /\ template = "" /\ answers = NoAnswers /\ index = 1 /\ changes = 0
  /\ created = <<>> /\ entries = 0 /\ closing = FALSE

Next ==
  \/ \E context \in Contexts : OpenAssistant(context)
  \/ \E t \in Templates : StartTemplate(t)
  \/ AssistantNext \/ AssistantBack \/ AssistantCreate \/ StartBlank \/ CloseAssistant \/ Closed
  \/ (Shown /\ \E i \in 1 .. Len(AssistantSteps) : AssistantGoTo(i))
  \/ (Shown /\ \E value \in Answerable(AssistantStep) : AssistantPick(value))

--------------------------------------------------------------------------
\* Whatever was answered, changed from the summary, hidden and shown again: every visible
\* step before the one shown is complete.
StepsBehindAreComplete ==
  Shown => \A i \in 1 .. index - 1 : StepComplete(AssistantSteps[i], answers[AssistantSteps[i].id])

\* Every row of the summary leads to a step that is there: no "change" without effect.
SummaryLeadsBack ==
  Shown /\ AssistantStep.type = "summary" => Rows \subseteq {AssistantSteps[i].id : i \in DOMAIN AssistantSteps}

\* What the assistant creates the page can save: it never makes an entry its own
\* validation refuses, nor a second regulator of one output.
CreatedIsSavable == created # <<>> => Savable(created[1], created[2])

\* Whatever a template switches or sets when it starts, it takes back when it ends.
StartedIsUndone ==
  created # <<>> /\ created[1].kind = "scenario" =>
    Commands(created[1].start) \cup Commands(created[1].hold) \subseteq Commands(created[1].end)
==============================================================================
