------------------------------ MODULE LayoutCards ------------------------------
(***************************************************************************)
(* One card of the overview in the layout editor: the options sheet        *)
(* (layout-editor.js), what a save sends, what the server makes of it      *)
(* (settings.normalizeLayout and the schema) and what a load brings back.  *)
(*                                                                         *)
(* An option is the string the layout stores; "" stands for a field that   *)
(* is missing.  The number field of a reference power is one of its values *)
(* or "", which is what 0 and an emptied field become.                     *)
(***************************************************************************)
EXTENDS Integers, Sequences, SequencesExt, FiniteSetsExt, Functions, TLC

CONSTANTS
    CardTypes,     \* types of cards the toolbox is opened for
    Devices,       \* devices: id -> the sequence of its entities
    Views,         \* history views: id -> [hours, aggregate, series]
    Drags,         \* <<tracks, rows>> a pointer drags the handle of the size
    MaxTouches     \* changes of one card between two saves

VARIABLES card, touches

cardVars == <<card, touches>>

-----------------------------------------------------------------------------
(* The catalog of card types, shared by server and editor. *)

MinSpan(type) ==
    IF type \in {"energy_flow", "energy_day", "energy_band", "energy_ring", "energy_schema", "energy_board"} THEN 2 ELSE 1
DefaultSpan(type) ==
    CASE type = "energy_board" -> "3"
      [] MinSpan(type) = 2 \/ type = "history_view" -> "2"
      [] OTHER -> "1"

SpanOptions == <<"1", "2", "3", "4", "5", "6", "full">>
Tracks(span) == IF span = "full" THEN 99 ELSE CHOOSE n \in 1..6 : SpanOptions[n] = span

Categories == {"controls", "measurements", "configuration", "diagnostics"}
StatsKpis == <<"consumption", "pv", "grid_import", "grid_export", "battery_charge", "battery_discharge", "autarky", "self_consumption">>
StatsDefaultKpis == <<"consumption", "pv", "grid_import", "grid_export", "autarky">>

-----------------------------------------------------------------------------
(* The sheet: what each type offers. *)

Select(first, others) == [shown |-> first, choices |-> {first} \cup others]
On == Select("on", {"off"})
Off == Select("off", {"on"})
None == <<>>

EnergyPanels == [
    energy_flow |-> [hideInactive |-> Off],
    energy_band |-> [heightReference |-> Select("fill", {"abs"}), scaleMode |-> Select("linear", {"sqrt"}),
                     unit |-> Select("auto", {"w", "kw"}), bundleThreshold |-> Select("0", {"0.03", "0.08"}), animate |-> On],
    energy_ring |-> [kpi |-> Select("autarkie", {"eigen", "netz", "last"}), labelMode |-> Select("both", {"pct", "abs"}), animate |-> On],
    energy_board |-> [sort |-> Select("fixed", {"power"}), sparkWindow |-> Select("15", {"60", "off"}), dense |-> Off, showInactive |-> On],
    energy_day |-> [displayMode |-> Select("mirror", {"supply", "demand"}), showNow |-> On],
    energy_schema |-> [strokeMode |-> Select("power", {"const"}), entityLabels |-> Select("power", {"entity"}), hideInactive |-> Off,
                       displaySize |-> Select("m", {"xs", "s", "l", "xl"}), animate |-> Off],
    energy_status |-> [beamSpan |-> Select("6000", {"3000", "11000"}), showAdvice |-> On],
    energy_stats |-> [statsPeriod |-> Select("", {"day", "week", "month", "year"}), statsChart |-> Off]]

\* Fields that show only in one form of the card.
SpeedPanel == [speedReferenceMode |-> Select("relative", {"fixed"}), speedReferenceWatts |-> Select("1000", {"2500"})]
TrajectoryPanel == [batteryWindow |-> Select("6", {"3", "12", "24"}), batteryProjectionWindow |-> Select("", {"3", "6", "12", "24"})]
HistoryPanel == [historyRangeHours |-> Select("24", {"1", "6", "168", "720", "2160"}), historyAggregate |-> Select("avg", {"min", "max"})]

Panel(c) ==
    LET own == IF c.type \in DOMAIN EnergyPanels THEN EnergyPanels[c.type] ELSE None
    IN CASE c.type = "energy_flow" /\ c.flowScale = "speed" -> own @@ SpeedPanel
         [] c.type = "battery_status" /\ c.display = "trajectory" -> TrajectoryPanel
         [] c.type = "history_view" /\ c.ref = "" -> HistoryPanel
         [] OTHER -> own

Fields == UNION {DOMAIN EnergyPanels[type] : type \in DOMAIN EnergyPanels}
          \cup DOMAIN SpeedPanel \cup DOMAIN TrajectoryPanel \cup DOMAIN HistoryPanel

IsOwnHistory(c) == c.type = "history_view" /\ c.ref = ""
HasTitle(c) == c.type = "entity_group" \/ IsOwnHistory(c)

DisplayShown(c) ==
    CASE c.type = "device" -> IF c.display = "compact" THEN "compact" ELSE "detail"
      [] c.type = "battery_status" -> IF c.display = "trajectory" THEN "trajectory" ELSE "column"
      [] OTHER -> ""

\* What the sheet shows of a card: the fields of its form with their values.
Sheet(c) == [
    span |-> c.span, height |-> c.height,
    flowScale |-> IF c.type # "energy_flow" THEN "" ELSE IF c.flowScale = "speed" THEN "speed" ELSE "width",
    display |-> DisplayShown(c),
    categories |-> IF c.type = "device" /\ DisplayShown(c) = "detail" THEN c.categories ELSE {},
    options |-> [f \in DOMAIN Panel(c) |-> IF c.options[f] = "" THEN Panel(c)[f].shown ELSE c.options[f]],
    kpis |-> IF c.type # "energy_stats" THEN <<>> ELSE IF c.kpis = <<>> THEN StatsDefaultKpis ELSE c.kpis,
    ref |-> IF c.type \in {"device", "entity_value", "history_view"} THEN c.ref ELSE "",
    rows |-> IF c.type = "entity_group" THEN c.refs
             ELSE IF c.type = "device" /\ c.display = "compact" /\ c.ref \in DOMAIN Devices THEN c.refs ELSE <<>>,
    title |-> IF HasTitle(c) THEN c.title ELSE "",
    series |-> IF c.type = "history_view" /\ c.ref = "" THEN c.series ELSE <<>>]

-----------------------------------------------------------------------------
(* A save and the load after it. *)

\* normalizeLayout, the forms of a card.
NormalDisplay(c) ==
    CASE c.type = "device" -> IF c.display = "" THEN "detail" ELSE c.display
      [] c.type = "battery_status" -> IF c.display \in {"column", "trajectory"} THEN c.display ELSE "column"
      [] OTHER -> ""

Defaults(def, others) == [def |-> def, allowed |-> {def} \cup others]

\* normalizeEnergyGraphicOptions: what each type keeps; "" is a value of its
\* own for a projection window and a period.
KeptOptions == [
    energy_flow |-> [hideInactive |-> Defaults("off", {"on"}), speedReferenceMode |-> Defaults("relative", {"fixed"}),
                     speedReferenceWatts |-> Defaults("1000", {"2500"})],
    energy_band |-> [heightReference |-> Defaults("fill", {"abs"}), scaleMode |-> Defaults("linear", {"sqrt"}), unit |-> Defaults("auto", {"w", "kw"}),
                     bundleThreshold |-> Defaults("0", {"0.03", "0.08"}), animate |-> Defaults("on", {"off"})],
    energy_ring |-> [kpi |-> Defaults("autarkie", {"eigen", "netz", "last"}), labelMode |-> Defaults("both", {"pct", "abs"}),
                     animate |-> Defaults("on", {"off"})],
    energy_board |-> [sort |-> Defaults("fixed", {"power"}), sparkWindow |-> Defaults("15", {"60", "off"}),
                      dense |-> Defaults("off", {"on"}), showInactive |-> Defaults("on", {"off"})],
    energy_day |-> [displayMode |-> Defaults("mirror", {"supply", "demand"}), showNow |-> Defaults("on", {"off"})],
    energy_schema |-> [strokeMode |-> Defaults("power", {"const"}), entityLabels |-> Defaults("power", {"entity"}),
                       displaySize |-> Defaults("m", {"xs", "s", "l", "xl"}), hideInactive |-> Defaults("off", {"on"}), animate |-> Defaults("off", {"on"})],
    energy_status |-> [beamSpan |-> Defaults("6000", {"3000", "11000"}), showAdvice |-> Defaults("on", {"off"})],
    energy_stats |-> [statsPeriod |-> Defaults("", {"day", "week", "month", "year"}), statsChart |-> Defaults("off", {"on"})]]

KeptOf(c) ==
    CASE c.type = "battery_status" /\ NormalDisplay(c) = "trajectory" ->
            [batteryWindow |-> Defaults("6", {"3", "12", "24"}), batteryProjectionWindow |-> Defaults("", {"3", "6", "12", "24"})]
      [] c.type = "history_view" /\ c.ref = "" ->
            [historyRangeHours |-> Defaults("24", {"1", "6", "168", "720", "2160"}), historyAggregate |-> Defaults("avg", {"min", "max"})]
      [] c.type \in DOMAIN KeptOptions -> KeptOptions[c.type]
      [] OTHER -> None

NormalOptions(c) ==
    [f \in Fields |-> IF f \notin DOMAIN KeptOf(c) THEN ""
                      ELSE IF c.options[f] \in KeptOf(c)[f].allowed THEN c.options[f] ELSE KeptOf(c)[f].def]

FirstThree(refs) == SubSeq(refs, 1, IF Len(refs) > 3 THEN 3 ELSE Len(refs))
Known(kpis) == SelectSeq(kpis, LAMBDA k : k \in ToSet(StatsKpis))

\* payload and normalizeLayout for one item.
Normalized(c) == [c EXCEPT
    !.span = IF @ = "" THEN DefaultSpan(c.type) ELSE @,
    !.flowScale = IF c.type # "energy_flow" THEN "" ELSE IF @ = "" THEN "width" ELSE @,
    !.title = IF HasTitle(c) THEN @ ELSE "",
    !.refs = IF c.type = "entity_group" THEN @
             ELSE IF c.type = "device" /\ c.display = "compact" THEN FirstThree(@) ELSE <<>>,
    !.display = NormalDisplay(c),
    !.options = NormalOptions(c),
    !.kpis = IF c.type = "energy_stats" THEN Known(@) ELSE <<>>,
    !.series = IF c.type = "history_view" /\ c.ref = "" THEN @ ELSE <<>>]

\* layout.schema.json and validateLayout.
Accepted(c) ==
    /\ c.span \in ToSet(SpanOptions) /\ Tracks(c.span) >= MinSpan(c.type)
    /\ c.height \in 0..12
    /\ c.display \in {"", "detail", "compact", "column", "trajectory"}
    /\ c.flowScale \in {"", "width", "speed"}
    /\ c.categories \subseteq Categories

Save ==
    /\ Accepted(Normalized(card))
    /\ card' = Normalized(card)
    /\ touches' = 0

-----------------------------------------------------------------------------
(* The gestures. *)

Entities == UNION {ToSet(Devices[d]) : d \in DOMAIN Devices}

Touch ==
    /\ touches < MaxTouches
    /\ touches' = touches + 1

\* The options of a select below the minimum are disabled.
ChooseSpan(span) ==
    /\ Touch
    /\ Tracks(span) >= MinSpan(card.type)
    /\ card' = [card EXCEPT !.span = span]

TypeHeight(raw) ==
    /\ Touch
    /\ card' = [card EXCEPT !.height = IF raw >= 1 THEN IF raw > 12 THEN 12 ELSE raw ELSE 0]

Clamp(value, min, max) == IF value < min THEN min ELSE IF value > max THEN max ELSE value

\* resizeTo: the whole width of the grid is "full".
ResizeTo(start, dx, dy, columns, type) ==
    LET startTracks == IF start.span = "full" THEN columns ELSE Clamp(Tracks(start.span), 1, columns)
        tracks == Clamp(startTracks + dx, Clamp(MinSpan(type), 1, columns), columns)
    IN [span |-> IF tracks >= columns THEN "full" ELSE ToString(tracks), height |-> Clamp(start.height + dy, 0, 12)]

\* beginResize: a card of automatic height starts from the `measured` one.
Resize(columns, measured, drag) ==
    /\ Touch
    /\ LET start == [span |-> card.span, height |-> IF card.height = 0 THEN measured ELSE card.height]
           size == ResizeTo(start, drag[1], drag[2], columns, card.type)
       IN card' = [card EXCEPT !.span = size.span, !.height = size.height]

ChooseOption(f, value) ==
    /\ Touch
    /\ card' = [card EXCEPT !.options[f] = value]

ChooseFlowScale(scale) ==
    /\ Touch
    /\ card.type = "energy_flow"
    /\ card' = [card EXCEPT !.flowScale = scale]

ChooseDisplay(display) ==
    /\ Touch
    /\ display \in (IF card.type = "device" THEN {"detail", "compact"} ELSE IF card.type = "battery_status" THEN {"column", "trajectory"} ELSE {})
    /\ card' = [card EXCEPT !.display = display, !.refs = IF card.type = "device" /\ display # "compact" THEN <<>> ELSE @]

SwitchCategory(key) ==
    /\ Touch
    /\ card.type = "device" /\ DisplayShown(card) = "detail"
    /\ card' = [card EXCEPT !.categories = SymDiff(@, {key})]

\* entity-refs in the order of the offered entities; a tile has three rows.
ChooseRows(refs) ==
    /\ Touch
    /\ \/ /\ card.type = "entity_group" /\ refs \subseteq Entities
          /\ card' = [card EXCEPT !.refs = SetToSeq(refs)]
       \/ /\ card.type = "device" /\ card.display = "compact" /\ card.ref \in DOMAIN Devices
          /\ refs \subseteq ToSet(Devices[card.ref])
          /\ card' = [card EXCEPT !.refs = FirstThree(SelectSeq(Devices[card.ref], LAMBDA e : e \in refs))]

ChooseRef(ref) ==
    /\ Touch
    /\ ref \in (IF card.type = "device" THEN DOMAIN Devices ELSE IF card.type = "entity_value" THEN Entities ELSE {}) \cup {""}
    /\ card.type \in {"device", "entity_value"}
    /\ card' = [card EXCEPT !.ref = ref, !.refs = IF card.type = "device" THEN <<>> ELSE @]

ChooseKpis(kpis) ==
    /\ Touch
    /\ card.type = "energy_stats"
    /\ card' = [card EXCEPT !.kpis = kpis]

TypeTitle(title) ==
    /\ Touch
    /\ HasTitle(card)
    /\ card' = [card EXCEPT !.title = title]

NearestPreset(hours) ==
    CASE hours <= 1 -> "1" [] hours <= 6 -> "6" [] hours <= 24 -> "24"
      [] hours <= 168 -> "168" [] hours <= 720 -> "720" [] OTHER -> "2160"

\* history-source: a view has everything; leaving it starts from what it had.
BindView(view) ==
    /\ Touch
    /\ card.type = "history_view"
    /\ card' = [card EXCEPT !.ref = view, !.series = <<>>, !.options.historyRangeHours = "", !.options.historyAggregate = "", !.title = ""]

UnbindView ==
    /\ Touch
    /\ card.type = "history_view" /\ card.ref # ""
    /\ LET view == Views[card.ref]
       IN card' = IF card.ref \notin DOMAIN Views THEN [card EXCEPT !.ref = ""]
                  ELSE [card EXCEPT !.ref = "", !.series = view.series, !.options.historyRangeHours = NearestPreset(view.hours),
                                    !.options.historyAggregate = view.aggregate]

ChooseSeries(series) ==
    /\ Touch
    /\ card.type = "history_view" /\ card.ref = ""
    /\ card' = [card EXCEPT !.series = series]

-----------------------------------------------------------------------------

\* itemLabel: the name of a card from its kind and ref, or only its id.
Label(c) ==
    CASE c.type = "history_view" -> IF c.ref = "" THEN "own" ELSE IF c.ref \in DOMAIN Views THEN "view" ELSE "deleted"
      [] c.type = "entity_group" -> "group"
      [] c.type = "entity_value" -> IF c.ref \in Entities THEN "entity" ELSE "value"
      [] c.type = "device" -> "device"
      [] c.type \in {"energy_flow", "diagnostics", "energy_band", "energy_ring", "energy_board", "energy_day", "energy_schema",
                     "energy_status", "energy_stats", "battery_status"} /\ c.ref = "" -> c.type
      [] OTHER -> "id"

\* addFromCatalog: no option is set yet, and a device's card is dropped with
\* its device.
Fresh(type, ref) == [
    type |-> type, ref |-> ref, span |-> DefaultSpan(type), height |-> 0, flowScale |-> "", display |-> "",
    categories |-> {}, options |-> [f \in Fields |-> ""], kpis |-> <<>>, refs |-> <<>>, series |-> <<>>, title |-> ""]

Init ==
    /\ \E type \in CardTypes : \E ref \in (IF type = "device" THEN DOMAIN Devices ELSE {""}) : card = Fresh(type, ref)
    /\ touches = 0

Gesture ==
    \/ \E span \in ToSet(SpanOptions) : ChooseSpan(span)
    \/ \E raw \in {-1, 1, 13} : TypeHeight(raw)
    \/ \E columns \in 1..4, drag \in Drags : Resize(columns, 2, drag)
    \/ \E f \in DOMAIN Panel(card) : \E value \in Panel(card)[f].choices : ChooseOption(f, value)
    \/ \E scale \in {"width", "speed"} : ChooseFlowScale(scale)
    \/ \E display \in {"detail", "compact", "column", "trajectory"} : ChooseDisplay(display)
    \/ \E key \in Categories : SwitchCategory(key)
    \/ \E refs \in SUBSET Entities : ChooseRows(refs)
    \/ \E ref \in DOMAIN Devices \cup Entities \cup {""} : ChooseRef(ref)
    \/ \E kpis \in {<<>>, <<"pv">>, <<"autarky", "pv">>} : ChooseKpis(kpis)
    \/ \E title \in {"", "mine"} : TypeTitle(title)
    \/ \E view \in DOMAIN Views : BindView(view)
    \/ UnbindView
    \/ \E series \in {<<>>, <<"b", "a">>} : ChooseSeries(series)

Next == Save \/ Gesture

Spec == Init /\ [][Next]_cardVars

-----------------------------------------------------------------------------
\* What the sheet shows is what is stored: after a save and a load every field
\* of every type stands as the user left it, although the panels, the table of
\* options and the server each have a list of types of their own
\* (layout-editor.js:245-251, settings.go normalizeLayout).
SheetSurvivesSave == Sheet(Normalized(card)) = Sheet(card)

\* No gesture leads to a layout the server refuses: a refused save keeps the
\* whole layout from being stored (validateLayout, settings.go:2340-2365).
SaveIsAccepted == Accepted(Normalized(card))

\* A compact tile shows rows of its own device only.
RowsAreOfTheDevice ==
    card.type = "device" => Len(card.refs) <= 3 /\ (card.refs # <<>> => card.ref \in DOMAIN Devices /\ ToSet(card.refs) \subseteq ToSet(Devices[card.ref]))

\* Whatever the toolbox holds has a name in the editor besides its random id.
CardsHaveNames == Label(card) # "id"

Hours(preset) == CASE preset = "1" -> 1 [] preset = "6" -> 6 [] preset = "24" -> 24 [] preset = "168" -> 168 [] preset = "720" -> 720 [] OTHER -> 2160

\* A tile that leaves its view still shows at least what the view showed, up
\* to three months (nearestPreset, layout-editor.js:564-574).
UnboundShowsAll ==
    card.type = "history_view" /\ card.ref \in DOMAIN Views /\ card'.ref = ""
        => Views[card.ref].hours > 2160 \/ Hours(card'.options.historyRangeHours) >= Views[card.ref].hours
=============================================================================
