----------------------------- MODULE EnergyViews -----------------------------
(***************************************************************************)
(* The energy figures of the dashboard: what energy-model.js makes of one  *)
(* snapshot of the roles (the balance, its sources and sinks, who is fed   *)
(* by whom), and what the cards show of it: the plant diagram              *)
(* (energy-schema.js), the band (energy-band.js), the ring                 *)
(* (energy-ring.js), the flow card (energy-flow.js), the board             *)
(* (energy-board.js), the status card (energy-status.js) and the day       *)
(* (energy-day.js), which draws what history-recorder.js wrote.            *)
(* Powers are whole watts: "> 0.5" is "> 0".  A snapshot is [values,       *)
(* categories, stale]; a category's value stands under its own name.       *)
(***************************************************************************)
EXTENDS Integers, Sequences, FiniteSets, SequencesExt

CONSTANTS Snapshots, \* the snapshots looked at
          Interpretations, \* [gap_mode, load_mode, gap_tolerance_mode, gap_tolerance_w, gap_tolerance_percent], "" or 0 where unset
          Thresholds,  \* of the status card: [surplus, import]
          BundleBelow, \* bundle thresholds in percent
          Orders       \* orders a ring may have had before

VARIABLE figure \* [snapshot, interpretation, balance, thresholds, below, order]

figureVars == <<figure>>

-----------------------------------------------------------------------------
(* Roles. *)

Abs(x) == IF x < 0 THEN -x ELSE x
AtLeast0(x) == IF x < 0 THEN 0 ELSE x
Greater(x, y) == IF x > y THEN x ELSE y
Smaller(x, y) == IF x < y THEN x ELSE y

HasValue(s, role) == role \in DOMAIN s.values
RoleValue(s, role) == IF HasValue(s, role) THEN s.values[role] ELSE 0
IsStale(s, role) == role \in s.stale

\* A role of its own wins over the sign of the combined one
OneWay(s, role, combined, sign) ==
    IF HasValue(s, role) THEN Abs(RoleValue(s, role)) ELSE AtLeast0(sign * RoleValue(s, combined))

BatteryChargePower(s) == OneWay(s, "battery_charge", "battery", 1)
BatteryDischargePower(s) == OneWay(s, "battery_discharge", "battery", -1)
GridImportPower(s) == OneWay(s, "grid_import", "grid", 1)
GridExportPower(s) == OneWay(s, "grid_export", "grid", -1)

HasGrid(s) == \E r \in {"grid", "grid_import", "grid_export"} : HasValue(s, r)
HasBattery(s) == \E r \in {"battery", "battery_charge", "battery_discharge"} : HasValue(s, r)

-----------------------------------------------------------------------------
(* The balance. *)

DefaultInterpretation ==
    [gap_mode |-> "unknown_consumer", load_mode |-> "auto", gap_tolerance_mode |-> "absolute",
     gap_tolerance_w |-> 25, gap_tolerance_percent |-> 2]

\* normalizeInterpretation
Normalized(cfg) ==
    LET unset == cfg.gap_tolerance_w = 0 /\ cfg.gap_tolerance_percent = 0 IN
    [gap_mode  |-> IF cfg.gap_mode = "" THEN DefaultInterpretation.gap_mode ELSE cfg.gap_mode,
     load_mode |-> IF cfg.load_mode \in {"", "combined"} THEN "auto" ELSE cfg.load_mode,
     gap_tolerance_mode |-> IF cfg.gap_tolerance_mode = "" THEN DefaultInterpretation.gap_tolerance_mode ELSE cfg.gap_tolerance_mode,
     gap_tolerance_w |-> IF unset THEN DefaultInterpretation.gap_tolerance_w ELSE cfg.gap_tolerance_w,
     gap_tolerance_percent |-> IF unset THEN DefaultInterpretation.gap_tolerance_percent ELSE cfg.gap_tolerance_percent]

\* A category without a base counts nowhere; a consumer never gives
CategoryValue(s, c) == IF s.categories[c] = "consumer" THEN AtLeast0(s.values[c]) ELSE s.values[c]
CategoriesOf(s, base) == {c \in DOMAIN s.categories \cap DOMAIN s.values : s.categories[c] = base}
SumOver(S, f(_)) == FoldFunctionOnSet(+, 0, [c \in S |-> f(c)], S)
CategorySums(s) ==
    LET V(c) == CategoryValue(s, c) IN
    [consumers |-> SumOver(CategoriesOf(s, "consumer"), V),
     producers |-> SumOver(CategoriesOf(s, "producer"), V),
     charge    |-> SumOver(CategoriesOf(s, "storage"), LAMBDA c : AtLeast0(V(c))),
     discharge |-> SumOver(CategoriesOf(s, "storage"), LAMBDA c : AtLeast0(-V(c)))]

CalculatedWith(s, cats) ==
    AtLeast0(RoleValue(s, "pv") + cats.producers + GridImportPower(s) + BatteryDischargePower(s) + cats.discharge
             - GridExportPower(s) - BatteryChargePower(s) - cats.charge)
Calculated(s) == CalculatedWith(s, CategorySums(s))

\* Which consumption counts, and where it is from
LoadOf(s, mode) ==
    LET meter == AtLeast0(RoleValue(s, "load")) IN
    CASE mode = "measured" /\ ~HasValue(s, "load") -> [total |-> 0, source |-> "missing"]
      [] \/ mode = "measured" /\ HasValue(s, "load")
         \/ mode = "auto" /\ HasValue(s, "load") /\ ~HasGrid(s) -> [total |-> meter, source |-> "measured"]
      [] OTHER -> [total |-> Calculated(s), source |-> "calculated"]

\* deriveBalanceCore, from top to bottom: what flows, with the categories in it
Flows(s, cats, load) ==
    LET wallbox == AtLeast0(RoleValue(s, "wallbox"))
        heat    == AtLeast0(RoleValue(s, "heat_pump"))
    IN [pv |-> RoleValue(s, "pv") + cats.producers, grid_import |-> GridImportPower(s), grid_export |-> GridExportPower(s),
        battery_charge |-> BatteryChargePower(s) + cats.charge, battery_discharge |-> BatteryDischargePower(s) + cats.discharge,
        wallbox |-> wallbox, heat_pump |-> heat, consumers |-> cats.consumers,
        base |-> AtLeast0(load.total - wallbox - heat - cats.consumers)]

\* ... what both sides sum up to
SourceSum(f) == f.pv + f.grid_import + f.battery_discharge
SinkSum(f) == f.base + f.wallbox + f.heat_pump + f.consumers + f.grid_export + f.battery_charge

\* ... the tolerance, in hundredths of a watt
Within(cfg, total) ==
    IF cfg.gap_tolerance_mode = "percent" THEN cfg.gap_tolerance_percent * total ELSE 100 * cfg.gap_tolerance_w
Applied(gap, within) == IF 100 * Abs(gap) <= within THEN 0 ELSE gap
MeterCheck(s, calculated, within) ==
    IF ~(HasValue(s, "load") /\ HasGrid(s)) THEN ""
    ELSE IF 100 * Abs(AtLeast0(RoleValue(s, "load")) - calculated) > within THEN "deviates" ELSE "ok"

\* ... and where the gap goes
Balanced(s, f, load, diagnostic, applied, within, total) ==
    LET added == IF diagnostic THEN 0 ELSE AtLeast0(applied) IN
    [pv |-> f.pv, grid_import |-> f.grid_import, grid_export |-> f.grid_export,
     battery_charge |-> f.battery_charge, battery_discharge |-> f.battery_discharge,
     wallbox |-> f.wallbox, heat_pump |-> f.heat_pump,
     categories |-> [c \in CategoriesOf(s, "consumer") |-> CategoryValue(s, c)],
     load_total |-> load.total + added, load_source |-> load.source, base |-> f.base + added,
     meter_check |-> MeterCheck(s, Calculated(s), within),
     gap_applied |-> applied, within |-> within, total |-> total,
     unbalanced |-> diagnostic /\ applied # 0, gap_absorbed |-> IF diagnostic THEN 0 ELSE applied]

BalancedFlows(s, cfg, f, load, sources, sinks) ==
    LET total  == Greater(sources, sinks)
        within == Within(cfg, total)
    IN Balanced(s, f, load, cfg.gap_mode = "diagnostic", Applied(sources - sinks, within), within, total)

LoadedFlows(s, cfg, f, load) == BalancedFlows(s, cfg, f, load, SourceSum(f), SinkSum(f))
Loaded(s, cfg, load) == LoadedFlows(s, cfg, Flows(s, CategorySums(s), load), load)
DeriveBalanceCore(s, interpretation) ==
    LET cfg == Normalized(interpretation) IN Loaded(s, cfg, LoadOf(s, cfg.load_mode))

\* Share of the load, and of the generation, as [own, of]
Autarky(n) == [own |-> Smaller(AtLeast0(n.load_total - n.grid_import), n.load_total), of |-> n.load_total]
OwnUse(n) == [own |-> Smaller(AtLeast0(n.pv - n.grid_export), n.pv), of |-> n.pv]

Flow(id, value) == [id |-> id, value |-> value]
Flowing(flows) == SelectSeq(flows, LAMBDA f : f.value > 0)
SumFlows(flows) == FoldLeft(LAMBDA sum, f : sum + f.value, 0, flows)

CategorySinks(n) == LET ids == SetToSeq(DOMAIN n.categories) IN
                    [i \in 1 .. Len(ids) |-> Flow(ids[i], n.categories[ids[i]])]

\* Mutant: what is missing on the other side of an absorbed balance is not
\* shown as generation.
MutUnassigned(n) ==
    [source |-> IF n.unbalanced THEN Flowing(<<Flow("rest", -n.gap_applied)>>) ELSE <<>>,
     sink   |-> IF n.unbalanced THEN Flowing(<<Flow("rest", n.gap_applied)>>) ELSE <<>>]

\* A gap is shown where it is short; a positive one was added to the base
\* unless it is to be shown
Unassigned(n) ==
    [source |-> IF n.unbalanced THEN Flowing(<<Flow("rest", -n.gap_applied)>>)
                                ELSE Flowing(<<Flow("unknown_generation", -n.gap_absorbed)>>),
     sink   |-> IF n.unbalanced THEN Flowing(<<Flow("rest", n.gap_applied)>>) ELSE <<>>]

\* composeBalance
Sources(n) ==
    Flowing(<<Flow("pv", n.pv), Flow("grid_import", n.grid_import), Flow("battery_discharge", n.battery_discharge)>>)
    \o Unassigned(n).source
Sinks(n) ==
    Flowing(<<Flow("base", n.base), Flow("wallbox", n.wallbox), Flow("heat_pump", n.heat_pump)>> \o CategorySinks(n)
            \o <<Flow("grid_export", n.grid_export), Flow("battery_charge", n.battery_charge)>>)
    \o Unassigned(n).sink

-----------------------------------------------------------------------------
(* Who is fed by whom: both sides laid on one axis, by priority. *)

SourcePriority(f) == CASE f.id = "pv" -> 0 [] f.id = "battery_discharge" -> 1 [] f.id = "grid_import" -> 2 [] OTHER -> 3

SinkPriority(f) == CASE f.id = "battery_charge" -> 1 [] f.id = "grid_export" -> 2 [] OTHER -> 0

OrderByPriority(flows, side) ==
    LET priority(f) == IF side = "source" THEN SourcePriority(f) ELSE SinkPriority(f)
        Of(p) == SelectSeq(flows, LAMBDA f : priority(f) = p)
    IN Of(0) \o Of(1) \o Of(2) \o Of(3)

\* Where the i-th flow begins and ends on the axis
From(flows, i) == SumFlows(SubSeq(flows, 1, i - 1))
To(flows, i) == SumFlows(SubSeq(flows, 1, i))

\* allocate: for each sink how much of it each source feeds
Allocate(n) ==
    LET sources == OrderByPriority(Sources(n), "source")
        sinks   == OrderByPriority(Sinks(n), "sink")
        Overlap(i, j) == AtLeast0(Smaller(To(sinks, i), To(sources, j)) - Greater(From(sinks, i), From(sources, j)))
    IN [i \in 1 .. Len(sinks) |->
           [id |-> sinks[i].id, value |-> sinks[i].value,
            mix |-> Flowing([j \in 1 .. Len(sources) |-> Flow(sources[j].id, Overlap(i, j))])]]

\* prorata: in parts of the sources' sum
AllocateProRata(n) ==
    LET sources == Sources(n)  IN
    [i \in 1 .. Len(Sinks(n)) |->
       [id |-> Sinks(n)[i].id,
        mix |-> [j \in 1 .. Len(sources) |-> Flow(sources[j].id, Sinks(n)[i].value * sources[j].value)]]]

-----------------------------------------------------------------------------
(* The plant diagram. *)

\* branchValues: the battery is shown by what is left of it
BranchValue(s, n, id) ==
    LET net == n.battery_charge - n.battery_discharge IN
    CASE id = "pv" -> [value |-> RoleValue(s, "pv"), dir |-> "in"]
      [] id = "battery" -> [value |-> Abs(net), dir |-> IF net > 0 THEN "out" ELSE "in"]
      [] id = "wallbox" -> [value |-> n.wallbox, dir |-> "out"]
      [] id = "heat_pump" -> [value |-> n.heat_pump, dir |-> "out"]
      [] id = "base" -> [value |-> n.base, dir |-> "out"]

BranchIds == <<"pv", "battery", "wallbox", "heat_pump", "base">>
BranchStale(s, id) ==
    CASE id = "battery" -> \E r \in {"battery", "battery_charge", "battery_discharge"} : IsStale(s, r)
      [] id = "base" -> IsStale(s, "load")
      [] OTHER -> IsStale(s, id)

\* compute: the branches drawn, and of which sources the bar of one is made
Branches(s, n, hideInactive) == SelectSeq(BranchIds, LAMBDA id : BranchValue(s, n, id).value > 0 \/ ~hideInactive)
BranchMix(s, n, id) ==
    LET entry == SelectSeq(Allocate(n), LAMBDA a : a.id = (IF id = "battery" THEN "battery_charge" ELSE id))
        value == BranchValue(s, n, id)
    IN IF value.dir = "out" /\ value.value > 0 /\ entry # <<>> THEN entry[1].mix ELSE <<>>

\* The line to the grid: [active, stale, down, power]
GridBranch(n) ==
    [active |-> n.grid_import > 0 \/ n.grid_export > 0, stale |-> n.unbalanced,
     down |-> n.grid_import > 0, power |-> Greater(n.grid_import, n.grid_export)]

-----------------------------------------------------------------------------
(* The band and the ring. *)

\* bundleFlows: more than one small flow becomes one
BundleFlows(flows, below, total) ==
    LET keep  == SelectSeq(flows, LAMBDA f : 100 * f.value >= below * total)
        small == SelectSeq(flows, LAMBDA f : 100 * f.value < below * total)
    IN IF below = 0 THEN flows
       ELSE IF Len(small) > 1 THEN Append(keep, Flow("sonstiges", SumFlows(small)))
       ELSE keep \o small

\* rankFlows: the order of before, two neighbours changed only where the
\* later one is ahead by two percent of the sum
RankFlows(flows, previous) ==
    LET Known(id)  == \E i \in 1 .. Len(flows) : flows[i].id = id
        before     == [i \in 1 .. Len(SelectSeq(previous, Known)) |->
                          SelectSeq(flows, LAMBDA f : f.id = SelectSeq(previous, Known)[i])[1]]
        added      == SortSeq(SelectSeq(flows, LAMBDA f : f.id \notin ToSet(previous)), LAMBDA a, b : a.value > b.value)
        sum        == IF SumFlows(flows) = 0 THEN 1 ELSE SumFlows(flows)
        Ahead(q, i) == 100 * q[i + 1].value > 100 * q[i].value + 2 * sum
        Swapped(q, i) == IF Ahead(q, i) THEN [q EXCEPT ![i] = q[i + 1], ![i + 1] = q[i]] ELSE q
        Pass(q)    == FoldLeft(Swapped, q, [i \in 1 .. AtLeast0(Len(q) - 1) |-> i])
    IN FoldLeft(LAMBDA q, i : Pass(q), before \o added, flows)

\* The share of each row in the sum and in the largest, as [share, of]
ReadoutRows(flows) ==
    LET peak == FoldLeft(LAMBDA m, f : Greater(m, f.value), 0, flows) IN
    [i \in 1 .. Len(flows) |-> [id |-> flows[i].id, share |-> flows[i].value, of |-> peak]]

-----------------------------------------------------------------------------
(* The flow card. *)

MinFlow == 5

Connection(s, n, id) ==
    LET net == CASE id = "pv" -> Abs(RoleValue(s, "pv"))
                 [] id = "grid" -> GridImportPower(s) - GridExportPower(s)
                 [] id = "battery" -> BatteryDischargePower(s) - BatteryChargePower(s)
                 [] id = "load" -> IF n.load_source = "missing" THEN 0 ELSE Abs(n.load_total)
    IN IF Abs(net) > MinFlow THEN [kind |-> "active", value |-> Abs(net), reversed |-> net < 0]
       ELSE [kind |-> IF (id = "grid" /\ HasGrid(s)) \/ (id = "battery" /\ HasBattery(s)) THEN "neutral" ELSE "idle",
             value |-> 0, reversed |-> FALSE]

LoadStale(s, n) ==
    IF n.load_source = "measured" THEN IsStale(s, "load")
    ELSE \E r \in {"pv", "grid", "grid_import", "grid_export", "battery", "battery_charge", "battery_discharge"} : IsStale(s, r)

LoadRow(s, role, value) ==
    [role |-> role, power |-> IF Abs(value) > MinFlow THEN Abs(value) ELSE 0, stale |-> IsStale(s, role)]

RestRow(s, n, named) == LoadRow(s, "load", n.load_total - named)

\* loadConsumers: the named ones, and a row for the rest
LoadConsumers(s, n, hideInactive) ==
    LET roles   == SelectSeq(<<"wallbox", "heat_pump">>, LAMBDA r : HasValue(s, r))
        named   == FoldLeft(LAMBDA sum, r : sum + Abs(RoleValue(s, r)), 0, roles)
        rows    == SelectSeq([i \in 1 .. Len(roles) |-> LoadRow(s, roles[i], RoleValue(s, roles[i]))],
                             LAMBDA r : ~hideInactive \/ r.power > 0)
        rest    == CASE n.load_source = "missing" -> <<>>
                     [] rows = <<>> -> SelectSeq(<<LoadRow(s, "load", n.load_total)>>, LAMBDA r : ~hideInactive \/ r.power > 0)
                     [] n.load_total - named > MinFlow -> <<RestRow(s, n, named)>>
                     [] OTHER -> <<>>
    IN IF rows \o rest = <<>> THEN <<[role |-> "", power |-> 0, stale |-> FALSE]>>
       ELSE SortSeq(rows \o rest, LAMBDA a, b : a.power > b.power)

\* nodeText of the nodes: [shown, dir, stale]; shown is -1 for "--"
NodeText(s, n, id) ==
    LET net == BatteryChargePower(s) - BatteryDischargePower(s) IN
    CASE id = "pv" ->
           IF ~HasValue(s, "pv") THEN [shown |-> -1, dir |-> "idle", stale |-> FALSE]
           ELSE [shown |-> RoleValue(s, "pv"), dir |-> IF RoleValue(s, "pv") # 0 THEN "producing" ELSE "idle", stale |-> IsStale(s, "pv")]
      [] id = "grid" ->
           IF ~HasGrid(s) THEN [shown |-> -1, dir |-> "idle", stale |-> FALSE]
           ELSE [shown |-> IF GridImportPower(s) > 0 THEN GridImportPower(s) ELSE GridExportPower(s),
                 dir |-> IF GridImportPower(s) > 0 THEN "importing" ELSE IF GridExportPower(s) > 0 THEN "exporting" ELSE "idle",
                 stale |-> \E r \in {"grid", "grid_import", "grid_export"} : IsStale(s, r)]
      [] id = "home" ->
           IF n.load_source = "missing" THEN [shown |-> -1, dir |-> "idle", stale |-> FALSE]
           ELSE [shown |-> n.load_total, dir |-> "live", stale |-> LoadStale(s, n)]
      [] id = "battery" ->
           [shown |-> IF HasBattery(s) THEN Abs(net) ELSE -1,
            dir |-> IF net > MinFlow THEN "charging" ELSE IF net < -MinFlow THEN "discharging" ELSE "idle",
            stale |-> \E r \in {"battery", "battery_charge", "battery_discharge"} : IsStale(s, r)]

-----------------------------------------------------------------------------
(* The board and the status card. *)

\* boardRows, by id: [id, value, stale]
BoardRows(s, n) ==
    LET Row(id, value, stale) == [id |-> id, value |-> value, stale |-> stale]
        cats == SelectSeq(Sinks(n), LAMBDA f : f.id \in DOMAIN n.categories)
        gap  == IF n.unbalanced THEN n.gap_applied ELSE n.gap_absorbed
    IN <<Row("pv", RoleValue(s, "pv"), IsStale(s, "pv")),
         Row("battery", Abs(n.battery_charge - n.battery_discharge), BranchStale(s, "battery")),
         Row("grid", Abs(n.grid_import - n.grid_export), \E r \in {"grid", "grid_import", "grid_export"} : IsStale(s, r)),
         Row("load", n.load_total, IsStale(s, "load"))>>
       \o [i \in 1 .. Len(cats) |-> Row(cats[i].id, cats[i].value, FALSE)]
       \o <<Row("wallbox", RoleValue(s, "wallbox"), IsStale(s, "wallbox")), Row("heat_pump", RoleValue(s, "heat_pump"), IsStale(s, "heat_pump"))>>
       \o (IF gap # 0 THEN <<Row("rest", Abs(gap), FALSE)>> ELSE <<>>)

\* Sorted by power only if asked for; those at rest are hidden if wanted
VisibleRows(rows, showInactive, sort) ==
    LET shown == SelectSeq(rows, LAMBDA r : showInactive \/ r.value > 0) IN
    IF sort = "power" THEN SortSeq(shown, LAMBDA a, b : a.value > b.value) ELSE shown

\* statusLead and the tile of the data quality
StatusLead(n, staleCount, th) ==
    CASE n.unbalanced \/ staleCount > 0 -> "kritisch"
      [] n.grid_export >= th.surplus /\ n.grid_export > 0 -> "gut"
      [] n.grid_import >= th.import /\ n.grid_import > 0 -> "Hinweis"
      [] OTHER -> "gut"
QualityTile(n, staleCount) == IF n.unbalanced THEN "kritisch" ELSE IF staleCount > 0 THEN "Hinweis" ELSE "gut"
SurplusTile(n, th) == IF n.grid_export >= th.surplus /\ n.grid_export > 0 THEN "gut" ELSE "neutral"
ImportTile(n, th) == IF n.grid_import >= th.import /\ n.grid_import > 0 THEN "Hinweis" ELSE "neutral"

\* beamGeometry: where the mark stands, in parts of the span from the middle
BeamMark(n, span) == Greater(-span, Smaller(span, n.grid_import - n.grid_export))

-----------------------------------------------------------------------------
(* What was recorded, and the day drawn from it. *)

BatteryNet(s) == BatteryChargePower(s) - BatteryDischargePower(s)

\* roleSamples of the recorder: one value for the battery and the grid, the
\* base of a category in the name of its series
Recorded(s) ==
    LET plain == {r \in {"pv", "load", "wallbox", "heat_pump"} : HasValue(s, r)}
        cats  == DOMAIN s.categories \cap DOMAIN s.values
        roles == plain \cup cats \cup (IF HasBattery(s) THEN {"battery"} ELSE {}) \cup (IF HasGrid(s) THEN {"grid"} ELSE {})
    IN [values |-> [r \in roles |-> CASE r = "battery" -> BatteryNet(s)
                                      [] r = "grid" -> GridImportPower(s) - GridExportPower(s)
                                      [] OTHER -> s.values[r]],
        categories |-> [c \in cats |-> s.categories[c]]]

\* groupRoleSamples and snapshotFromPoint: only what the point has
SnapshotFromPoint(point) == [values |-> point.values, categories |-> point.categories, stale |-> {}]

\* pointSeries: the two sides of one point of the day
PointSeries(s, interpretation) ==
    LET n == DeriveBalanceCore(s, interpretation) IN
    [total  |-> n.total,
     supply |-> Flowing(<<Flow("pv", RoleValue(s, "pv")), Flow("battery_discharge", n.battery_discharge),
                          Flow("grid_import", n.grid_import)>>)
                \o Flowing(<<Flow("rest", IF n.unbalanced THEN -n.gap_applied ELSE -n.gap_absorbed)>>),
     demand |-> Flowing(<<Flow("base", n.base), Flow("wallbox", n.wallbox), Flow("heat_pump", n.heat_pump),
                          Flow("grid_export", n.grid_export), Flow("battery_charge", n.battery_charge)>>)
                \o (IF n.unbalanced THEN Flowing(<<Flow("rest", n.gap_applied)>>) ELSE <<>>)]

\* loadSeries of the board: the load of a point of the history
LoadSeries(point, interpretation) == DeriveBalanceCore(SnapshotFromPoint(point), interpretation).load_total

-----------------------------------------------------------------------------
\* What a page holds of a snapshot: the balance is derived once, for all cards
Figure(s, interpretation, thresholds, below, order) ==
    [snapshot |-> s, interpretation |-> interpretation, balance |-> DeriveBalanceCore(s, interpretation),
     thresholds |-> thresholds, below |-> below, order |-> order]

Nothing == Figure([values |-> <<>>, categories |-> <<>>, stale |-> {}], DefaultInterpretation,
                  [surplus |-> 0, import |-> 0], 0, <<>>)

Init == figure = Nothing

\* A snapshot arrives and the cards draw it with their settings
Present ==
    /\ figure = Nothing
    /\ \E s \in Snapshots, i \in Interpretations, th \in Thresholds, below \in BundleBelow, order \in Orders :
         figure' = Figure(s, i, th, below, order)

\* The page is left, the cards forget it
Leave == figure # Nothing /\ figure' = Nothing

Next == Present \/ Leave

Spec == Init /\ [][Next]_figureVars

Balance == figure.balance

-----------------------------------------------------------------------------
\* No generation runs backwards: what a meter of a producer shows at night
\* is not part of a balance that can close.
Forward(s) == RoleValue(s, "pv") + CategorySums(s).producers >= 0

\* What the cards show as sources and what they show as sinks differ by no
\* more than the gap the user lets pass, and what is ignored is ignored on
\* both sides (deriveBalanceCore and composeBalance).
SidesClose ==
    Forward(figure.snapshot) =>
      100 * Abs(SumFlows(Sources(Balance)) - SumFlows(Sinks(Balance)))
        <= IF Balance.gap_applied = 0 THEN Balance.within ELSE 0

\* The clean current goes to those who use it first: no consumer in the
\* house gets current from a worse source than the battery or the grid gets
\* (allocate), and nobody gets more than he takes.
CleanFirst ==
    \A a, b \in ToSet(Allocate(Balance)) :
      /\ SumFlows(a.mix) <= a.value
      /\ (a.id \notin {"battery_charge", "grid_export"} /\ b.id \in {"battery_charge", "grid_export"})
           \/ (a.id = "battery_charge" /\ b.id = "grid_export")
         => \A f \in ToSet(a.mix), g \in ToSet(b.mix) : SourcePriority(f) <= SourcePriority(g)

\* Bundling small flows loses no watt (bundleFlows), and the ring ranks every
\* flow once (rankFlows).
NothingIsLost ==
    LET flows == Sinks(Balance) IN
    /\ SumFlows(BundleFlows(flows, figure.below, Greater(Balance.total, 1))) = SumFlows(flows)
    /\ LET ranked == RankFlows(flows, figure.order) IN
       Len(ranked) = Len(flows) /\ ToSet(ranked) = ToSet(flows)

\* The rows of the load tile add up to the load of the house, except for
\* those at rest, as long as the named consumers do not exceed it
\* (loadConsumers).
LoadRowsAddUp ==
    LET s    == figure.snapshot
        n    == Balance
        sum  == FoldLeft(LAMBDA x, r : x + r.power, 0, LoadConsumers(s, n, TRUE))
        both == Abs(RoleValue(s, "wallbox")) + Abs(RoleValue(s, "heat_pump"))
    IN n.load_source # "missing" /\ both <= n.load_total => Abs(sum - n.load_total) <= 3 * MinFlow

\* The line of the board's history shows the same load as the card did when
\* the point was written (loadSeries, roleSamples): netting the battery and
\* the grid changes none of it, unless the tolerance is a share of a total in
\* which both directions counted.
HistoryShowsTheLoad ==
    LET s == figure.snapshot
        twoWays == \/ BatteryChargePower(s) > 0 /\ BatteryDischargePower(s) > 0
                   \/ GridImportPower(s) > 0 /\ GridExportPower(s) > 0
    IN ~(twoWays /\ Normalized(figure.interpretation).gap_tolerance_mode = "percent") =>
         LoadSeries(Recorded(s), figure.interpretation) = Balance.load_total

NetsNothing(s) ==
    /\ BatteryChargePower(s) = 0 \/ BatteryDischargePower(s) = 0
    /\ GridImportPower(s) = 0 \/ GridExportPower(s) = 0
RowOf(rows, id) == SelectSeq(rows, LAMBDA r : r.id = id)[1].value

\* The line, the node and the mark of a direction point the same way, and what
\* the diagram draws is what the board lists.
DirectionsAgree(s, n) ==
    /\ Connection(s, n, "battery").kind = "active" <=> NodeText(s, n, "battery").dir # "idle"
    /\ Connection(s, n, "battery").reversed <=> NodeText(s, n, "battery").dir = "charging"
    /\ Connection(s, n, "grid").reversed => NodeText(s, n, "grid").dir = "exporting"
    /\ BeamMark(n, 20) > 0 <=> GridBranch(n).down
    /\ Abs(BeamMark(n, 20)) <= GridBranch(n).power /\ (GridBranch(n).active <=> GridBranch(n).power > 0)
    /\ RowOf(BoardRows(s, n), "grid") = GridBranch(n).power
    /\ RowOf(BoardRows(s, n), "battery") = BranchValue(s, n, "battery").value

\* What is hidden is at rest, and sorting hides nothing.
OnlyRestIsHidden(s, n) ==
    /\ \A id \in ToSet(BranchIds) \ ToSet(Branches(s, n, TRUE)) : BranchValue(s, n, id).value <= 0
    /\ LET sorted == VisibleRows(BoardRows(s, n), FALSE, "power")
       IN /\ ToSet(sorted) = {r \in ToSet(BoardRows(s, n)) : r.value > 0}
          /\ sorted # <<>> => \A r \in ToSet(BoardRows(s, n)) : r.value <= sorted[1].value

\* The day's figure has the sides of the card without the user's categories.
DayIsTheCard(s, n) ==
    LET cats == CategorySums(s)
        day  == PointSeries(s, figure.interpretation)
    IN /\ SumFlows(day.supply) = SumFlows(Sources(n)) - cats.producers
       /\ SumFlows(day.demand) = SumFlows(Sinks(n)) - cats.consumers

\* The cards of a page tell the same of one moment: directions, rows, bars, the
\* day's figure, shares that are shares, and a headline no tile contradicts
\* (energy-flow.js, energy-schema.js, energy-board.js, energy-day.js,
\* energy-status.js).
CardsAgree ==
    LET s == figure.snapshot
        n == Balance
        th == figure.thresholds
    IN Forward(s) /\ RoleValue(s, "pv") >= 0 =>
         /\ NetsNothing(s) /\ CategoriesOf(s, "storage") = {} => DirectionsAgree(s, n)
         /\ OnlyRestIsHidden(s, n)
         /\ DayIsTheCard(s, n)
         /\ \A id \in {"wallbox", "heat_pump", "base"} : SumFlows(BranchMix(s, n, id)) <= BranchValue(s, n, id).value
         /\ \A i \in DOMAIN AllocateProRata(n) :
               SumFlows(AllocateProRata(n)[i].mix) = Sinks(n)[i].value * SumFlows(Sources(n))
         /\ \A share \in {Autarky(n), OwnUse(n)} : 0 <= share.own /\ share.own <= share.of
         /\ Autarky(n).own + n.grid_import >= Autarky(n).of
         /\ \A r \in ToSet(ReadoutRows(Sinks(n))) : r.share <= r.of
         /\ \A stale \in {0, 1} :
               /\ StatusLead(n, stale, th) = "kritisch" <=> QualityTile(n, stale) # "gut"
               /\ StatusLead(n, stale, th) = "Hinweis" => ImportTile(n, th) = "Hinweis" /\ SurplusTile(n, th) = "neutral"
=============================================================================
