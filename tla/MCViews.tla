------------------------------- MODULE MCViews -------------------------------
(***************************************************************************)
(* The viewing pages of the dashboard and of the installer for TLC: what they*)
(* show of the services' messages, what they compute, what a tour opens.  A*)
(* behaviour stays on one page, and the slots stand for its variables.     *)
(***************************************************************************)
EXTENDS Integers, Sequences, FiniteSets, SequencesExt, TLC

CONSTANT Absent

VARIABLES page, slot1, slot2, slot3, slot4, slot5, slot6, slot7, slot8,
  slot9, slot10, slot11, slot12, slot13, slot14, slot15, slot16, slot17,
  slot18, slot19

\* The slots from the n-th on, which a page with fewer variables leaves alone.
from19 == slot19
from18 == <<slot18, from19>>
from17 == <<slot17, from18>>
from16 == <<slot16, from17>>
from15 == <<slot15, from16>>
from14 == <<slot14, from15>>
from13 == <<slot13, from14>>
from12 == <<slot12, from13>>
from11 == <<slot11, from12>>
from10 == <<slot10, from11>>
from9 == <<slot9, from10>>
from8 == <<slot8, from9>>
from7 == <<slot7, from8>>
from6 == <<slot6, from7>>
from5 == <<slot5, from6>>
from4 == <<slot4, from5>>
from3 == <<slot3, from4>>
from2 == <<slot2, from3>>
slots == <<slot1, from2>>

Blank(n) ==
  /\ n <= 2 => slot2 = Absent
  /\ n <= 3 => slot3 = Absent
  /\ n <= 4 => slot4 = Absent
  /\ n <= 5 => slot5 = Absent
  /\ n <= 6 => slot6 = Absent
  /\ n <= 7 => slot7 = Absent
  /\ n <= 8 => slot8 = Absent
  /\ n <= 9 => slot9 = Absent
  /\ n <= 10 => slot10 = Absent
  /\ n <= 11 => slot11 = Absent
  /\ n <= 12 => slot12 = Absent
  /\ n <= 13 => slot13 = Absent
  /\ n <= 14 => slot14 = Absent
  /\ n <= 15 => slot15 = Absent
  /\ n <= 16 => slot16 = Absent
  /\ n <= 17 => slot17 = Absent
  /\ n <= 18 => slot18 = Absent
  /\ n <= 19 => slot19 = Absent

-----------------------------------------------------------------------------
(* The live part of the automations page: one message per kind.            *)
Live == INSTANCE AutomationsLive WITH
  Kinds <- {"state", "history"}, Ranges <- {"30m", "6h"}, MaxMessages <- 1,
  MaxFlights <- 2, latest <- slot1, running <- slot2, lastMessageAt <- slot3,
  shown <- slot4, flights <- slot5, online <- slot6, overtaken <- slot7,
  visible <- slot8, chartRange <- slot9, chartPoints <- slot10,
  reads <- slot11

-----------------------------------------------------------------------------
(* The installer's run screen: one run of three steps, one of them attached. *)
Run == INSTANCE InstallRun WITH
  Steps <- <<"s30", "s35", "s60">>, Attached <- {"s35"}, Buffer <- 5,
  MaxRuns <- 1, MaxRestarts <- 1, bus <- slot1, events <- slot2,
  host <- slot3, source <- slot4, greeting <- slot5, pipe <- slot6,
  dropped <- slot7, lastSeq <- slot8, busId <- slot9, cut <- slot10,
  runScreen <- slot11, mutating <- slot12, ownRun <- slot13,
  runModel <- slot14, lastRun <- slot15

-----------------------------------------------------------------------------
(* The same with two steps and a second run.                               *)
Rerun == INSTANCE InstallRun WITH
  Steps <- <<"s30", "s35">>, Attached <- {"s35"}, Buffer <- 5, MaxRuns <- 2,
  MaxRestarts <- 1, bus <- slot1, events <- slot2, host <- slot3,
  source <- slot4, greeting <- slot5, pipe <- slot6, dropped <- slot7,
  lastSeq <- slot8, busId <- slot9, cut <- slot10, runScreen <- slot11,
  mutating <- slot12, ownRun <- slot13, runModel <- slot14, lastRun <- slot15

-----------------------------------------------------------------------------
(* The installer's preparation screen.                                     *)
Prepare == INSTANCE InstallPrepare WITH
  MaxVisits <- 3, visit <- slot1, onScreen <- slot2, prepState <- slot3,
  failCode <- slot4, unsigned <- slot5, asked <- slot6, listening <- slot7,
  hostPrepares <- slot8, packageOf <- slot9, leftAsking <- slot10,
  ledOn <- slot11

-----------------------------------------------------------------------------
(* The installer's diagnosis: two units, two repairs.                      *)
Diagnose == INSTANCE InstallDiagnose WITH
  Units <- {"dash", "upd"}, First <- "dash", Steps <- {"20", "60"},
  NeedsInput <- {"20"}, Capacity <- 2, Backlog <- 1, MaxLines <- 3,
  MaxBreaks <- 2, MaxLoads <- 1, journal <- slot1, stream <- slot2,
  cursor <- slot3, sent <- slot4, ring <- slot5, begun <- slot6,
  liveUnit <- slot7, empty <- slot8, element <- slot9, breaks <- slot10,
  loads <- slot11, busy <- slot12, repairs <- slot13, dialog <- slot14,
  left <- slot15

-----------------------------------------------------------------------------
(* What the installer shows: updates, logs cut for a report, checks, a plan. *)
Entry(type, highlight) == [type |-> type, breaking |-> FALSE, highlight |-> highlight, scope |-> ""]
Releases == {<<a, b, c>> : a \in {<<>>, <<Entry("feat", TRUE)>>}, b \in {<<>>, <<Entry("fix", FALSE)>>}, c \in {<<Entry("feat", FALSE)>>}}
Part(id, kind, r) ==
  [id |-> id, kind |-> kind, version |-> 3, releases |-> [i \in 1 .. 3 |-> [version |-> 4 - i, entries |-> r[i]]]]
TheDocuments == {<<Part("dash", "service", r), Part("lib", "app", q)>> : r \in Releases, q \in Releases}
Line(n, k) == [raw |-> n, scrubbed |-> n + k]
Lines == {<<>>} \cup {<<Line(a, k)>> : a \in {1, 4}, k \in {0, 3}}
         \cup {<<Line(a, k), Line(b, 0), Line(c, k)>> : a \in {1, 4}, b \in {1, 4}, c \in {1, 4}, k \in {0, 3}}
Check(kind, group, step, severity) ==
  [kind |-> kind, group |-> group, ok |-> TRUE, severity |-> severity, step |-> step, needs |-> ""]
TheChecks == {<<Check("unit", "services", "83", ""), Check("port", "system", "20", ""), Check("port", "system", "60", ""),
                Check("webhook-listener", "system", "", "warn"), Check("config", "config", "60", "")>>}
Change(name, kind, from, to) == [name |-> name, kind |-> kind, from |-> from, to |-> to]
PlanStep(id, state, restart, from, to) ==
  [id |-> id, state |-> state, from |-> from, to |-> to, restart |-> restart,
   unit |-> IF id = "60" THEN "" ELSE "u" \o id, service |-> id # "60"]
ServiceSteps == {PlanStep("83", "pending", r, 1, 1) : r \in {"", "library"}} \cup
                {PlanStep("83", "pending", "first", 0, 1), PlanStep("83", "done", "", 1, 1), PlanStep("83", "deselected", "", 1, 1)}
ThePlans ==
  {[all |-> {Change("dash", "plain", 1, 1), Change("services", "services", 1, 1), Change("numpy", "dependency", f, 1),
             Change("libx", "wheel", 1, 2)},
    steps |-> <<PlanStep("60", core, "", 1, 2), s, PlanStep("85", "pending", "version", 1, 2)>>,
    service |-> {"83", "85"}] : f \in {0, 1}, core \in {"done", "pending"}, s \in ServiceSteps}

Install == INSTANCE InstallViews WITH
  Documents <- TheDocuments, Logs <- {<<a, b>> : a \in Lines, b \in Lines},
  Budgets <- {15, 24, 30}, CheckLists <- TheChecks, Plans <- ThePlans,
  view <- slot1

-----------------------------------------------------------------------------
(* The frame of the dashboard: three panels, a narrow and a wide window.   *)
Widget(kind, ref, auto) == [kind |-> kind, ref |-> ref, auto |-> auto]
TheGrids == {{}, {Widget("energy", "", FALSE), Widget("device", "d1", FALSE)}, {Widget("device", "d1", FALSE), Widget("device", "d1", TRUE)}}

Shell == INSTANCE DashboardShell WITH
  Panels <- {"overview", "devices", "stats"}, Grids <- TheGrids,
  Ids <- {"d1"}, Widths <- <<60, 80, 70>>, Rooms <- {0, 50, 150, 190, 300},
  MoreWidth <- 40, Gap <- 10, MaxMoves <- 3, activePanel <- slot1,
  loaded <- slot2, requests <- slot3, flights <- slot4, errors <- slot5,
  grid <- slot6, viewMode <- slot7, liveSource <- slot8,
  liveFallback <- slot9, focus <- slot10, opened <- slot11,
  navMode <- slot12, room <- slot13, overflow <- slot14, moves <- slot15

-----------------------------------------------------------------------------
(* The devices panel: one device, two pages.                               *)
Devices == INSTANCE DevicesPanel WITH
  Devices <- {"d1"}, Pages <- {"p1", "p2"}, MaxChanges <- 2, MaxClicks <- 2,
  MaxQueue <- 2, MaxFailures <- 1, tab <- slot1, activePage <- slot2,
  viewMode <- slot3, saving <- slot4, queue <- slot5, running <- slot6,
  tiles <- slot7, drawnPage <- slot8, drawnMode <- slot9, server <- slot10,
  due <- slot11, requests <- slot12, modal <- slot13, stale <- slot14,
  crossed <- slot15, failed <- slot16, changes <- slot17, clicks <- slot18,
  failures <- slot19

-----------------------------------------------------------------------------
(* The cells of two entities, one of them shown four times.                *)
Cell(entity, kind, unit, time) == [entity |-> entity, kind |-> kind, unit |-> unit, timestamp |-> time]
TheCells == <<Cell("a", "card", TRUE, FALSE), Cell("a", "chip", TRUE, FALSE), Cell("b", "slider", FALSE, FALSE),
              Cell("a", "tile", FALSE, FALSE), Cell("a", "row", TRUE, FALSE), Cell("b", "chip", FALSE, TRUE)>>
Told(value, stale, pending) ==
  [value |-> value, has_value |-> value # "", available |-> value # "long", has_availability |-> ~stale,
   stale |-> stale, pending |-> pending, timeout |-> value = "1"]
TheValues == {Told("1", FALSE, FALSE), Told("long", FALSE, FALSE), Told("", TRUE, FALSE), Told("2", FALSE, TRUE)}

Cells == INSTANCE LiveCells WITH
  Page <- TheCells, Values <- TheValues, MaxChanges <- 2, server <- slot1,
  sent <- slot2, shown <- slot3, focused <- slot4, changes <- slot5

-----------------------------------------------------------------------------
(* What the pages compute: warnings, cards, dialogs, rows, tiers, gaps, plans. *)
Warning(rule, key, severity, device, entity) ==
  [rule |-> rule, key |-> key, severity |-> severity, device |-> device, entity |-> entity, message |-> rule, hint |-> "",
   operational |-> rule = "offline"]
SomeWarnings == {Warning("offline", "", "critical", "d1", "e1"), Warning("unit", "unit", "info", "d1", "e1"),
                 Warning("unit2", "unit", "warning", "d2", ""), Warning("odd", "", "strange", "d1", "e3")}
ACard(id, tile, structure, auto) ==
  [id |-> id, tile |-> tile, structure |-> structure, availability |-> "online", rail |-> "", auto |-> auto,
   rows |-> <<"r1">>, template |-> ~tile]
SomeCards == {ACard("d1", TRUE, "s1", FALSE), ACard("d1", FALSE, "s1", TRUE), ACard("d2", FALSE, "s2", FALSE),
              [ACard("d2", FALSE, "s1", TRUE) EXCEPT !.template = FALSE]}
Pushed(structure, availability, rows) ==
  [structure |-> structure, availability |-> availability, rail |-> availability, rows |-> rows]
SomePushes == {Pushed("s1", "offline", <<"r1">>), Pushed("s2", "offline", Absent), Pushed("s1", "online", <<>>)}
ThePushes ==
  [entries : {Absent} \cup UNION {[D -> SomePushes] : D \in SUBSET {"d1", "d2"}}, delta : BOOLEAN,
   list : {Absent, <<"d1">>, <<"d1", "d2">>, <<"d2", "d1">>}]
ItsEntity(id, category, component, commandable, hidden, text) ==
  [id |-> id, category |-> category, component |-> component, commandable |-> commandable, hidden |-> hidden, text |-> text]
SomeEntities == <<ItsEntity("m", "", "sensor", FALSE, FALSE, ""), ItsEntity("m2", "", "sensor", FALSE, FALSE, ""),
                  ItsEntity("c", "", "switch", TRUE, FALSE, ""), ItsEntity("g", "config", "number", TRUE, FALSE, ""),
                  ItsEntity("h", "", "sensor", FALSE, TRUE, ""), ItsEntity("o", "", "sensor", FALSE, FALSE, "config")>>
TheDetails == {[entities |-> SelectSeq(SomeEntities, LAMBDA e : e.id \in S)] : S \in SUBSET {"m", "m2", "c", "g", "h", "o"}}
ListsOf(S, n) == UNION {[1 .. k -> S] : k \in 0 .. n}

Pages == INSTANCE DashboardViews WITH
  WarningLists <- ListsOf(SomeWarnings, 3),
  CardLists <- ListsOf(SomeCards, 2), Pushes <- ThePushes,
  Details <- TheDetails, Heights <- {400, 600}, MergeHeight <- 520,
  Spans <- {"1", "2", "3", "full"}, MaxCards <- 4, MaxColumns <- 4,
  Times <- 0 .. 5, Ticks <- {0, 1, 2, 3, 9, 10, 11, 18},
  Minutes <- {4, 5, 7, 12, 16}, MinGap <- 1, FillStep <- 2,
  MinSpan <- [m1 |-> 2, m5 |-> 3, h1 |-> 5],
  Step <- ("1m" :> 4 @@ "5m" :> 4), Window <- ("1m" :> 5 @@ "5m" :> 5),
  MinOpen <- 2, view <- slot1

-----------------------------------------------------------------------------
(* The tours: a setup of two steps, two releases of news, a welcome.       *)
TourStep(id, need, check) == [id |-> id, need |-> need, device |-> "any", check |-> check]
News(id, stale, instead, steps) == [id |-> id, stale |-> stale, instead |-> instead, steps |-> steps]
At(need, device) == [need |-> need, device |-> device]
TheSetup == <<TourStep("users", Absent, "leave"), TourStep("config", "view_config", "change")>>
TheNews == << <<News("n1", FALSE, Absent, <<At(Absent, "any")>>), News("n2", FALSE, Absent, <<At(Absent, "desktop")>>),
                News("n3", FALSE, Absent, <<At(Absent, "any")>>)>>,
              <<News("o1", TRUE, "n1", <<At(Absent, "any")>>), News("o2", FALSE, Absent, <<>>),
                News("o3", FALSE, Absent, <<At("view_config", "any")>>)>> >>
TheWelcome == <<TourStep("w1", Absent, "leave"), TourStep("w2", "view_config", "leave")>>
Account(role, rights) == [role |-> role, rights |-> rights, welcome |-> TRUE]
TheAccounts == {Account("admin", {"view_config"}), Account("user", {}), Account("guest", {"view_config"})}

Tour == INSTANCE OnboardingTour WITH
  Setup <- TheSetup, Explore <- TheNews, Welcome <- TheWelcome,
  Users <- TheAccounts, MaxLoads <- 2, MaxActs <- 3, user <- slot1,
  device <- slot2, kept <- slot3, tour <- slot4, timers <- slot5,
  stood <- slot6, loads <- slot7, acts <- slot8

-----------------------------------------------------------------------------
(* What a tour opens for its steps: two buttons, two toggles, a rule.      *)
TheSteps == {<<"b1", "b2">>, <<"t1", "t2">>, <<"t2", "t1">>, <<"b2", "t1">>, <<"b2", "@rule">>, <<>>}

Steps == INSTANCE OnboardingActions WITH
  Toggles <- {"t1", "t2"}, Tabs <- {"b1", "b2"}, RuleEdit <- "@rule",
  StepList <- TheSteps, MaxSteps <- 3, MaxTouches <- 1, doors <- slot1,
  phase <- slot2, step <- slot3, found <- slot4, hands <- slot5,
  steps <- slot6, touches <- slot7

-----------------------------------------------------------------------------
(* The energy figures: every sign of every value that may be missing.      *)
Unknown == -999
Snapshot(f) ==
  [values |-> [r \in {x \in DOMAIN f : f[x] # Unknown} |-> f[r]],
   categories |-> ("heat" :> "consumer" @@ "roof" :> "producer" @@ "box" :> "storage"), stale |-> {}]
TheSnapshots ==
  {Snapshot(f) : f \in [pv : {0, 80}, battery : {Unknown, 20}, battery_charge : {Unknown, 10}, battery_discharge : {Unknown, 20},
                        grid : {Unknown, -30, 30}, load : {Unknown, 60}, wallbox : {4, 40}, heat : {15}, roof : {Unknown, 20},
                        box : {Unknown, -10}]}
TheReadings ==
  [gap_mode : {"", "diagnostic"}, load_mode : {"combined", "calculated", "measured"}, gap_tolerance_mode : {"absolute"},
   gap_tolerance_w : {5}, gap_tolerance_percent : {10}]

Energy == INSTANCE EnergyViews WITH
  Snapshots <- TheSnapshots, Interpretations <- TheReadings,
  Thresholds <- {[surplus |-> 20, import |-> 20]}, BundleBelow <- {0, 30},
  Orders <- {<<"grid_export", "base">>}, figure <- slot1

-----------------------------------------------------------------------------
Init ==
  \/ page = "live" /\ Live!Init /\ Blank(12)
  \/ page = "run" /\ Run!Init /\ Blank(16)
  \/ page = "rerun" /\ Rerun!Init /\ Blank(16)
  \/ page = "prepare" /\ Prepare!Init /\ Blank(12)
  \/ page = "diagnose" /\ Diagnose!Init /\ Blank(16)
  \/ page = "install" /\ Install!Init /\ Blank(2)
  \/ page = "shell" /\ Shell!Init /\ Blank(16)
  \/ page = "devices" /\ Devices!Init
  \/ page = "cells" /\ Cells!Init /\ Blank(6)
  \/ page = "pages" /\ Pages!Init /\ Blank(2)
  \/ page = "tour" /\ Tour!Init /\ Blank(9)
  \/ page = "steps" /\ Steps!Init /\ Blank(8)
  \/ page = "energy" /\ Energy!Init /\ Blank(2)

Next ==
  \/ page = "live" /\ Live!Next /\ UNCHANGED <<page, from12>>
  \/ page = "run" /\ Run!Next /\ UNCHANGED <<page, from16>>
  \/ page = "rerun" /\ Rerun!Next /\ UNCHANGED <<page, from16>>
  \/ page = "prepare" /\ Prepare!Next /\ UNCHANGED <<page, from12>>
  \/ page = "diagnose" /\ Diagnose!Next /\ UNCHANGED <<page, from16>>
  \/ page = "install" /\ Install!Next /\ UNCHANGED <<page, from2>>
  \/ page = "shell" /\ Shell!Next /\ UNCHANGED <<page, from16>>
  \/ page = "devices" /\ Devices!Next /\ UNCHANGED page
  \/ page = "cells" /\ Cells!Next /\ UNCHANGED <<page, from6>>
  \/ page = "pages" /\ Pages!Next /\ UNCHANGED <<page, from2>>
  \/ page = "tour" /\ Tour!Next /\ UNCHANGED <<page, from9>>
  \/ page = "steps" /\ Steps!Next /\ UNCHANGED <<page, from8>>
  \/ page = "energy" /\ Energy!Next /\ UNCHANGED <<page, from2>>

Spec == Init /\ [][Next]_<<page, slots>>

-----------------------------------------------------------------------------
(* What a page shows is the last thing it was told, whatever overtook what: *)
(* the automations' states and their chart, the first cell of every entity, *)
(* the tiles of the devices after the last click, the stream a panel needs, *)
(* the run the installer drives, the log lines of the unit chosen, and the  *)
(* cards a push covers.                                                     *)
ShownIsCurrent ==
  /\ page = "live" => Live!ShowsWhatItSaw /\ Live!ChartIsOfItsRange
  /\ page = "cells" => Cells!FirstCellsFollow
  /\ page = "devices" => Devices!TilesCatchUp /\ Devices!LastClickWins /\ Devices!ToggleMatchesTiles
  /\ page = "shell" => Shell!StreamCoversPanel
  /\ page = "run" => Run!ShowsTheRun /\ Run!ResultIsOwn
  /\ page = "rerun" => Rerun!ShowsTheRun /\ Rerun!ResultIsOwn
  /\ page = "diagnose" => Diagnose!RingIsGapless /\ Diagnose!PageShowsRing
  /\ page = "pages" => Pages!CoveredIsCurrent

(* What a page computes adds up: both sides of the energy flow, clean       *)
(* energy first, small flows bundled without loss, the load and its rows;   *)
(* the counts of updates and checks; the logs of a report cut fairly to     *)
(* their budget; the widths of a row; the tiers and the gaps of the         *)
(* recorded history, and what is asked of another browser.                  *)
FiguresAddUp ==
  /\ page = "energy" => /\ Energy!SidesClose /\ Energy!CleanFirst /\ Energy!NothingIsLost
                        /\ Energy!LoadRowsAddUp /\ Energy!HistoryShowsTheLoad /\ Energy!CardsAgree
  /\ page = "install" => /\ Install!UpdatesAddUp /\ Install!CountsWhatIsShown
                         /\ Install!EveryRoundCuts /\ Install!CutIsFair
  /\ page = "pages" => /\ Pages!RowsAreFull /\ Pages!TiersAgree /\ Pages!TierHasData
                       /\ Pages!GapsStayGaps /\ Pages!LinesBreakAtGaps /\ Pages!AnsweredIsNotAskedAgain

(* What needs the user is offered, and work goes on without the page: every *)
(* failure, change and restart is named and every finding has one row; the  *)
(* groups of warnings do not depend on how they are sorted, a tab that has  *)
(* something is there; the panel that is shown is served, the device asked  *)
(* for is opened, the navigation fits; the preparation goes on when its     *)
(* screen is left; a tour keeps its run and its steps open what they name.  *)
NothingIsMissed ==
  /\ page = "install" => /\ Install!FailuresAreNamed /\ Install!ChangesAreShown
                         /\ Install!RestartsAreNamed /\ Install!OneRowPerFinding
  /\ page = "pages" => Pages!GroupsDontDependOnSort /\ Pages!TabIsOffered
  /\ page = "shell" => Shell!ActiveIsServed /\ Shell!FocusIsTaken /\ Shell!NavFits
  /\ page = "prepare" => Prepare!WorkGoesOn /\ Prepare!QuietOnceLeft
  /\ page = "tour" => Tour!KeptIsTheRun
  /\ page = "steps" => Steps!OpensWhatItNames /\ Steps!LeavesAsFound

(* Nothing goes back on its own: a station that was passed stays passed, a  *)
(* tour that runs is not replaced by a timer or a reload, a setup goes on   *)
(* where it stood, a welcome that ended does not start again, and what the  *)
(* user opened or edited during a tour is left to the user.                 *)
NothingGoesBack ==
  [][ /\ page = "run" => Run!StationNeverGoesBack
      /\ page = "rerun" => Rerun!StationNeverGoesBack
      /\ page = "tour" => Tour!OneTourAtATime /\ Tour!SetupGoesOn /\ Tour!WelcomedOnce
      /\ page = "steps" => Steps!KeepsTheUsers /\ Steps!EditedRuleStays ]_<<page, slots>>
=============================================================================
