------------------------------ MODULE MCEditors ------------------------------
(***************************************************************************)
(* The editing pages of the dashboard and of the installer for TLC.  Each  *)
(* page is a document of its own in the browser: a behaviour opens one of  *)
(* them and stays on it, and the slots stand for the variables of that page.*)
(***************************************************************************)
EXTENDS Integers, Sequences, FiniteSets, SequencesExt, TLC

CONSTANT Absent

VARIABLES page, slot1, slot2, slot3, slot4, slot5, slot6, slot7, slot8,
  slot9, slot10, slot11, slot12, slot13, slot14, slot15, slot16, slot17

\* The slots from the n-th on, which a page with fewer variables leaves alone.
from17 == slot17
from16 == <<slot16, from17>>
from15 == <<slot15, from16>>
from14 == <<slot14, from15>>
from13 == <<slot13, from14>>
from12 == <<slot12, from13>>
from11 == <<slot11, from12>>
from10 == <<slot10, from11>>
from9 == <<slot9, from10>>
from8 == <<slot8, from9>>
from7 == <<slot7, from8>>
from6 == <<slot6, from7>>
from5 == <<slot5, from6>>
from4 == <<slot4, from5>>
from3 == <<slot3, from4>>
from2 == <<slot2, from3>>
slots == <<slot1, from2>>

Blank(n) ==
  /\ n <= 2 => slot2 = Absent
  /\ n <= 3 => slot3 = Absent
  /\ n <= 4 => slot4 = Absent
  /\ n <= 5 => slot5 = Absent
  /\ n <= 6 => slot6 = Absent
  /\ n <= 7 => slot7 = Absent
  /\ n <= 8 => slot8 = Absent
  /\ n <= 9 => slot9 = Absent
  /\ n <= 10 => slot10 = Absent
  /\ n <= 11 => slot11 = Absent
  /\ n <= 12 => slot12 = Absent
  /\ n <= 13 => slot13 = Absent
  /\ n <= 14 => slot14 = Absent
  /\ n <= 15 => slot15 = Absent
  /\ n <= 16 => slot16 = Absent
  /\ n <= 17 => slot17 = Absent

-----------------------------------------------------------------------------
(* The automations page: two entries, one edit.                            *)
Automations == INSTANCE AutomationsPage WITH
  Ids <- {1, 2}, Bodies <- {0, 1}, MaxEdits <- 1, document <- slot1,
  savedDocument <- slot2, storedDocument <- slot3, server <- slot4,
  service <- slot5, saving <- slot6, sent <- slot7, told <- slot8,
  editing <- slot9, editSnapshot <- slot10, newIds <- slot11, undo <- slot12,
  testing <- slot13, asked <- slot14, mayEdit <- slot15, doubt <- slot16,
  edits <- slot17

-----------------------------------------------------------------------------
(* The editor of one automation: a plug, a wallbox, an inverter.           *)
Ability(group, switch, bounds, readable) ==
  [group |-> group, switch |-> switch, bounds |-> bounds, readable |-> readable]
Abilities == [plug |-> Ability("other", TRUE, FALSE, TRUE), box |-> Ability("wallbox", FALSE, TRUE, TRUE),
              inv |-> Ability("inverter", FALSE, TRUE, FALSE)]

Draft == INSTANCE AutomationDraft WITH
  Entities <- Abilities, MaxParts <- 2, conditions <- slot1,
  actions <- slot2, repeats <- slot3, regulator <- slot4, emptied <- slot5,
  picker <- slot6, topics <- slot7

-----------------------------------------------------------------------------
(* The assistant: a house with all its templates know, and a sparse one.   *)
Device(id, role, actuator) ==
  [id |-> id, role |-> role, actuator |-> actuator, value |-> TRUE, switch |-> FALSE, measured |-> TRUE,
   plug |-> FALSE, thermometer |-> FALSE, limit |-> FALSE, regulated |-> FALSE, price |-> FALSE, input |-> FALSE]
FullHouse ==
  << [Device("pv", "pv", "W") EXCEPT !.switch = TRUE], [Device("pv2", "pv", "W") EXCEPT !.measured = FALSE],
     [Device("box", "wallbox", "A") EXCEPT !.plug = TRUE, !.switch = TRUE],
     [Device("box2", "wallbox", "A") EXCEPT !.regulated = TRUE], [Device("hp", "heat_pump", "%") EXCEPT !.switch = TRUE],
     [Device("bat", "battery", "W") EXCEPT !.limit = TRUE], Device("bat2", "battery", "%"),
     [Device("rod", "none", "W") EXCEPT !.thermometer = TRUE, !.price = TRUE, !.input = TRUE] >>
SparseHouse ==
  << Device("pv", "pv", "none"), Device("box", "wallbox", "W"),
     [Device("hp", "heat_pump", "W") EXCEPT !.value = FALSE], Device("bat", "battery", "none") >>
Houses == {[devices |-> FullHouse, soc |-> TRUE, location |-> TRUE],
           [devices |-> SparseHouse, soc |-> TRUE, location |-> FALSE],
           [devices |-> FullHouse, soc |-> FALSE, location |-> FALSE]}

Assistant == INSTANCE AutomationAssistant WITH
  MinInterval <- 30, Contexts <- Houses, MaxChanges <- 1, Limit8 <- 1,
  home <- slot1, template <- slot2, answers <- slot3, index <- slot4,
  changes <- slot5, created <- slot6, entries <- slot7, closing <- slot8

-----------------------------------------------------------------------------
(* The layout editor: two pages, or two groups with a hidden card.         *)
Item(id, shown) == [id |-> id, form |-> 0, shown |-> shown]
TheLayouts ==
  { << [id |-> "a", form |-> 0, groups |-> << << Item("i", TRUE) >> >>],
       [id |-> "b", form |-> 0, groups |-> << << Item("j", FALSE) >> >>] >>,
    << [id |-> "a", form |-> 0, groups |-> << << Item("i", TRUE) >>, << Item("j", FALSE) >> >>] >> }

Layout == INSTANCE LayoutEditor WITH
  Layouts <- TheLayouts, Ids <- {"x"}, MaxEdits <- 2, keptLayout <- slot1,
  layout <- slot2, grid <- slot3, dressed <- slot4, sheet <- slot5,
  editorMode <- slot6, layoutReads <- slot7, readFailed <- slot8,
  layoutWrite <- slot9, unsaved <- slot10, question <- slot11,
  chosenPage <- slot12, activePage <- slot13, edits <- slot14

-----------------------------------------------------------------------------
(* The sheet of one card: a card type of every kind, a drag beyond the edge. *)
Types == {"energy_flow", "energy_stats", "entity_group", "battery_status", "history_view", "device"}
TheDevices == [d1 |-> <<"e1", "e2", "e3", "e4">>, d2 |-> <<"f1">>]
TheViews == [v1 |-> [hours |-> 30, aggregate |-> "max", series |-> <<"a">>],
             v2 |-> [hours |-> 6, aggregate |-> "avg", series |-> <<>>],
             v3 |-> [hours |-> 5000, aggregate |-> "avg", series |-> <<>>]]
TheDrags == {<<1, 20>>}

Cards == INSTANCE LayoutCards WITH
  CardTypes <- Types, Devices <- TheDevices, Views <- TheViews,
  Drags <- TheDrags, MaxTouches <- 2, card <- slot1, touches <- slot2

-----------------------------------------------------------------------------
(* The users page: an administrator, another account, one to be made.      *)
Role(category, requires, elevated, guest, ha) ==
  [category |-> category, requires |-> requires, elevated |-> elevated, guest_allowed |-> guest,
   ha_allowed |-> ha, https_only |-> elevated]
RoleCatalog == ("user_management" :> Role("sys", "", TRUE, FALSE, FALSE)
             @@ "view" :> Role("ui", "", FALSE, TRUE, TRUE) @@ "edit" :> Role("ui", "view", FALSE, FALSE, TRUE))
FirstAccounts ==
  [accounts |-> [n \in {"a", "b", "c"} |-> IF n = "c" THEN Absent ELSE [roles |-> {"user_management"}, disabled |-> FALSE]],
   ha |-> [ha_admin |-> FALSE, roles |-> {}, custom |-> FALSE, disabled |-> FALSE],
   presets |-> [guest |-> {"view"}, ha_admin |-> {"view", "edit"}, ha_user |-> {"view"}],
   guestAccess |-> TRUE, policy |-> 10, companion |-> [paired |-> TRUE, at |-> 1], code |-> FALSE]

Users == INSTANCE UsersPage WITH
  Catalog <- RoleCatalog, Names <- {"a", "b", "c"}, Self <- "a",
  First <- FirstAccounts, Fresh <- "c", Policies <- {8}, MaxEdits <- 1,
  MaxWrites <- 2, MaxChanges <- 1, MaxLoads <- 2, users <- slot1,
  listed <- slot2, desk <- slot3, write <- slot4, reads <- slot5,
  pairing <- slot6, others <- slot7, writes <- slot8

-----------------------------------------------------------------------------
(* The device map: a house, a meter and an automation; one relation found. *)
FoundRelations == {[parent |-> "h", child |-> "auto"]}

Map == INSTANCE DeviceMapPage WITH
  Devices <- {"h", "m", "auto"}, Automation <- "auto", Meter <- "m",
  Entities <- {"e1", "e2"}, SubIds <- {"s1", "s2"}, Found <- FoundRelations,
  Channels <- {1, 2}, Types <- {"energy", "info"},
  Directions <- {"auto", "fixed_down"}, Places <- {0, 1}, Unplaced <- 0,
  MaxEdits <- 1, MaxWrites <- 2, MaxOthers <- 1, MaxCalls <- 1,
  server <- slot1, shown <- slot2, saved <- slot3, page <- slot4,
  calls <- slot5, count <- slot6

-----------------------------------------------------------------------------
(* The energy roles, edited on two pages: a watt, a kilowatt, a switch.    *)
EntityDevice == [p |-> "d1", k |-> "d2", s |-> "d2"]
EntityUnit == [p |-> "W", k |-> "kW", s |-> "switch"]
Guessed == [p |-> "pv", k |-> "", s |-> "switch"]
Measured == [p |-> {-40}, k |-> {2}, s |-> {1}]
UnitRoles == [W |-> {"", "pv"}, kW |-> {"", "c"}, switch |-> {"", "switch"}]
StoredRoles == [p |-> [role |-> "pv", scale |-> 2, invert |-> TRUE, capacity |-> 0, channel |-> 0]]
StoredGroups == [g |-> [role |-> "", devices |-> {"d1"}, groups |-> {}]]

Roles == INSTANCE EnergyRoles WITH
  Entities <- {"p", "k", "s"}, Devices <- {"d1", "d2"},
  DeviceOf <- EntityDevice, Unit <- EntityUnit, Heuristic <- Guessed,
  Readings <- Measured, Roles <- UnitRoles, Categories <- {"c"},
  Groups <- {"g", "h"}, MaxEdits <- 1, MaxWrites <- 2, MaxOthers <- 1,
  FirstRoles <- StoredRoles, FirstGroups <- StoredGroups, server <- slot1,
  listed <- slot2, map <- slot3, page <- slot4, count <- slot5

-----------------------------------------------------------------------------
(* The device dialog: two devices, one favourite allowed.                  *)
Modal == INSTANCE DeviceModal WITH
  Devices <- {"d1", "d2"}, Refs <- {"a", "b"}, Icons <- {"", "x"},
  FavoriteLimit <- 1, MaxGestures <- 3, MaxPushes <- 1, stored <- slot1,
  selected <- slot2, detail <- slot3, log <- slot4, flights <- slot5,
  jobs <- slot6, work <- slot7, undo <- slot8, doubt <- slot9,
  gestures <- slot10, pushes <- slot11

-----------------------------------------------------------------------------
(* What the device map draws: devices in groups, outages, data flows.      *)
Wire(p, c) == [parent |-> p, child |-> c]
Laid(i, p, c) == [id |-> i, parent |-> p, child |-> c]
Props(p, c, type, direction) == [parent |-> p, child |-> c, type |-> type, direction |-> direction]
TheScenes ==
  [nodes : {{"h", "a", "b", "g", "k"}, {"h", "a", "b", "g", "k", "s"}}, subs : {<<>>, <<Wire("a", "s")>>},
   members : {<<>>, <<Wire("g", "a"), Wire("g", "k"), Wire("k", "a"), Wire("k", "b")>>, <<Wire("g", "k"), Wire("k", "b")>>},
   manual : {<<Laid("m1", "h", "g")>>, <<Laid("m1", "h", "g"), Laid("m2", "b", "a")>>, <<Laid("m3", "a", "s"), Laid("m1", "h", "g")>>},
   found : {<<>>, <<Wire("a", "b"), Wire("h", "a")>>},
   props : {<<>>, <<Props("b", "a", "energy", "fixed_up")>>, <<Props("a", "h", "data", "auto")>>},
   power : {[a |-> 300, b |-> -200], [a |-> 300, b |-> 500, s |-> -100], [b |-> 0, a |-> 40]}]
Lead(p, c, channel) == [parent |-> p, child |-> c, channel |-> channel]
Leads == << Lead("r", "p", 1), Lead("p", "q", 1), Lead("p", "x", 2), Lead("q", "x", 1), Lead("q", "y", 1), Lead("x", "y", 1),
            Lead("r", "x", 1) >>
Switched(device, entity, state) == [device |-> device, entity |-> entity, state |-> state]
TheOutages ==
  [pairs : {SelectSeq(Leads, LAMBDA e : e \in S) : S \in {T \in SUBSET ToSet(Leads) : Cardinality(T) >= 2}},
   switches : {<<Switched("p", "p1", s1), Switched("p", "p2", s2), Switched("q", "q1", s3), Switched("x", "x1", "off")>> :
                 s1 \in {"on", "off"}, s2 \in {"on", "off"}, s3 \in {"on", "off", "unknown"}},
   assigned : {[e \in {"p1", "p2"} |-> [role |-> "switch", channel |-> IF e = "p1" THEN 1 ELSE 2]],
               [e \in {"p2", "x1"} |-> [role |-> "switch", channel |-> 1]]},
   metered : {{"q"}}]
Flow(i, category, from, to) == [id |-> i, cat |-> category, from |-> from, to |-> to]
AllFlows == {Flow("1", "service", "a", "n"), Flow("2", "service", "n", "b"), Flow("3", "automation", "b", "n2"),
             Flow("4", "automation", "n2", "a"), Flow("5", "service", "balance", "n2"), Flow("6", "service", "gone", "a")}
Layers(data, balance, wires, energy) == [data |-> data, balance |-> balance, wiring |-> wires, energy |-> energy]
TheFlows ==
  [nodes : {{"a", "b", "n", "n2", "balance"}, {"a", "b", "n", "n2", "own"}}, edges : SUBSET AllFlows,
   unresolved : {{}, {[id |-> "u", target |-> "n", direction |-> "input"], [id |-> "v", target |-> "b", direction |-> "output"]}},
   roles : {{}, {[entity |-> "e", device |-> "a"], [entity |-> "o", device |-> "own"]}}, wiring : {{Wire("a", "b")}},
   layers : {Layers(TRUE, TRUE, TRUE, TRUE), Layers(TRUE, FALSE, FALSE, FALSE), Layers(FALSE, TRUE, FALSE, TRUE)}]

Wiring == INSTANCE DeviceMapWiring WITH
  Scenes <- TheScenes, Outages <- TheOutages, Flows <- TheFlows,
  Groups <- {"g", "k"}, Subs <- {"s"}, Own <- "own", Balance <- "balance",
  drawn <- slot1

-----------------------------------------------------------------------------
(* The installer's preferences for the dashboard.                          *)
Prefs == INSTANCE InstallPrefs WITH
  Groups <- {"metrics"}, Chips <- {"cpu", "ram"}, Standard <- {"cpu"},
  Names <- {"admin", "anna"}, MaxUsers <- 2, prefs <- slot1, users <- slot2,
  adminUser <- slot3, later <- slot4, before <- slot5, prefsOpen <- slot6,
  runSent <- slot7

-----------------------------------------------------------------------------
(* The installer's choice of steps: one of them needs another.             *)
NeedsOf == [id \in {"s15", "s35", "s83"} |-> IF id = "s35" THEN "s83" ELSE Absent]

Installer == INSTANCE InstallFlow WITH
  Optional <- {"s15", "s35", "s83"}, Services <- {"s83"}, Devices <- {"s83"},
  Default <- {"s15"}, Needs <- NeedsOf, wirt <- slot1, flowScreen <- slot2,
  entry <- slot3, connected <- slot4, fingerprint <- slot5, blocked <- slot6,
  sudoAsked <- slot7, stored <- slot8, selection <- slot9,
  selectionAtEntry <- slot10, servicesOnly <- slot11, draft <- slot12,
  passwords <- slot13, installInput <- slot14, cameWith <- slot15

-----------------------------------------------------------------------------
Init ==
  \/ page = "automations" /\ Automations!Init
  \/ page = "draft" /\ Draft!Init /\ Blank(8)
  \/ page = "assistant" /\ Assistant!Init /\ Blank(9)
  \/ page = "layout" /\ Layout!Init /\ Blank(15)
  \/ page = "cards" /\ Cards!Init /\ Blank(3)
  \/ page = "users" /\ Users!Init /\ Blank(9)
  \/ page = "map" /\ Map!Init /\ Blank(7)
  \/ page = "roles" /\ Roles!Init /\ Blank(6)
  \/ page = "modal" /\ Modal!Init /\ Blank(12)
  \/ page = "wiring" /\ Wiring!Init /\ Blank(2)
  \/ page = "prefs" /\ Prefs!Init /\ Blank(8)
  \/ page = "flow" /\ Installer!Init /\ Blank(16)

Next ==
  \/ page = "automations" /\ Automations!Next /\ UNCHANGED page
  \/ page = "draft" /\ Draft!Next /\ UNCHANGED <<page, from8>>
  \/ page = "assistant" /\ Assistant!Next /\ UNCHANGED <<page, from9>>
  \/ page = "layout" /\ Layout!Next /\ UNCHANGED <<page, from15>>
  \/ page = "cards" /\ Cards!Next /\ UNCHANGED <<page, from3>>
  \/ page = "users" /\ Users!Next /\ UNCHANGED <<page, from9>>
  \/ page = "map" /\ Map!Next /\ UNCHANGED <<page, from7>>
  \/ page = "roles" /\ Roles!Next /\ UNCHANGED <<page, from6>>
  \/ page = "modal" /\ Modal!Next /\ UNCHANGED <<page, from12>>
  \/ page = "wiring" /\ Wiring!Next /\ UNCHANGED <<page, from2>>
  \/ page = "prefs" /\ Prefs!Next /\ UNCHANGED <<page, from8>>
  \/ page = "flow" /\ Installer!Next /\ UNCHANGED <<page, from16>>

Spec == Init /\ [][Next]_<<page, slots>>

-----------------------------------------------------------------------------
(* What an editor takes for stored is what the server has stored: the       *)
(* automations page counts no unsaved change only when it shows what is     *)
(* saved, the layout editor is clean only when the layout shown is the one  *)
(* kept, the device dialog shows the favourites and names that were stored  *)
(* when nothing is under way, and the device map agrees with the server     *)
(* once its calls are answered.                                             *)
ShownIsStored ==
  /\ page = "automations" => Automations!CountsWhatIsStored
  /\ page = "layout" => Layout!CleanIsStored
  /\ page = "modal" => Modal!ShowsWhatIsStored
  /\ page = "map" => Map!AgreesWhenQuiet

(* What an editor lets the user save is what the server and the service     *)
(* accept, after any sequence of changes: an automation's sources, operands *)
(* and fallbacks fit its devices, the assistant's entries are savable, a    *)
(* card's sheet survives being stored, roles never lose their last          *)
(* administrator, an account's drafts hold allowed roles only, an energy    *)
(* value is previewed as it will be read, favourites and sub-devices keep   *)
(* their limits, the installer sends no step the user did not see.          *)
SavesAreAccepted ==
  /\ page = "draft" => Draft!SourceFits /\ Draft!OperandFits /\ Draft!ProducerHasFallback
  /\ page = "assistant" => Assistant!CreatedIsSavable /\ Assistant!StartedIsUndone
  /\ page = "cards" => Cards!SheetSurvivesSave /\ Cards!SaveIsAccepted
  /\ page = "users" => Users!DraftsAreAllowed /\ Users!AdminRemains
  /\ page = "roles" => Roles!PreviewIsTheSave /\ Roles!JoinsMove
  /\ page = "modal" => Modal!FavouritesAreFew
  /\ page = "map" => Map!SubDevicesKeepTheirPair
  /\ page = "prefs" => Prefs!LaterIsNotSent /\ Prefs!AccountsDiffer
  /\ page = "flow" => Installer!NoHiddenOptIn /\ Installer!KnowsItsPlace

(* What belongs to a thing is shown with it and nothing else is: a manual   *)
(* relation stays removable however it is drawn, a group counts a device    *)
(* once, a dead device has no living source, the consequences of a switch   *)
(* agree with what goes dead, a focused flow leads from end to end, the     *)
(* rows of a card are its device's, a summary leads back to every answer,   *)
(* the dialog shows the device it was opened for.                           *)
NothingIsHidden ==
  /\ page = "wiring" => /\ Wiring!ManualStaysRemovable /\ Wiring!GroupsCountOnce /\ Wiring!DeadHasNoSource
                        /\ Wiring!ConsequencesAgree /\ Wiring!FocusIsAWay
  /\ page = "cards" => Cards!RowsAreOfTheDevice /\ Cards!CardsHaveNames
  /\ page = "assistant" => Assistant!StepsBehindAreComplete /\ Assistant!SummaryLeadsBack
  /\ page = "modal" => Modal!ShowsTheDevice

(* What is taken back is as it was: cancelling the installer's services     *)
(* restores the choice, "later" gives the preferences back, a reload of the *)
(* accounts leaves the draft of the password policy, a pairing code stays   *)
(* until the companion has paired.                                          *)
UndoGivesBack ==
  [][ /\ page = "flow" => Installer!CancelRestores
      /\ page = "prefs" => Prefs!LaterGivesBack
      /\ page = "users" => Users!PolicyDraftStays /\ Users!CodeStaysUntilPaired ]_<<page, slots>>

(* One step of an editor changes only what it is about: a test asks only    *)
(* for what is stored, "applied" is told only of the revision that was      *)
(* saved, dragging keeps the order of the other cards, a card that is not   *)
(* bound shows every row, the last administrator keeps the role, switches   *)
(* that were not shown keep their setting, a device found later does not    *)
(* lose its role to the detection.                                          *)
EditsKeepTheRest ==
  [][ /\ page = "automations" => Automations!TestsWhatIsStored /\ Automations!AppliedIsLoaded
      /\ page = "layout" => Layout!GesturesKeepOrder
      /\ page = "cards" => Cards!UnboundShowsAll
      /\ page = "users" => Users!LastAdminIsLocked
      /\ page = "roles" => Roles!UnseenSwitchesStay /\ Roles!DetectionKeepsWorking ]_<<page, slots>>
=============================================================================
