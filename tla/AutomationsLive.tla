---------------------------- MODULE AutomationsLive ----------------------------
(***************************************************************************)
(* The running values on the automations page (dashboard/internal/webui/    *)
(* static/js/automations.page.js): every registry tick reads the service's  *)
(* device; a new time stamp on its entities reads the document behind it;   *)
(* the chart of a scenario is read from the browser's history.              *)
(*                                                                         *)
(* Requests run side by side and their answers come in any order.  A        *)
(* document is the number of the message that carried it.                   *)
(***************************************************************************)
EXTENDS Naturals, FiniteSets

CONSTANTS
  Kinds,        \* the documents: "state", "history"
  Ranges,       \* time spans a chart may show
  Absent,       \* nothing yet
  MaxMessages,  \* bound on messages of the service
  MaxFlights    \* bound on requests under way

VARIABLES
  latest,       \* number of the service's last message, per document
  running,      \* the node has an automation service, and it is available
  lastMessageAt,\* the time stamp the page acted on last
  shown,        \* the document the page shows
  flights,      \* requests: [to, at], at the number the server answered with
  online,
  overtaken,    \* history: an answer was blank or older than what is shown, and none caught up since
  visible,
  chartRange, chartPoints, reads  \* of the one chart: range wanted, range shown, ranges being read

chartVars == <<chartRange, chartPoints, reads>>
liveVars == <<latest, running, lastMessageAt, shown, flights, online, overtaken, visible, chartVars>>

Flying(kind) == {f \in flights : f.to = kind}

--------------------------------------------------------------------------
(* The service.                                                             *)

Message(kind) ==
  /\ latest[kind] < MaxMessages /\ running
  /\ latest' = [latest EXCEPT ![kind] = @ + 1]
  /\ UNCHANGED <<running, lastMessageAt, shown, flights, online, overtaken, visible, chartVars>>

ServiceComesOrGoes ==
  /\ running' = ~running
  /\ UNCHANGED <<latest, lastMessageAt, shown, flights, online, overtaken, visible, chartVars>>

ShowOrHide ==
  /\ visible' = ~visible
  /\ UNCHANGED <<latest, running, lastMessageAt, shown, flights, online, overtaken, chartVars>>

--------------------------------------------------------------------------
(* The device, then what is new.                                            *)

\* A registry update; a tab in the background lets it pass.
RefreshFromRegistry ==
  /\ visible /\ Cardinality(flights) < MaxFlights
  /\ flights' = flights \cup {[to |-> "device", at |-> latest, up |-> running]}
  /\ UNCHANGED <<latest, running, lastMessageAt, shown, online, overtaken, visible, chartVars>>

\* The device as it was when the server answered; only a changed time stamp reads on.
ApplyRuntimeState(f) ==
  /\ f \in Flying("device")
  /\ LET new == {kind \in Kinds : f.at[kind] # lastMessageAt[kind]}
     IN /\ lastMessageAt' = f.at
        /\ flights' = (flights \ {f}) \cup {[to |-> kind, at |-> latest, up |-> TRUE] : kind \in new}
  /\ online' = f.up
  /\ UNCHANGED <<latest, running, shown, overtaken, visible, chartVars>>

\* Only a 404 is an answer: there is no service here.
DeviceFails(f, missing) ==
  /\ f \in Flying("device") /\ flights' = flights \ {f}
  /\ online' = (online /\ ~missing)
  /\ UNCHANGED <<latest, running, lastMessageAt, shown, overtaken, visible, chartVars>>

\* A document arrives; a blank one (204) must not clear the page.
ApplyDocument(f, blank) ==
  /\ f.to \in Kinds /\ flights' = flights \ {f}
  /\ shown' = IF blank THEN shown ELSE [shown EXCEPT ![f.to] = f.at[f.to]]
  /\ overtaken' = [overtaken EXCEPT ![f.to] = blank \/ f.at[f.to] < shown[f.to]
                                              \/ (@ /\ f.at[f.to] < latest[f.to])]
  /\ UNCHANGED <<latest, running, lastMessageAt, online, visible, chartVars>>

\* The next tick tries again.
DocumentFails(f) ==
  /\ f.to \in Kinds /\ flights' = flights \ {f}
  /\ lastMessageAt' = [lastMessageAt EXCEPT ![f.to] = 0]
  /\ UNCHANGED <<latest, running, shown, online, overtaken, visible, chartVars>>

--------------------------------------------------------------------------
(* The chart.                                                               *)

SetChartRange(range) ==
  /\ range # chartRange /\ chartRange' = range /\ reads' = reads \cup {range}
  /\ UNCHANGED <<latest, running, lastMessageAt, shown, flights, online, overtaken, visible, chartPoints>>

\* Every minute while the card is open and the page visible.
ScenarioTick ==
  /\ visible /\ reads' = reads \cup {chartRange}
  /\ UNCHANGED <<latest, running, lastMessageAt, shown, flights, online, overtaken, visible,
                 chartRange, chartPoints>>

\* A range that is no longer wanted is dropped; a failed read gives no points.
ChartRead(range) ==
  /\ range \in reads /\ reads' = reads \ {range}
  /\ chartPoints' = IF chartRange = range THEN range ELSE chartPoints
  /\ UNCHANGED <<latest, running, lastMessageAt, shown, flights, online, overtaken, visible, chartRange>>

--------------------------------------------------------------------------
Zero == [kind \in Kinds |-> 0]

Init ==
  /\ latest = Zero /\ running = TRUE /\ lastMessageAt = Zero /\ shown = Zero /\ flights = {}
  /\ online = FALSE /\ overtaken = [kind \in Kinds |-> FALSE] /\ visible = TRUE
  /\ chartRange = (CHOOSE range \in Ranges : TRUE) /\ chartPoints = Absent /\ reads = {}

Next ==
  \/ \E kind \in Kinds : Message(kind)
  \/ ServiceComesOrGoes \/ ShowOrHide \/ RefreshFromRegistry \/ ScenarioTick
  \/ \E f \in flights : \/ ApplyRuntimeState(f) \/ DocumentFails(f)
                        \/ \E flag \in BOOLEAN : DeviceFails(f, flag) \/ ApplyDocument(f, flag)
  \/ \E range \in Ranges : SetChartRange(range) \/ ChartRead(range)

Spec == Init /\ [][Next]_liveVars

--------------------------------------------------------------------------
\* What the page has acted on, it shows, however often requests failed, unless an answer
\* was overtaken or blank.
ShowsWhatItSaw ==
  \A kind \in Kinds :
    (Flying(kind) = {} /\ ~overtaken[kind]) => shown[kind] >= lastMessageAt[kind]

\* The points of a chart are never those of a range that was given up meanwhile.
ChartIsOfItsRange == reads = {} => chartPoints \in {Absent, chartRange}
==============================================================================
