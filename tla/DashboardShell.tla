--------------------------- MODULE DashboardShell ---------------------------
(***************************************************************************)
(* The frame of the dashboard page (dashboard.js, dashboardShell): the     *)
(* tabs, the panels fetched on the first visit, the one event stream whose *)
(* topics follow what the shown panel displays, the deep links into a      *)
(* panel, and the tab bar that moves what does not fit behind a button.    *)
(*                                                                         *)
(* A panel is fetched, then its style sheets and scripts are loaded, then  *)
(* its placeholder is replaced: requests are the panels panelRequests      *)
(* names, flights what is really under way.  The overview comes with the   *)
(* page.  What a panel shows of the live data is grid (the cards of the    *)
(* overview) and viewMode (of the device tiles).                           *)
(***************************************************************************)
EXTENDS Integers, Sequences, FiniteSets, SequencesExt

CONSTANTS Panels,     \* the panels with a tab; the overview is one of them
          Grids,      \* the sets of cards the overview may show
          Ids,        \* what a deep link may point at
          Widths,     \* the widths of the tabs, in their order
          Rooms,      \* the widths the bar may have
          MoreWidth, Gap,
          MaxMoves,
          Absent

VARIABLES activePanel,
          loaded,       \* panels whose content is in the page
          requests,     \* panelRequests
          flights,      \* panel -> "html", "assets" or Absent
          errors,       \* panelErrors
          grid, viewMode,
          liveSource,   \* [topics, devices] of the open stream, or Absent
          liveFallback, \* the stream broke: the page polls
          focus,        \* a deep link no panel has taken yet
          opened,       \* what the devices panel opened last
          navMode, room, overflow,
          moves

shellVars == <<activePanel, loaded, requests, flights, errors, grid, viewMode, liveSource,
               liveFallback, focus, opened, navMode, room, overflow, moves>>

-----------------------------------------------------------------------------
(* What a panel needs of the stream. *)

KindTopics == [energy |-> {"energy"}, entity |-> {"entities"}, diagnostics |-> {"diagnostics"},
               energy_stats |-> {"energy_stats"}, device |-> {"devices", "entities"}, chart |-> {}]

\* liveTopicsFor: the overview by its cards, the devices once they are there
LiveTopics(p, inPage, cards) ==
    CASE p = "overview" -> UNION {KindTopics[c.kind] : c \in cards}
      [] p = "devices" /\ p \in inPage -> {"entities", "devices"}
      [] p = "stats" -> {"energy_stats"}
      [] OTHER -> {}

\* liveDevicesFor: every device for the device panel, else those with a card;
\* a device is sent with its automatic rows when one of its cards asks for it
LiveDevices(p, inPage, cards, mode) ==
    CASE p = "devices" /\ p \in inPage -> {[id |-> "*", auto |-> mode # "control"]}
      [] p = "overview" ->
            LET shown == {c \in cards : c.kind = "device"} IN
            {[id |-> c.ref, auto |-> \E d \in shown : d.ref = c.ref /\ d.auto] : c \in shown}
      [] OTHER -> {}

Wanted(p, inPage, cards, mode) ==
    LET topics == LiveTopics(p, inPage, cards) IN
    [topics |-> topics, devices |-> IF "devices" \in topics THEN LiveDevices(p, inPage, cards, mode) ELSE {}]

\* syncLiveTopics and connectLive: a page that polls stays with it
SyncLive(p, inPage, cards, mode) ==
    liveSource' = IF liveFallback THEN liveSource ELSE Wanted(p, inPage, cards, mode)

-----------------------------------------------------------------------------
(* The tab bar. *)

\* The room the first n tabs take with the button behind them
WithMore(n) == FoldLeft(+, MoreWidth, SubSeq(Widths, 1, n)) + n * Gap
AllTabs == FoldLeft(+, 0, Widths) + Gap * (Len(Widths) - 1)

\* visibleTabCount
VisibleTabs(available) ==
    IF AllTabs <= available THEN Len(Widths)
    ELSE CHOOSE n \in 0 .. Len(Widths) - 1 :
            /\ n > 0 => WithMore(n) <= available
            /\ WithMore(n + 1) > available \/ n = Len(Widths) - 1
            /\ \A k \in 1 .. n : WithMore(k) <= available

\* fitNav: the tabs that go behind the button; a bar that is not drawn and
\* the menu have none
FitNav(mode, available) ==
    IF mode # "more" \/ available = 0 THEN <<>> ELSE SubSeq(Widths, VisibleTabs(available) + 1, Len(Widths))

-----------------------------------------------------------------------------

Init ==
    /\ activePanel \in Panels
    /\ loaded = {"overview"}
    /\ requests = IF activePanel = "overview" THEN {} ELSE {activePanel}
    /\ flights = [p \in Panels |-> IF p \in requests THEN "html" ELSE Absent]
    /\ errors = {}
    /\ grid \in Grids
    /\ viewMode = "compact"
    /\ liveFallback = FALSE
    /\ liveSource = Wanted(activePanel, loaded, grid, viewMode)
    /\ focus = Absent
    /\ opened = Absent
    /\ navMode = "more"
    /\ room \in Rooms
    /\ overflow = FitNav(navMode, room)
    /\ moves = 0

Move == moves < MaxMoves /\ moves' = moves + 1

\* loadPanel: a panel that is there or on its way is not asked for again
Ask(p) ==
    IF p \in loaded \cup requests
    THEN UNCHANGED <<requests, flights, errors>>
    ELSE /\ requests' = requests \cup {p}
         /\ flights' = [flights EXCEPT ![p] = "html"]
         /\ errors' = errors \ {p}

\* setActivePanel; the question of the layout editor is in LayoutEditor
Show(p) ==
    /\ activePanel' = p
    /\ Ask(p)
    /\ SyncLive(p, loaded, grid, viewMode)

SetActivePanel(p) ==
    /\ Move
    /\ Show(p)
    /\ UNCHANGED <<loaded, grid, viewMode, liveFallback, focus, opened, navMode, room, overflow>>

\* Mutant: only a panel that starts takes the wish.
MutTaken(id, inPage) == FALSE

\* dashboard-open-panel with deviceFocus: the wish is left for a panel that
\* is still to come; a panel that is there takes it by the event
Taken(id, inPage) == "devices" \in inPage

OpenPanel(id) ==
    /\ "devices" \in Panels
    /\ Move
    /\ Show("devices")
    /\ IF Taken(id, loaded) THEN focus' = Absent /\ opened' = id
       ELSE focus' = id /\ UNCHANGED opened
    /\ UNCHANGED <<loaded, grid, viewMode, liveFallback, navMode, room, overflow>>

\* The same while the unsaved layout holds the user back: the panel does not
\* change, the wish and its event go out all the same
OpenHeldBack(id) ==
    /\ activePanel = "overview"
    /\ "devices" \in Panels
    /\ Move
    /\ IF Taken(id, loaded) THEN focus' = Absent /\ opened' = id
       ELSE focus' = id /\ UNCHANGED opened
    /\ UNCHANGED <<activePanel, loaded, requests, flights, errors, grid, viewMode, liveSource,
                   liveFallback, navMode, room, overflow>>

\* The finally of loadPanel
Settled(p) == requests \ {p}

\* The text is here: a panel nobody looks at any more is dropped, the others
\* load their assets (loadAsset, one after the other)
PanelHtml(p) ==
    /\ flights[p] = "html"
    /\ IF activePanel = p
       THEN flights' = [flights EXCEPT ![p] = "assets"] /\ UNCHANGED requests
       ELSE flights' = [flights EXCEPT ![p] = Absent] /\ requests' = Settled(p)
    /\ UNCHANGED <<activePanel, loaded, errors, grid, viewMode, liveSource, liveFallback, focus,
                   opened, navMode, room, overflow, moves>>

\* Whether the stream is looked at again once the panel stands in the page
SyncLoaded(p) == SyncLive(activePanel, loaded \cup {p}, grid, viewMode)

\* The assets are here: the placeholder is replaced wherever the user is by
\* then, and the devices panel takes the wish that waited for it
AssetsLoaded(p) ==
    /\ flights[p] = "assets"
    /\ flights' = [flights EXCEPT ![p] = Absent]
    /\ requests' = requests \ {p}
    /\ loaded' = loaded \cup {p}
    /\ SyncLoaded(p)
    /\ IF p = "devices" /\ focus # Absent THEN opened' = focus /\ focus' = Absent
       ELSE UNCHANGED <<opened, focus>>
    /\ UNCHANGED <<activePanel, errors, grid, viewMode, liveFallback, navMode, room, overflow, moves>>

\* The request or an asset failed: the placeholder says so
PanelFails(p) ==
    /\ flights[p] # Absent
    /\ moves < MaxMoves
    /\ flights' = [flights EXCEPT ![p] = Absent]
    /\ requests' = requests \ {p}
    /\ errors' = errors \cup {p}
    /\ UNCHANGED <<activePanel, loaded, grid, viewMode, liveSource, liveFallback, focus, opened,
                   navMode, room, overflow, moves>>

\* A fragment was swapped in (htmx:afterSettle): other cards, another mode
SwapGrid(g) ==
    /\ Move
    /\ grid' = g
    /\ SyncLive(activePanel, loaded, g, viewMode)
    /\ UNCHANGED <<activePanel, loaded, requests, flights, errors, viewMode, liveFallback, focus,
                   opened, navMode, room, overflow>>
SwapTiles(mode) ==
    /\ "devices" \in loaded
    /\ Move
    /\ viewMode' = mode
    /\ SyncLive(activePanel, loaded, grid, mode)
    /\ UNCHANGED <<activePanel, loaded, requests, flights, errors, grid, liveFallback, focus,
                   opened, navMode, room, overflow>>

\* onerror: the stream is closed for good and the page asks every 30 s
StreamFails ==
    /\ liveSource # Absent
    /\ liveSource' = Absent
    /\ liveFallback' = TRUE
    /\ UNCHANGED <<activePanel, loaded, requests, flights, errors, grid, viewMode, focus, opened,
                   navMode, room, overflow, moves>>

\* The bar is measured again: another width, another way to navigate
Refit(mode, available) ==
    /\ Move
    /\ navMode' = mode
    /\ room' = available
    /\ overflow' = FitNav(mode, available)
    /\ UNCHANGED <<activePanel, loaded, requests, flights, errors, grid, viewMode, liveSource,
                   liveFallback, focus, opened>>

Next ==
    \/ \E p \in Panels : SetActivePanel(p)
    \/ \E id \in Ids : OpenPanel(id)
    \/ \E id \in Ids : OpenHeldBack(id)
    \/ \E p \in Panels : PanelHtml(p)
    \/ \E p \in Panels : AssetsLoaded(p)
    \/ \E p \in Panels : PanelFails(p)
    \/ \E g \in Grids : SwapGrid(g)
    \/ \E m \in {"control", "compact"} : SwapTiles(m)
    \/ StreamFails
    \/ \E m \in {"more", "menu"}, r \in Rooms : Refit(m, r)

Spec == Init /\ [][Next]_shellVars

-----------------------------------------------------------------------------

\* Unless it broke, the stream carries exactly the topics and the devices the
\* panel in sight displays, whatever arrived, was swapped or was left while
\* it was loading (syncLiveTopics, dashboard.js:458-466).
StreamCoversPanel ==
    ~liveFallback => liveSource = Wanted(activePanel, loaded, grid, viewMode)

\* The panel in sight is there, on its way, or says why it is not: an answer
\* dropped because the user had left does not keep the panel from being
\* asked for when he comes back (loadPanel).
ActiveIsServed ==
    \/ activePanel \in loaded
    \/ flights[activePanel] # Absent
    \/ activePanel \in errors

\* A deep link to a device waits only for a devices panel that is still to
\* come: once the panel is there no wish is left over to open a device
\* nobody asked for any more (dashboard-open-panel, devicesPanel.init).
FocusIsTaken == "devices" \in loaded => focus = Absent

\* What stands in the bar fits into it: when tabs are behind the button, the
\* tabs before it, the gaps and the button take no more room than there is
\* (visibleTabCount), unless the button alone is too wide.
NavFits ==
    LET kept == SubSeq(Widths, 1, Len(Widths) - Len(overflow)) IN
    (overflow # <<>> /\ kept # <<>>) =>
        FoldLeft(+, MoreWidth, kept) + Len(kept) * Gap <= room

=============================================================================
