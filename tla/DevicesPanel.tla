---------------------------- MODULE DevicesPanel ----------------------------
(***************************************************************************)
(* How the device tiles of the overview and of the devices tab are kept up *)
(* to date (dashboard.js, devicesPanel; device-structure.js): a push of    *)
(* the event stream patches the tiles in place, a tile whose structure     *)
(* changed is fetched alone, and everything else exchanges the whole grid. *)
(* Exchanges wait for one another, tile requests run beside them.          *)
(*                                                                         *)
(* A tile is the revision of the structure it was drawn from.  A push      *)
(* names one device and carries what the server knows when it is sent.     *)
(***************************************************************************)
EXTENDS Integers, Sequences, FiniteSets, SequencesExt

CONSTANTS Devices, Pages, MaxChanges, MaxClicks, MaxQueue, MaxFailures, Absent

Modes == {"control", "compact"}

VARIABLES tab,         \* which of the two panels this is
          activePage,  \* of the shell: the overview draws one page
          viewMode,    \* the toggle of the devices tab
          saving,      \* viewModeSaving
          queue,       \* _liveQueue: the exchanges that wait, with their mode
          running,     \* the exchange under way, or Absent
          tiles,       \* device -> the revision its tile was drawn from
          drawnPage, drawnMode,
          server,      \* device -> the structure's revision
          due,         \* devices whose push is still to come
          requests,    \* _tileRequests: device -> the request under way, or Absent; here while
                       \* the element it is to replace stands in the page
          modal,       \* a device is open
          stale,       \* livePatchStale
          crossed,     \* a push met an exchange that had already started
          failed,      \* the last exchange did not come back
          changes, clicks, failures

panelVars == <<tab, activePage, viewMode, saving, queue, running, tiles, drawnPage, drawnMode,
               server, due, requests, modal, stale, crossed, failed, changes, clicks, failures>>

Init ==
    /\ tab \in {"overview", "devices"}
    /\ activePage \in Pages
    /\ drawnPage = activePage
    /\ viewMode \in Modes
    /\ drawnMode = viewMode
    /\ saving = FALSE
    /\ queue = <<>>
    /\ running = Absent
    /\ server = [d \in Devices |-> 0]
    /\ tiles = [d \in Devices |-> 0]
    /\ due = {}
    /\ requests = [d \in Devices |-> Absent]
    /\ modal = FALSE
    /\ stale = FALSE
    /\ crossed = FALSE
    /\ failed = FALSE
    /\ changes = 0
    /\ clicks = 0
    /\ failures = 0

Click == clicks < MaxClicks /\ clicks' = clicks + 1

-----------------------------------------------------------------------------
(* The exchange of the grid. *)

\* runLiveFragment: the mode was fixed when the exchange was asked for, the
\* page is read when it starts
Started(job, page) == [mode |-> job.mode, toggle |-> job.toggle, page |-> page,
                       read |-> Absent, crossed |-> FALSE]

\* Whoever meets an exchange waits behind it
Behind(job) == Append(queue, job)

\* refreshLiveFragment: at once when nothing runs
Exchange(mode, toggle, page) ==
    LET job == [mode |-> mode, toggle |-> toggle] IN
    IF running = Absent /\ queue = <<>>
    THEN running' = Started(job, page) /\ UNCHANGED queue
    ELSE Len(queue) < MaxQueue /\ queue' = Behind(job) /\ UNCHANGED running

Quiet == UNCHANGED <<queue, running>>

\* The mode of an exchange nobody chose a mode for: the toggle's
RefreshMode == viewMode

\* The next exchange of the chain
NextExchange ==
    /\ running = Absent
    /\ queue # <<>>
    /\ running' = Started(Head(queue), activePage)
    /\ queue' = Tail(queue)
    /\ UNCHANGED <<tab, activePage, viewMode, saving, tiles, drawnPage, drawnMode, server, due,
                   requests, modal, stale, crossed, failed, changes, clicks, failures>>

\* The server draws the grid
ExchangeRead ==
    /\ running # Absent
    /\ running.read = Absent
    /\ running' = [running EXCEPT !.read = server]
    /\ UNCHANGED <<tab, activePage, viewMode, saving, queue, tiles, drawnPage, drawnMode, server,
                   due, requests, modal, stale, crossed, failed, changes, clicks, failures>>

\* The grid is swapped: every tile is another element now
ExchangeDone ==
    /\ running # Absent
    /\ running.read # Absent
    /\ tiles' = running.read
    /\ requests' = [d \in Devices |-> IF requests[d] = Absent THEN Absent ELSE [requests[d] EXCEPT !.here = FALSE]]
    /\ drawnPage' = running.page
    /\ drawnMode' = running.mode
    /\ crossed' = running.crossed
    /\ failed' = FALSE
    /\ saving' = (saving /\ running.toggle = Absent)
    /\ running' = Absent
    /\ UNCHANGED <<tab, activePage, viewMode, queue, server, due, modal, stale, changes, clicks, failures>>

\* It fails: a change of the mode is taken back
ExchangeFails ==
    /\ running # Absent
    /\ failures < MaxFailures
    /\ failures' = failures + 1
    /\ failed' = TRUE
    /\ viewMode' = IF running.toggle # Absent THEN running.toggle ELSE viewMode
    /\ saving' = (saving /\ running.toggle = Absent)
    /\ running' = Absent
    /\ UNCHANGED <<tab, activePage, queue, tiles, drawnPage, drawnMode, server, due, requests,
                   modal, stale, crossed, changes, clicks>>

-----------------------------------------------------------------------------
(* What the user does. *)

\* setActivePage and the pageChanged listener
ClickPage(p) ==
    /\ tab = "overview"
    /\ ~modal
    /\ Click
    /\ activePage' = p
    /\ Exchange(RefreshMode, Absent, p)
    /\ UNCHANGED <<tab, viewMode, saving, tiles, drawnPage, drawnMode, server, due, requests,
                   modal, stale, crossed, failed, changes, failures>>

\* setViewMode: one change at a time
SetViewMode(mode) ==
    /\ tab = "devices"
    /\ ~modal
    /\ mode # viewMode
    /\ ~saving
    /\ Click
    /\ viewMode' = mode
    /\ saving' = TRUE
    /\ Exchange(mode, viewMode, activePage)
    /\ UNCHANGED <<tab, activePage, tiles, drawnPage, drawnMode, server, due, requests, modal,
                   stale, crossed, failed, changes, failures>>

\* deviceViewModeChanged: the settings page changed the mode
ModeFromSettings(mode) ==
    /\ ~modal
    /\ mode # viewMode
    /\ Click
    /\ viewMode' = mode
    /\ Exchange(mode, Absent, activePage)
    /\ UNCHANGED <<tab, activePage, saving, tiles, drawnPage, drawnMode, server, due, requests,
                   modal, stale, crossed, failed, changes, failures>>

\* openDevice and closeDeviceDetail: what was pushed meanwhile is made up for
OpenModal ==
    /\ ~modal
    /\ Click
    /\ modal' = TRUE
    /\ UNCHANGED <<tab, activePage, viewMode, saving, queue, running, tiles, drawnPage, drawnMode,
                   server, due, requests, stale, crossed, failed, changes, failures>>

CatchUp == stale
CloseModal ==
    /\ modal
    /\ modal' = FALSE
    /\ stale' = FALSE
    /\ IF CatchUp THEN Exchange(RefreshMode, Absent, activePage) ELSE Quiet
    /\ UNCHANGED <<tab, activePage, viewMode, saving, tiles, drawnPage, drawnMode, server, due,
                   requests, crossed, failed, changes, clicks, failures>>

-----------------------------------------------------------------------------
(* The pushes. *)

Change(d) ==
    /\ changes < MaxChanges
    /\ changes' = changes + 1
    /\ server' = [server EXCEPT ![d] = @ + 1]
    /\ due' = due \cup {d}
    /\ UNCHANGED <<tab, activePage, viewMode, saving, queue, running, tiles, drawnPage, drawnMode,
                   requests, modal, stale, crossed, failed, clicks, failures>>

\* replaceTile: one request per tile, a second wish is remembered
AskTile == [here |-> TRUE, read |-> Absent, pending |-> Absent]

Wish(d) == IF requests[d] = Absent THEN AskTile ELSE [requests[d] EXCEPT !.pending = server[d]]

\* registryUpdated: an open device swallows the push; else device-structure.js
\* compares the structure with the tile's
Push(d) ==
    /\ d \in due
    /\ due' = due \ {d}
    /\ IF modal
       THEN stale' = TRUE /\ UNCHANGED requests
       ELSE /\ requests' = IF tiles[d] = server[d] THEN requests
                           ELSE [requests EXCEPT ![d] = Wish(d)]
            /\ UNCHANGED stale
    /\ running' = IF running = Absent \/ modal THEN running ELSE [running EXCEPT !.crossed = TRUE]
    /\ UNCHANGED <<tab, activePage, viewMode, saving, queue, tiles, drawnPage, drawnMode, server,
                   modal, crossed, failed, changes, clicks, failures>>

\* A push that leaves something uncovered (livePushCovers) exchanges the grid
PushUncovered(d) ==
    /\ d \in due
    /\ ~modal
    /\ due' = due \ {d}
    /\ Exchange(RefreshMode, Absent, activePage)
    /\ UNCHANGED <<tab, activePage, viewMode, saving, tiles, drawnPage, drawnMode, server,
                   requests, modal, stale, crossed, failed, changes, clicks, failures>>

TileRead(d) ==
    /\ requests[d] # Absent
    /\ requests[d].read = Absent
    /\ requests' = [requests EXCEPT ![d].read = server[d]]
    /\ UNCHANGED <<tab, activePage, viewMode, saving, queue, running, tiles, drawnPage, drawnMode,
                   server, due, modal, stale, crossed, failed, changes, clicks, failures>>

\* What is left to ask once a request ended: a wish that came up during it
\* and that the tile in the page does not meet
Again(d, tile) ==
    IF requests[d].pending # Absent /\ tile # requests[d].pending THEN AskTile ELSE Absent

\* The tile's element is replaced, unless the grid took it away meanwhile
TileDone(d) ==
    /\ requests[d] # Absent
    /\ requests[d].read # Absent
    /\ LET fresh == IF requests[d].here THEN requests[d].read ELSE tiles[d]
       IN /\ tiles' = [tiles EXCEPT ![d] = fresh]
          /\ requests' = [requests EXCEPT ![d] = Again(d, fresh)]
    /\ UNCHANGED <<tab, activePage, viewMode, saving, queue, running, drawnPage, drawnMode, server,
                   due, modal, stale, crossed, failed, changes, clicks, failures>>

\* It fails: a tile still in the page falls back to the exchange of the grid
TileFails(d) ==
    /\ requests[d] # Absent
    /\ failures < MaxFailures
    /\ failures' = failures + 1
    /\ requests' = [requests EXCEPT ![d] = IF requests[d].here THEN Absent ELSE Again(d, tiles[d])]
    /\ IF requests[d].here THEN Exchange(RefreshMode, Absent, activePage) ELSE Quiet
    /\ UNCHANGED <<tab, activePage, viewMode, saving, tiles, drawnPage, drawnMode, server, due,
                   modal, stale, crossed, failed, changes, clicks>>

Next ==
    \/ NextExchange
    \/ ExchangeRead
    \/ ExchangeDone
    \/ ExchangeFails
    \/ \E p \in Pages : ClickPage(p)
    \/ \E m \in Modes : SetViewMode(m)
    \/ \E m \in Modes : ModeFromSettings(m)
    \/ OpenModal
    \/ CloseModal
    \/ \E d \in Devices : Change(d)
    \/ \E d \in Devices : Push(d)
    \/ \E d \in Devices : PushUncovered(d)
    \/ \E d \in Devices : TileRead(d)
    \/ \E d \in Devices : TileDone(d)
    \/ \E d \in Devices : TileFails(d)

Spec == Init /\ [][Next]_panelVars

-----------------------------------------------------------------------------

AtRest ==
    /\ running = Absent /\ queue = <<>> /\ due = {} /\ ~modal
    /\ \A d \in Devices : requests[d] = Absent

\* When nothing is under way, every tile shows its device's structure, also
\* of what was pushed while a device was open or while the tile was being
\* fetched - unless the last exchange failed or a push met an exchange that
\* was already under way (replaceTile, closeDeviceDetail).
TilesCatchUp == (AtRest /\ ~crossed /\ ~failed) => \A d \in Devices : tiles[d] = server[d]

\* Of two quick clicks on page tabs the last one counts: when nothing is
\* under way and the last exchange came back, the page in sight is the chosen
\* one (dashboard.js:777-781, "der letzte Klick gewinnt immer").
LastClickWins == (AtRest /\ ~failed) => drawnPage = activePage

\* The toggle and the tiles agree once the change is through: as long as no
\* exchange failed, nothing left in the chain draws the tiles in a mode the
\* toggle no longer has (setViewMode).
ToggleMatchesTiles == (AtRest /\ failures = 0) => drawnMode = viewMode

=============================================================================
