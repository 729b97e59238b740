--------------------------- MODULE DeviceMapPage ---------------------------
(***************************************************************************)
(* The map itself, in the page that edits it (devicemap.page.js) and on    *)
(* the server that keeps it (httpapi.go, devicemap_subdevices.go,          *)
(* settings.go).  Positions and the settings of connections are edited     *)
(* here and saved as a whole; relations, sub-devices and the default view  *)
(* are written at once, and their answers are taken into the map that is   *)
(* shown and into the snapshot a discard goes back to.  Others write too.  *)
(*                                                                         *)
(* A map is [nodes, edges, props, subs, view]: a position for a node, the  *)
(* manual relations [id, child, parent], the settings of pairs [parent,    *)
(* child, type, direction, channel], the sub-devices [id, entity] of the   *)
(* meter, and whether the links of the automation are hidden.              *)
(***************************************************************************)
EXTENDS Integers, Sequences, FiniteSets, SequencesExt

CONSTANTS Devices,    \* what the registry lists
          Automation, \* the device of the automation
          Meter,      \* the device whose measurements can become sub-devices
          Entities,   \* its power measurements
          SubIds,     \* ids of sub-devices
          Found,      \* relations [parent, child] the devices announce
          Channels,   \* the outputs of the meter
          Types, Directions,
          Places, Unplaced, \* positions, and where the page puts a new node
          MaxEdits, MaxWrites, MaxOthers, \* bounds
          MaxCalls,   \* requests of the page under way at once
          Absent

VARIABLES server, \* the stored map
          shown,  \* deviceMap
          saved,  \* savedDeviceMap
          page,   \* [unsaved, local]: local hides the links for this browser only
          calls,  \* requests under way, [kind, body, answer]
          count   \* [edits, writes, others, relations]

mapVars == <<server, shown, saved, page, calls, count>>

-----------------------------------------------------------------------------
(* The map and its connections. *)

Key(e) == {e.parent, e.child}
SubsOf(m) == {s.id : s \in m.subs}
SubPairs(m) == {[parent |-> Meter, child |-> id] : id \in SubsOf(m)}

IsAutomationLink(e) == Automation \in Key(e)
View(m) == IF page.local = Absent THEN m.view ELSE page.local

\* buildEdgeElements: the pairs that are drawn
DrawnPairs(m) ==
    {e \in SubPairs(m) \cup Found \cup {[parent |-> r.parent, child |-> r.child] : r \in m.edges} :
        ~(View(m) /\ IsAutomationLink(e))}

Flipped(direction) ==
    CASE direction = "fixed_down" -> "fixed_up" [] direction = "fixed_up" -> "fixed_down" [] OTHER -> direction

PropsOf(m, key) == {p \in m.props : Key(p) = key}

\* setProp: a setting replaces the one of its pair; only energy has a channel
SetProp(m, e, type, direction, channel) ==
    [m EXCEPT !.props = {p \in @ : Key(p) # Key(e)} \cup
        {[parent |-> e.parent, child |-> e.child, type |-> type,
          direction |-> IF type = "energy" THEN direction ELSE "auto",
          channel |-> IF type = "energy" THEN channel ELSE Absent]}]

StoredChannel(m, e) ==
    IF PropsOf(m, Key(e)) = {} THEN Absent ELSE (CHOOSE p \in PropsOf(m, Key(e)) : TRUE).channel
ResolvedDirection(m, e) ==
    IF PropsOf(m, Key(e)) = {} \/ e.child \in SubIds THEN "auto"
    ELSE LET p == CHOOSE q \in PropsOf(m, Key(e)) : TRUE
         IN IF p.parent = e.parent THEN p.direction ELSE Flipped(p.direction)
ResolvedType(m, e) ==
    IF e.child \in SubIds THEN "energy"
    ELSE IF PropsOf(m, Key(e)) = {} THEN "data" ELSE (CHOOSE p \in PropsOf(m, Key(e)) : TRUE).type

-----------------------------------------------------------------------------
(* The server. *)

\* normalizeDeviceMap: nothing may point at a sub-device the map lacks
Normalized(m) ==
    LET Orphan(id) == id \in SubIds \ SubsOf(m) IN
    [m EXCEPT !.nodes = [n \in {x \in DOMAIN @ : ~Orphan(x)} |-> @[n]],
              !.props = {IF p.child \in SubIds THEN [p EXCEPT !.type = "energy", !.direction = "auto"] ELSE p :
                           p \in {q \in @ : ~Orphan(q.parent) /\ ~Orphan(q.child)}}]

\* keepSubDevices: a save of the whole map leaves the sub-devices, their
\* places and their pairs as they are stored
KeepSubDevices(value, stored) ==
    LET subNodes == {n \in DOMAIN stored.nodes : n \in SubIds /\ n \notin DOMAIN value.nodes} IN
    Normalized([value EXCEPT
        !.subs  = stored.subs,
        !.nodes = [n \in DOMAIN @ \cup subNodes |-> IF n \in subNodes THEN stored.nodes[n] ELSE @[n]],
        !.props = {p \in @ : p.child \notin SubsOf(stored)} \cup {p \in stored.props : p.child \in SubIds}])

\* relationParentMap: one parent for each device, a manual one before an
\* announced one, the later relation before the earlier one
ParentOf(edges, n) ==
    LET manual == {e \in edges : e.child = n}
        found  == {e \in Found : e.child = n}
    IN IF manual # {} THEN (CHOOSE e \in manual : \A f \in manual : f.id <= e.id).parent
       ELSE IF found # {} THEN (CHOOSE e \in found : TRUE).parent ELSE Absent

\* relationCreatesCycle
RECURSIVE Ascends(_, _, _, _)
Ascends(edges, from, to, seen) ==
    /\ from # Absent /\ from \notin seen
    /\ from = to \/ Ascends(edges, ParentOf(edges, from), to, seen \cup {from})
CreatesCycle(edges, child, parent) == Ascends(edges, parent, child, {})

\* handleReverseDeviceMapRelation: the pair's setting is stored the new way
\* round, with its fixed direction turned
ReversedProps(props, edge) ==
    {IF Key(p) = Key(edge) THEN [p EXCEPT !.parent = edge.parent, !.child = edge.child, !.direction = Flipped(@)]
     ELSE p : p \in props}

\* setSubDeviceEdge
SubDeviceEdge(m, id, channel) ==
    [m EXCEPT !.props = {p \in @ : p.child # id} \cup
        {[parent |-> Meter, child |-> id, type |-> "energy", direction |-> "auto", channel |-> channel]}]

\* What the server makes of a request; the stored map where it refuses
Stored(c) ==
    LET b == c.body IN
    CASE c.kind = "put" -> KeepSubDevices(b, server)
      [] c.kind = "view" -> [server EXCEPT !.view = b]
      [] c.kind = "connect" ->
           IF CreatesCycle(server.edges, b.child, b.parent) THEN server
           ELSE [server EXCEPT !.edges = @ \cup {[id |-> count.relations + 1, child |-> b.child, parent |-> b.parent]}]
      [] c.kind = "cut" -> [server EXCEPT !.edges = {e \in @ : e.id # b}]
      [] c.kind = "reverse" ->
           LET old == {e \in server.edges : e.id = b}
               new == {[id |-> e.id, child |-> e.parent, parent |-> e.child] : e \in old}
           IN IF \E e \in new : CreatesCycle(server.edges \ old, e.child, e.parent) THEN server
              ELSE [server EXCEPT !.edges = (@ \ old) \cup new,
                                  !.props = IF new = {} THEN @ ELSE ReversedProps(@, CHOOSE e \in new : TRUE)]
      [] c.kind = "sub" ->
           IF b.entity \in {s.entity : s \in server.subs} \/ SubIds \ DOMAIN server.nodes = {} THEN server
           ELSE LET id == CHOOSE x \in SubIds : x \notin DOMAIN server.nodes \cup SubsOf(server)
                IN SubDeviceEdge([server EXCEPT !.subs = @ \cup {[id |-> id, entity |-> b.entity]},
                                                !.nodes = [n \in DOMAIN @ \cup {id} |-> IF n = id THEN b.place ELSE @[n]]],
                                 id, b.channel)
      [] c.kind = "channel" -> IF b.id \in SubsOf(server) THEN SubDeviceEdge(server, b.id, b.channel) ELSE server
      [] c.kind = "drop" -> Normalized([server EXCEPT !.subs = {s \in @ : s.id # b}])
      [] OTHER -> server

-----------------------------------------------------------------------------
(* The page. *)

Idle(kinds) == \A c \in calls : c.kind \notin kinds
Ask(kind, body) ==
    /\ Cardinality(calls) < MaxCalls /\ count.writes < MaxWrites
    /\ calls' = calls \cup {[kind |-> kind, body |-> body, answer |-> Absent]}
    /\ count' = [count EXCEPT !.writes = @ + 1]

\* placeNewSubDevices: where a node has no place it gets one
Placed(m) ==
    LET new == SubsOf(m) \ DOMAIN m.nodes IN
    [m EXCEPT !.nodes = [n \in DOMAIN @ \cup new |-> IF n \in new THEN Unplaced ELSE @[n]]]
Rendered(m, p) ==
    /\ shown' = Placed(m)
    /\ page' = [p EXCEPT !.unsaved = @ \/ Placed(m) # m]

\* onNodeDragFree
Drag(n, place) ==
    /\ count.edits < MaxEdits /\ n \in DOMAIN shown.nodes /\ shown.nodes[n] # place
    /\ shown' = [shown EXCEPT !.nodes[n] = place]
    /\ page' = [page EXCEPT !.unsaved = TRUE]
    /\ count' = [count EXCEPT !.edits = @ + 1]
    /\ UNCHANGED <<server, saved, calls>>

\* setEdgeType, setEdgeDirection, setEdgeChannel, on the card of a drawn pair
Settle(e, type, direction, channel) ==
    /\ count.edits < MaxEdits
    /\ shown' = SetProp(shown, e, type, direction, channel)
    /\ page' = [page EXCEPT !.unsaved = TRUE]
    /\ count' = [count EXCEPT !.edits = @ + 1]
    /\ UNCHANGED <<server, saved, calls>>
SetEdgeType(e, type) ==
    e.child \notin SubIds /\ Settle(e, type, ResolvedDirection(shown, e), StoredChannel(shown, e))
SetEdgeDirection(e, direction) ==
    e.child \notin SubIds /\ Settle(e, "energy", direction, StoredChannel(shown, e))
SetEdgeChannel(e, channel) ==
    e.parent = Meter /\ ResolvedType(shown, e) = "energy" /\ Settle(e, "energy", ResolvedDirection(shown, e), channel)

\* toggleAutomationLinks, setView: what the server's view says is not kept
ToggleAutomationLinks ==
    /\ count.edits < MaxEdits
    /\ LET hide == ~View(shown)
       IN Rendered(shown, [page EXCEPT !.local = IF hide = shown.view THEN Absent ELSE hide])
    /\ count' = [count EXCEPT !.edits = @ + 1]
    /\ UNCHANGED <<server, saved, calls>>

\* resetViewToDefault
ResetView ==
    /\ page.local # Absent
    /\ Rendered(shown, [page EXCEPT !.local = Absent])
    /\ UNCHANGED <<server, saved, calls, count>>

\* save: the pairs whose settings are kept
LiveKeys(m) == {Key(e) : e \in DrawnPairs(m) \cup SubPairs(m)}

\* save: the whole map, without the settings of pairs that are gone
Save ==
    /\ Idle({"put"})
    /\ Ask("put", [shown EXCEPT !.nodes = [n \in DOMAIN @ \cap (Devices \cup SubsOf(shown)) |-> @[n]],
                                !.props = {p \in @ : Key(p) \in LiveKeys(shown)},
                                !.view = View(shown)])
    /\ UNCHANGED <<server, shown, saved, page>>

\* discardChanges
Discard ==
    /\ page.unsaved /\ Idle({"put"})
    /\ Rendered(saved, [page EXCEPT !.unsaved = FALSE])
    /\ UNCHANGED <<server, saved, calls, count>>

\* onNodeTap in the connect mode; a second relation of a pair is not drawn
Connect(child, parent) ==
    /\ child # parent /\ Ask("connect", [child |-> child, parent |-> parent])
    /\ UNCHANGED <<server, shown, saved, page>>
\* removeSelectedRelation, reverseSelectedRelation
Cut(r) == Ask("cut", r.id) /\ UNCHANGED <<server, shown, saved, page>>
ReverseRelation(r) == Ask("reverse", r.id) /\ UNCHANGED <<server, shown, saved, page>>
\* saveDefaultView
SaveDefaultView == Ask("view", View(shown)) /\ UNCHANGED <<server, shown, saved, page>>
\* saveSubForm, one at a time, and deleteSubDevice
CreateSub(entity, channel) ==
    /\ Idle({"sub", "channel"}) /\ entity \notin {s.entity : s \in shown.subs}
    /\ Ask("sub", [entity |-> entity, channel |-> channel, place |-> Unplaced])
    /\ UNCHANGED <<server, shown, saved, page>>
EditSub(id, channel) ==
    /\ Idle({"sub", "channel"})
    /\ Ask("channel", [id |-> id, channel |-> channel])
    /\ UNCHANGED <<server, shown, saved, page>>
DropSub(id) == Ask("drop", id) /\ UNCHANGED <<server, shown, saved, page>>

\* The page is opened anew: load and renderGraph, with the view the browser
\* kept; nothing can be edited before the answer is there
Reload ==
    /\ count.edits + count.writes > 0 /\ calls = {} /\ count.writes < MaxWrites
    /\ saved' = server
    /\ Rendered(server, [unsaved |-> FALSE, local |-> IF page.local = server.view THEN Absent ELSE page.local])
    /\ count' = [count EXCEPT !.writes = @ + 1]
    /\ UNCHANGED <<server, calls>>

\* The server answers a request, or the request fails
Serve(c) ==
    /\ c.answer = Absent
    /\ server' = Stored(c)
    /\ calls' = (calls \ {c}) \cup
          {[c EXCEPT !.answer = [ok |-> c.kind \in {"put", "view", "merge"} \/ server' # server, map |-> server']]}
    /\ count' = [count EXCEPT !.relations = IF c.kind = "connect" /\ server' # server THEN @ + 1 ELSE @]
    /\ UNCHANGED <<shown, saved, page>>
Fail(c) ==
    /\ c.answer = Absent
    /\ calls' = (calls \ {c}) \cup {[c EXCEPT !.answer = [ok |-> FALSE, map |-> server]]}
    /\ UNCHANGED <<server, shown, saved, page, count>>

\* mergeSubDeviceResponse
Merged(m, answer) ==
    LET nodes == {n \in DOMAIN m.nodes : n \in SubIds => n \in SubsOf(answer)}
        new   == {n \in DOMAIN answer.nodes : n \in SubIds /\ n \notin nodes}
    IN [m EXCEPT !.subs  = answer.subs,
                 !.nodes = [n \in nodes \cup new |-> IF n \in nodes THEN @[n] ELSE answer.nodes[n]],
                 !.props = {p \in @ : p.child \notin SubIds} \cup {p \in answer.props : p.child \in SubIds}]

\* reverseSelectedRelation: the page turns its own setting of the pair
TurnedProps(props, edge) ==
    {IF Key(p) = Key(edge) THEN [p EXCEPT !.parent = p.child, !.child = p.parent, !.direction = Flipped(@)] ELSE p : p \in props}

\* onNodeTap, removeSelectedRelation: the relations are those of the page,
\* with the one the server made or removed
Related(m, edges) == [m EXCEPT !.edges = edges]

\* What the page makes of an answer
Take(c) ==
    LET a     == c.answer.map
        made  == {e \in a.edges : e.id = count.relations}
        turned == {e \in a.edges : e.id = c.body}
        edges == CASE c.kind = "connect" -> shown.edges \cup made
                   [] c.kind = "cut" -> {e \in shown.edges : e.id # c.body}
                   [] c.kind = "reverse" -> {IF e.id = c.body THEN CHOOSE x \in turned : TRUE ELSE e : e \in shown.edges}
                   [] OTHER -> shown.edges
    IN /\ c.answer # Absent
       /\ calls' = calls \ {c}
       /\ CASE ~c.answer.ok -> UNCHANGED <<shown, saved, page>>
            [] c.answer.ok /\ c.kind = "put" ->
                 shown' = c.body /\ saved' = c.body /\ page' = [unsaved |-> FALSE, local |-> Absent]
            [] c.answer.ok /\ c.kind \in {"sub", "channel", "drop", "merge"} ->
                 Rendered(Merged(shown, a), page) /\ saved' = Merged(saved, a)
            [] c.answer.ok /\ c.kind = "view" ->
                 /\ shown' = [shown EXCEPT !.view = a.view] /\ saved' = [saved EXCEPT !.view = a.view]
                 /\ page' = [page EXCEPT !.local = Absent]
            [] c.answer.ok /\ c.kind \in {"connect", "cut"} ->
                 Rendered(Related(shown, edges), page) /\ saved' = Related(saved, edges)
            [] c.answer.ok /\ c.kind = "reverse" ->
                 /\ Rendered([Related(shown, edges) EXCEPT !.props = TurnedProps(@, CHOOSE e \in turned : TRUE)], page)
                 /\ saved' = [Related(saved, edges) EXCEPT !.props = a.props]
       /\ UNCHANGED <<server, count>>

\* The device dialog of this browser changes a sub-device; the page asks again
DialogSub(entity, channel) ==
    /\ count.others < MaxOthers /\ Cardinality(calls) < MaxCalls
    /\ server' = Stored([kind |-> "sub", body |-> [entity |-> entity, channel |-> channel, place |-> Unplaced]])
    /\ server' # server
    /\ calls' = calls \cup {[kind |-> "merge", body |-> Absent, answer |-> Absent]}
    /\ count' = [count EXCEPT !.others = @ + 1]
    /\ UNCHANGED <<shown, saved, page>>
\* Another browser makes a relation
OtherConnect(child, parent) ==
    /\ count.others < MaxOthers /\ child # parent
    /\ server' = Stored([kind |-> "connect", body |-> [child |-> child, parent |-> parent]])
    /\ server' # server
    /\ count' = [count EXCEPT !.others = @ + 1, !.relations = @ + 1]
    /\ UNCHANGED <<shown, saved, page, calls>>

-----------------------------------------------------------------------------

FirstMap == [nodes |-> [d \in Devices |-> CHOOSE p \in Places : TRUE], edges |-> {}, props |-> {}, subs |-> {}, view |-> FALSE]

Init ==
    /\ server = FirstMap /\ shown = FirstMap /\ saved = FirstMap
    /\ page = [unsaved |-> FALSE, local |-> Absent]
    /\ calls = {} /\ count = [edits |-> 0, writes |-> 0, others |-> 0, relations |-> 0]

EditMap ==
    \/ \E n \in Devices \cup SubIds, p \in Places : Drag(n, p)
    \/ \E e \in DrawnPairs(shown) : \/ \E t \in Types : SetEdgeType(e, t)
                                    \/ \E d \in Directions : SetEdgeDirection(e, d)
                                    \/ \E c \in Channels : SetEdgeChannel(e, c)
    \/ ToggleAutomationLinks \/ ResetView \/ Discard
WriteMap ==
    \/ Save \/ SaveDefaultView \/ Reload
    \/ \E a, b \in Devices : Connect(a, b)
    \/ \E r \in shown.edges : Cut(r) \/ ReverseRelation(r)
    \/ \E c \in Channels : \/ \E x \in Entities : CreateSub(x, c)
                           \/ \E id \in SubsOf(shown) : EditSub(id, c)
    \/ \E id \in SubsOf(shown) : DropSub(id)
Answers == \E c \in calls : Serve(c) \/ Fail(c) \/ Take(c)
OtherWrites ==
    \/ \E x \in Entities, c \in Channels : DialogSub(x, c)
    \/ \E a, b \in Devices : OtherConnect(a, b)

Next == EditMap \/ WriteMap \/ Answers \/ OtherWrites

Spec == Init /\ [][Next]_mapVars

-----------------------------------------------------------------------------

\* While nobody else writes, the page agrees with the server as soon as every
\* request is answered: the snapshot a discard goes back to holds the stored
\* places, relations, sub-devices and default view, and so does the map shown,
\* but for places that are announced as unsaved (devicemap.page.js, onNodeTap
\* 2106-2109: "fold the change into the snapshot too").
AgreesWhenQuiet ==
    (calls = {} /\ count.others = 0) =>
        /\ saved.edges = server.edges /\ shown.edges = server.edges
        /\ saved.nodes = server.nodes /\ saved.view = server.view /\ saved.subs = server.subs
        /\ ~page.unsaved => shown.nodes = saved.nodes

\* Whoever saves, and however old the map that is saved: each stored
\* sub-device keeps its pair with the meter, and each pair names a stored
\* sub-device (devicemap_subdevices.go, keepSubDevices; settings.go).
SubDevicesKeepTheirPair ==
    /\ \A id \in SubsOf(server) : \E p \in server.props : p.parent = Meter /\ p.child = id
    /\ \A p \in server.props : p.child \in SubIds => p.child \in SubsOf(server)

=============================================================================
