---------------------------- MODULE EnergyRoles ----------------------------
(***************************************************************************)
(* Who measures what: the roles of the entities and the groups of devices, *)
(* stored in energy.json (httpapi.go, handleEnergyRoles; settings.go) and  *)
(* edited in two places of one browser.  The panel of the device map       *)
(* (devicemap.page.js, devicemap-model.js) collects drafts, shows the map  *)
(* as it would look with them, and patches what changed.  The energy page  *)
(* (energy.page.js) edits all rows at once and replaces the stored roles.  *)
(* Each reads again when the other has saved.                              *)
(***************************************************************************)
EXTENDS Integers, FiniteSets, Functions

CONSTANTS Entities, Devices,
          DeviceOf,   \* entity -> device
          Unit,       \* entity -> "W", "kW", "%" or "switch"
          Heuristic,  \* entity -> the role its name suggests, or ""
          Readings,   \* entity -> the values it may report
          Roles,      \* what can be chosen, by unit
          Categories, \* the roles among them that are categories of the user's
          Groups,     \* ids of groups
          MaxEdits, MaxWrites, MaxOthers, \* bounds
          FirstRoles, \* the roles stored at first
          FirstGroups, \* and the groups
          Absent

VARIABLES server,  \* [roles, groups, cats, hidden] of energy.json
          listed,  \* the entities the registry knows, with the value of each
          map,     \* the panel: its copy [saved, energy], drafts, groupDraft, panel, sent
          page,    \* the energy page: rows, baseline, orphans, groups, cats, hidden, loading, sent
          count    \* [edits, writes, others]

roleVars == <<server, listed, map, page, count>>

-----------------------------------------------------------------------------
(* Assignments. *)

Blank == [role |-> "", scale |-> 1, invert |-> FALSE, capacity |-> 0, channel |-> 0]
Plain(role) == [Blank EXCEPT !.role = role, !.channel = IF role = "switch" THEN 1 ELSE 0]

\* assignmentPayload: what a role does not use is not sent
AssignmentPayload(a) ==
    CASE a.role = "" -> Blank
      [] a.role = "battery_soc" -> [Blank EXCEPT !.role = a.role, !.capacity = a.capacity]
      [] a.role = "switch" -> [Blank EXCEPT !.role = a.role, !.channel = a.channel]
      [] OTHER -> [Blank EXCEPT !.role = a.role, !.scale = a.scale, !.invert = a.invert]

RoleOptions(e, cats) == Roles[Unit[e]] \ (Categories \ cats)

Merge(f, g) == [x \in DOMAIN f \cup DOMAIN g |-> IF x \in DOMAIN g THEN g[x] ELSE f[x]]
Without(f, S) == [x \in DOMAIN f \ S |-> f[x]]

-----------------------------------------------------------------------------
(* The server. *)

\* powerValue and percentValue
Watts(e, value) == IF Unit[e] = "kW" THEN value * 1000 ELSE value

\* Resolve: a stored entry wins, also one without a role
Resolve(roles, e) == IF e \in DOMAIN roles THEN roles[e] ELSE Plain(Heuristic[e])

\* Aggregate: the entities with a role and a value
Aggregate(roles, values) ==
    {LET a == Resolve(roles, e) v == Watts(e, values[e])
     IN [id |-> e, device |-> DeviceOf[e], role |-> a, source |-> IF e \in DOMAIN roles THEN "override" ELSE "heuristic",
         value |-> IF a.role = "battery_soc" THEN v ELSE (IF a.invert THEN -v ELSE v) * a.scale] :
       e \in {x \in DOMAIN values : Resolve(roles, x).role \notin {"", "switch"} /\ values[x] # Absent}}

Parents(groups, g) == {p \in DOMAIN groups : g \in groups[p].groups}
\* validateEnergyModel: roles are known, each member is in one group, and
\* the groups form no circle
Fits(v) ==
    /\ \A e \in DOMAIN v.roles : v.roles[e].role \in Categories => v.roles[e].role \in v.cats
    /\ \A g \in DOMAIN v.groups : v.groups[g].role = "" \/ v.groups[g].role \in v.cats
    /\ \A g \in DOMAIN v.groups : v.groups[g].groups \subseteq DOMAIN v.groups
    /\ \A d \in Devices : Cardinality({g \in DOMAIN v.groups : d \in v.groups[g].devices}) <= 1
    /\ \A g \in DOMAIN v.groups : Cardinality(Parents(v.groups, g)) <= 1
    /\ \A S \in (SUBSET DOMAIN v.groups) \ {{}} : \E g \in S : Parents(v.groups, g) \cap S = {}

\* normalizeEnergy: an entry with a role is not hidden
Normalized(v) == [v EXCEPT !.hidden = {e \in @ : e \notin DOMAIN v.roles \/ v.roles[e].role = ""}]

\* handleEnergyRoles, PATCH: groups that are dropped leave their parents too
Patched(b) ==
    LET kept == {g \in DOMAIN server.groups \cup DOMAIN b.groups : g \notin b.dropped}
        groups == Merge(server.groups, b.groups)
    IN Normalized([roles  |-> Merge(server.roles, b.roles),
                   groups |-> [g \in kept |-> [groups[g] EXCEPT !.groups = @ \ b.dropped]],
                   cats   |-> server.cats \cup b.cats,
                   hidden |-> server.hidden])
\* PUT: roles, groups and categories are replaced, the hidden set stays
Replaced(b) == Normalized([roles |-> b.roles, groups |-> b.groups, cats |-> b.cats, hidden |-> server.hidden])

NoPatch == [roles |-> <<>>, groups |-> <<>>, dropped |-> {}, cats |-> {},
            ends |-> "nothing"] \* what the panel puts away once it is stored

-----------------------------------------------------------------------------
(* The panel of the device map. *)

\* baseAssignment, switchBase
Base(m, e) ==
    IF e \in DOMAIN m.saved.roles THEN [source |-> "override", of |-> m.saved.roles[e]]
    ELSE IF Heuristic[e] # "" /\ (Unit[e] = "switch" \/ \E x \in m.energy : x.id = e /\ x.source = "heuristic")
         THEN [source |-> "heuristic", of |-> Plain(Heuristic[e])]
         ELSE [source |-> "none", of |-> Blank]

\* applyDrafts: what was read, with the scale and the sign of the stored role undone
Raw(live) ==
    IF live.role.role = "battery_soc" THEN live.value
    ELSE (IF live.role.invert THEN -live.value ELSE live.value) \div live.role.scale

\* applyDrafts: the snapshot as it would look with the drafts saved; an
\* entity without a value counts as zero
ApplyDrafts(energy, drafts, values) ==
    {x \in energy : x.id \notin DOMAIN drafts} \cup
    {LET live == {x \in energy : x.id = e}
         d    == drafts[e].of
         raw  == IF live # {} THEN Raw(CHOOSE x \in live : TRUE)
                 ELSE IF values[e] = Absent THEN 0 ELSE Watts(e, values[e])
     IN [id |-> e, device |-> DeviceOf[e], role |-> d, source |-> "override",
         value |-> IF d.role = "battery_soc" THEN raw ELSE (IF d.invert THEN -raw ELSE raw) * d.scale] :
       e \in {x \in DOMAIN drafts : drafts[x].of.role \notin {"", "switch"} /\ x \in DOMAIN values}}

\* panelRows: what is hidden has no row until it has a role
Rows(m) == {e \in DOMAIN listed : e \notin m.saved.hidden \/ (IF e \in DOMAIN m.drafts THEN m.drafts[e].of ELSE Base(m, e).of).role # ""}

\* panelDirty
PanelDirty == map.drafts # <<>> \/ map.groupDraft # Absent

Edit(m) == count.edits < MaxEdits /\ map' = m /\ count' = [count EXCEPT !.edits = @ + 1] /\ UNCHANGED <<server, listed, page>>
SendPatch(b) ==
    /\ map.sent = Absent /\ count.writes < MaxWrites
    /\ map' = [map EXCEPT !.sent = b] /\ count' = [count EXCEPT !.writes = @ + 1]
    /\ UNCHANGED <<server, listed, page>>

\* setDraft: a draft that changes nothing is none
SetDraft(e, a) ==
    /\ e \in Rows(map) /\ map.panel = DeviceOf[e] /\ a.role \in RoleOptions(e, map.saved.cats)
    /\ Edit([map EXCEPT !.drafts = IF a = Base(map, e).of THEN Without(@, {e}) ELSE Merge(@, [x \in {e} |-> [of |-> a]])])
\* pinAssignment: a detected role becomes a stored one
Pin(e) ==
    /\ e \in Rows(map) \ DOMAIN map.drafts /\ map.panel = DeviceOf[e] /\ Base(map, e).source = "heuristic"
    /\ Edit([map EXCEPT !.drafts = Merge(@, [x \in {e} |-> [of |-> Base(map, e).of]])])
\* leavePanel, confirmed where there are drafts, and openPanel
OpenPanel(id) ==
    /\ map.panel # id
    /\ map' = [IF PanelDirty THEN [map EXCEPT !.drafts = <<>>, !.groupDraft = Absent] ELSE map EXCEPT !.panel = id]
    /\ UNCHANGED <<server, listed, page, count>>
\* savePanel
SavePanel ==
    /\ map.drafts # <<>> /\ map.panel \notin Groups
    /\ SendPatch([NoPatch EXCEPT !.ends = "drafts", !.roles = [e \in DOMAIN map.drafts |-> AssignmentPayload(map.drafts[e].of)]])

\* membershipPatch: what joins a group leaves the one it was in
MembershipPatch(groups, devices, subs, g) ==
    [x \in {g} \cup {o \in DOMAIN groups : groups[o].devices \cap devices # {} \/ groups[o].groups \cap subs # {}} |->
        IF x = g THEN [groups[g] EXCEPT !.devices = @ \cup devices, !.groups = @ \cup subs]
        ELSE [groups[x] EXCEPT !.devices = @ \ devices, !.groups = @ \ subs]]

\* addGroupMembers and joinGroup
Join(devices, subs, g) ==
    /\ g \in DOMAIN map.saved.groups /\ subs \subseteq DOMAIN map.saved.groups \ {g}
    /\ SendPatch([NoPatch EXCEPT !.groups = MembershipPatch(map.saved.groups, devices, subs, g)])
\* createGroup
CreateGroup(g) ==
    /\ g \notin DOMAIN map.saved.groups
    /\ SendPatch([NoPatch EXCEPT !.groups = [x \in {g} |-> [role |-> "", devices |-> {}, groups |-> {}]]])
\* setGroupDraft, setGroupWhole
SetGroupDraft(role) ==
    /\ map.panel \in DOMAIN map.saved.groups
    /\ Edit([map EXCEPT !.groupDraft = IF role = map.saved.groups[map.panel].role THEN Absent ELSE [role |-> role]])
\* saveGroupPanel
SaveGroupPanel ==
    /\ map.groupDraft # Absent /\ map.panel \in DOMAIN map.saved.groups
    /\ SendPatch([NoPatch EXCEPT !.ends = "groupDraft", !.groups = [x \in {map.panel} |-> [map.saved.groups[x] EXCEPT !.role = map.groupDraft.role]]])
\* removeGroupMember
LeaveGroup(g, devices, subs) ==
    /\ g \in DOMAIN map.saved.groups
    /\ SendPatch([NoPatch EXCEPT !.groups = [x \in {g} |-> [map.saved.groups[g] EXCEPT !.devices = @ \ devices, !.groups = @ \ subs]]])
\* deleteGroup
DeleteGroup == map.panel \in DOMAIN map.saved.groups /\ SendPatch([NoPatch EXCEPT !.ends = "panel", !.dropped = {map.panel}])
\* createCategory: made for an open group it becomes the draft of its role
CreateCategory(c) == c \notin map.saved.cats /\ SendPatch([NoPatch EXCEPT !.cats = {c}])

\* patchEnergy: the answer is what is stored now; the drafts go, those made
\* meanwhile too; the energy page reads again
PatchAnswered ==
    /\ map.sent # Absent
    /\ LET b == map.sent  next == Patched(b) IN
       IF Fits(next)
       THEN /\ server' = next /\ page' = [page EXCEPT !.loading = TRUE]
            /\ map' = [map EXCEPT !.sent = Absent, !.saved = next, !.energy = Aggregate(next.roles, listed),
                                  !.drafts = IF b.ends = "drafts" THEN <<>> ELSE @,
                                  !.groupDraft = IF b.ends \in {"groupDraft", "panel"} THEN Absent
                                                 ELSE IF b.cats # {} /\ map.panel \in Groups THEN [role |-> CHOOSE c \in b.cats : TRUE] ELSE @,
                                  !.panel = IF b.ends = "panel" THEN Absent ELSE @]
       ELSE map' = [map EXCEPT !.sent = Absent] /\ UNCHANGED <<server, page>>
    /\ UNCHANGED <<listed, count>>
PatchFails == map.sent # Absent /\ map' = [map EXCEPT !.sent = Absent] /\ UNCHANGED <<server, listed, page, count>>

\* reloadEnergyState
Reread(m, stored) ==
    [m EXCEPT !.saved = stored, !.energy = Aggregate(stored.roles, listed),
              !.panel = IF @ \in Groups \ DOMAIN stored.groups THEN Absent ELSE @]
\* refreshEnergy, after an update of the registry
RefreshEnergy ==
    /\ map.energy # Aggregate(server.roles, listed)
    /\ map' = [map EXCEPT !.energy = Aggregate(server.roles, listed)]
    /\ UNCHANGED <<server, listed, page, count>>

-----------------------------------------------------------------------------
(* The energy page. *)

SwitchRows(p) == {e \in DOMAIN p.rows : Unit[e] = "switch"}

\* load and switchRowsFrom
Loaded ==
    LET stored(e) == e \in DOMAIN server.roles
        rows == [e \in DOMAIN listed |-> Resolve(server.roles, e)]
    IN [rows |-> rows, loading |-> FALSE, sent |-> Absent,
        baseline |-> [e \in {x \in DOMAIN listed : Unit[x] = "switch"} |-> [of |-> rows[e], saved |-> stored(e)]],
        orphans |-> {e \in DOMAIN server.roles \ DOMAIN listed : server.roles[e].role = "switch"},
        kept |-> server.roles, groups |-> server.groups, cats |-> server.cats,
        hidden |-> {e \in server.hidden : e \notin DOMAIN listed \/ rows[e].role = ""}]
\* load answers; reconcileHidden tells the server which rows are shown again
PageLoads ==
    /\ page.loading /\ page.sent = Absent
    /\ page' = Loaded
    /\ server' = [server EXCEPT !.hidden = page'.hidden]
    /\ UNCHANGED <<listed, map, count>>
\* The device map has been saved: the page reads again, its edits are gone
Reopen ==
    /\ ~page.loading
    /\ page' = [page EXCEPT !.loading = TRUE]
    /\ UNCHANGED <<server, listed, map, count>>

EditPage(p) == count.edits < MaxEdits /\ page' = p /\ count' = [count EXCEPT !.edits = @ + 1] /\ UNCHANGED <<server, listed, map>>
ChooseRole(e, a) ==
    /\ e \in DOMAIN page.rows /\ a.role \in RoleOptions(e, page.cats) /\ page.rows[e] # a
    /\ EditPage([page EXCEPT !.rows[e] = a])
\* addCategoryForGroup and setGroupRole, removeCategory
AddCategoryForGroup(c, g) ==
    /\ c \notin page.cats /\ g \in DOMAIN page.groups
    /\ EditPage([page EXCEPT !.cats = @ \cup {c}, !.groups[g].role = c])
RemoveCategory(c) == c \in page.cats /\ EditPage([page EXCEPT !.cats = @ \ {c}])
\* addGroup, removeGroup, and addGroupMembers of the page
AddGroup(g) ==
    /\ g \notin DOMAIN page.groups
    /\ EditPage([page EXCEPT !.groups = Merge(@, [x \in {g} |-> [role |-> "", devices |-> {}, groups |-> {}]])])
RemoveGroup(g) ==
    /\ g \in DOMAIN page.groups
    /\ EditPage([page EXCEPT !.groups = [x \in DOMAIN @ \ {g} |-> [@[x] EXCEPT !.groups = @ \ {g}]]])
PickMembers(devices, g) ==
    /\ g \in DOMAIN page.groups
    /\ EditPage([page EXCEPT !.groups = Merge(@, MembershipPatch(@, devices, {}, g))])
\* toggleHidden: a row without a role, saved at once
ToggleHidden(e) ==
    /\ e \in DOMAIN page.rows /\ page.rows[e].role = "" /\ count.writes < MaxWrites
    /\ page' = [page EXCEPT !.hidden = IF e \in @ THEN @ \ {e} ELSE @ \cup {e}]
    /\ server' = Normalized([server EXCEPT !.hidden = IF e \in page'.hidden THEN @ \cup {e} ELSE @ \ {e}])
    /\ map' = Reread(map, server')
    /\ count' = [count EXCEPT !.writes = @ + 1]
    /\ UNCHANGED listed

\* switchChanged: a switch that was only detected stays out of the file
SwitchChanged(p, e) ==
    \/ p.baseline[e].saved
    \/ p.rows[e].role # p.baseline[e].of.role
    \/ p.rows[e].role = "switch" /\ p.rows[e].channel # p.baseline[e].of.channel

\* payload: the switches without a row are written back
WrittenBack(p) == p.orphans

Payload(p) ==
    [roles |-> [e \in WrittenBack(p) \cup {x \in DOMAIN p.rows : x \in SwitchRows(p) => SwitchChanged(p, x)} |->
                  IF e \in DOMAIN p.rows THEN AssignmentPayload(p.rows[e]) ELSE p.kept[e]],
     groups |-> p.groups, cats |-> p.cats]
\* save
SavePage ==
    /\ ~page.loading /\ page.sent = Absent /\ count.writes < MaxWrites
    /\ page' = [page EXCEPT !.sent = Payload(page)]
    /\ count' = [count EXCEPT !.writes = @ + 1]
    /\ UNCHANGED <<server, listed, map>>
\* markSwitchesSaved; the map reads again
PutAnswered ==
    /\ page.sent # Absent
    /\ LET next == Replaced(page.sent) IN
       IF Fits(next)
       THEN /\ server' = next /\ map' = Reread(map, next)
            /\ page' = [page EXCEPT !.sent = Absent,
                          !.baseline = [e \in DOMAIN @ |-> IF e \in DOMAIN page.sent.roles THEN [of |-> page.rows[e], saved |-> TRUE] ELSE @[e]]]
       ELSE page' = [page EXCEPT !.sent = Absent] /\ UNCHANGED <<server, map>>
    /\ UNCHANGED <<listed, count>>
PutFails == page.sent # Absent /\ page' = [page EXCEPT !.sent = Absent] /\ UNCHANGED <<server, listed, map, count>>

-----------------------------------------------------------------------------

\* A device goes from the registry, or reports another value
Gone(e) ==
    /\ count.others < MaxOthers /\ e \in DOMAIN listed
    /\ listed' = Without(listed, {e}) /\ count' = [count EXCEPT !.others = @ + 1]
    /\ UNCHANGED <<server, map, page>>
Report(e, v) ==
    /\ count.others < MaxOthers /\ (e \in DOMAIN listed => listed[e] # v)
    /\ listed' = Merge(listed, [x \in {e} |-> v]) /\ count' = [count EXCEPT !.others = @ + 1]
    /\ UNCHANGED <<server, map, page>>

-----------------------------------------------------------------------------

Init ==
    /\ server = [roles |-> FirstRoles, groups |-> FirstGroups, cats |-> {}, hidden |-> {}]
    /\ listed = [e \in Entities |-> CHOOSE v \in Readings[e] : v # Absent]
    /\ map = [saved |-> server, energy |-> Aggregate(FirstRoles, listed), drafts |-> <<>>, groupDraft |-> Absent,
              panel |-> Absent, sent |-> Absent]
    /\ page = Loaded
    /\ count = [edits |-> 0, writes |-> 0, others |-> 0]

\* What a row can be set to: another role, and the field next to it
Choices(a) ==
    {[a EXCEPT !.role = r, !.channel = IF r = "switch" THEN 1 ELSE 0] : r \in UNION {Roles[u] : u \in DOMAIN Roles}} \cup
    CASE a.role = "" -> {} [] a.role = "battery_soc" -> {[a EXCEPT !.capacity = 5]} [] a.role = "switch" -> {[a EXCEPT !.channel = 2]}
      [] OTHER -> {[a EXCEPT !.scale = 2], [a EXCEPT !.invert = ~@]}

Panel ==
    \/ \E e \in Entities : Pin(e) \/ \E a \in Choices(IF e \in DOMAIN map.drafts THEN map.drafts[e].of ELSE Base(map, e).of) : SetDraft(e, a)
    \/ \E id \in Devices \cup DOMAIN map.saved.groups : OpenPanel(id)
    \/ \E role \in {""} \cup map.saved.cats : SetGroupDraft(role)
    \/ SavePanel \/ SaveGroupPanel \/ DeleteGroup \/ PatchAnswered \/ PatchFails \/ RefreshEnergy
Members ==
    \/ \E g \in Groups : \/ CreateGroup(g)
                        \/ \E d \in Devices : Join({d}, {}, g) \/ LeaveGroup(g, {d}, {})
                        \/ \E h \in Groups : Join({}, {h}, g) \/ LeaveGroup(g, {}, {h})
    \/ \E c \in Categories : CreateCategory(c)
Page ==
    \/ PageLoads \/ Reopen \/ SavePage \/ PutAnswered \/ PutFails
    \/ \E e \in DOMAIN page.rows : ToggleHidden(e) \/ \E a \in Choices(page.rows[e]) : ChooseRole(e, a)
    \/ \E g \in Groups : AddGroup(g) \/ RemoveGroup(g) \/ \E d \in Devices : PickMembers({d}, g)
    \/ \E c \in Categories : RemoveCategory(c) \/ \E g \in Groups : AddCategoryForGroup(c, g)
Registry == \E e \in Entities : Gone(e) \/ \E v \in Readings[e] : Report(e, v)

Next == Panel \/ Members \/ Page \/ Registry

Spec == Init /\ [][Next]_roleVars

-----------------------------------------------------------------------------

Seen(snapshot) == {[id |-> x.id, device |-> x.device, role |-> x.role.role, value |-> x.value] : x \in snapshot}

\* The map drawn with unsaved drafts is the map after saving them: the same
\* devices with the same roles and the same power (devicemap-model.js:216-218),
\* wherever each drafted entity reports a value.
PreviewIsTheSave ==
    (/\ map.saved = server /\ map.energy = Aggregate(server.roles, listed)
     /\ \A e \in DOMAIN map.drafts \cap DOMAIN listed : listed[e] # Absent) =>
        Seen(ApplyDrafts(map.energy, map.drafts, listed)) =
            Seen(Aggregate(Merge(server.roles, [e \in DOMAIN map.drafts |-> AssignmentPayload(map.drafts[e].of)]), listed))

\* Adding members to a group moves them: whatever is picked, it is afterwards
\* in that group and in no other, and nothing else moves (devicemap.page.js
\* 2137-2138, "taking each one out of the group it was in before").
JoinsMove ==
    \A g \in DOMAIN map.saved.groups, D \in SUBSET Devices, S \in SUBSET (DOMAIN map.saved.groups) :
        g \notin S =>
        LET old == map.saved.groups
            new == Merge(old, MembershipPatch(old, D, S, g))
        IN \A o \in DOMAIN old :
              /\ new[o].devices = IF o = g THEN old[o].devices \cup D ELSE old[o].devices \ D
              /\ new[o].groups = IF o = g THEN old[o].groups \cup S ELSE old[o].groups \ S

\* Saving the energy page loses no switch whose device is away: a stored
\* switch the page has read but has no row for stays as it is
\* (energy.page.js:84-86).
UnseenSwitchesStay ==
    \A e \in DOMAIN server.roles :
          (page.sent # Absent /\ page'.sent = Absent /\ server.roles[e].role = "switch" /\ e \notin DOMAIN page.rows
             /\ e \in DOMAIN page.kept /\ page.kept[e] = server.roles[e]) =>
            e \in DOMAIN server'.roles /\ server'.roles[e] = server.roles[e]

\* Saving the energy page does not freeze what was only detected: no switch
\* is stored for the first time just as the detection has it (energy.page.js,
\* payload: "an untouched detected switch stays out, so the detection keeps
\* working for it").
DetectionKeepsWorking ==
    \A e \in DOMAIN server'.roles \ DOMAIN server.roles :
          (page.sent # Absent /\ page'.sent = Absent /\ Unit[e] = "switch" /\ Heuristic[e] # "") =>
            server'.roles[e] # Plain(Heuristic[e])
=============================================================================
