-------------------------- MODULE DeviceMapWiring --------------------------
(***************************************************************************)
(* What the device map draws of what it is given: the wiring between the   *)
(* nodes (devicemap-graph.js, devicemap-wiring.js, devicemap-subdevices.js) *)
(* with the power that flows along it (devicemap-model.js), the part of it *)
(* that an output switched off leaves without power (devicemap-switch.js), *)
(* and the flow of data (devicemap-dataflow.js).  drawn is the one thing   *)
(* looked at; a scene says what it is drawn from.                          *)
(***************************************************************************)
EXTENDS Integers, Sequences, FiniteSets, SequencesExt, FiniteSetsExt

CONSTANTS Scenes,   \* what the wiring may be drawn from
          Outages,  \* wirings with outputs
          Flows,    \* what the data layer may be drawn from
          Groups, Subs, \* the ids that name a group, a sub-device
          Own,      \* the dashboard's own energy device
          Balance,
          Absent

VARIABLE drawn

drawnVars == <<drawn>>

-----------------------------------------------------------------------------
(* The wiring.  A scene is [nodes, subs, members, manual, found, props,    *)
(* power]: sequences of pairs [parent, child], manual ones with an id, and *)
(* the power of each node that has one.                                    *)

\* relationKey: a pair has no orientation
RelationKey(e) == {e.parent, e.child}

Candidate(e, kind) == [parent |-> e.parent, child |-> e.child, kind |-> kind,
                       overrideId |-> IF kind = "manual" THEN e.id ELSE Absent]
Tagged(pairs, kind) == [i \in DOMAIN pairs |-> Candidate(pairs[i], kind)]

\* SubDevices.pairs: only those of a device that is shown
SubPairs(scene) == SelectSeq(scene.subs, LAMBDA e : e.parent \in scene.nodes)

\* wiringElements: the order decides which of two edges of a pair is drawn
Candidates(scene) ==
    Tagged(SubPairs(scene), "sub") \o Tagged(scene.members, "member")
      \o Tagged(scene.manual, "manual") \o Tagged(scene.found, "found")

Drawable(e, scene) == {e.parent, e.child} \subseteq scene.nodes /\ e.parent # e.child

\* addEdge: one edge for each pair, the first one wins
WiringElements(scene) ==
    LET Drawn(edges) == {RelationKey(e) : e \in ToSet(edges)}
    IN FoldLeft(LAMBDA edges, e : IF RelationKey(e) \in Drawn(edges) THEN edges ELSE Append(edges, e),
                <<>>, SelectSeq(Candidates(scene), LAMBDA e : Drawable(e, scene)))

HasPowerRole(id, power) == id # Own /\ id \in DOMAIN power

\* A saved direction belongs to the orientation it was saved with
Flipped(direction) ==
    CASE direction = "fixed_down" -> "fixed_up" [] direction = "fixed_up" -> "fixed_down" [] OTHER -> direction

\* resolve: what an edge carries, and which way
Resolve(e, scene) ==
    LET saved    == SelectSeq(scene.props, LAMBDA p : RelationKey(p) = RelationKey(e))
        groupEnd == Own \notin RelationKey(e) /\ RelationKey(e) \cap Groups # {}
        measured == HasPowerRole(e.parent, scene.power) /\ HasPowerRole(e.child, scene.power)
    IN CASE e.kind = "member" -> [type |-> "energy", direction |-> "auto"]
         [] e.kind # "member" /\ e.child \in Subs -> [type |-> "energy", direction |-> "fixed_down"]
         [] e.kind # "member" /\ e.child \notin Subs /\ saved # <<>> ->
              [type |-> saved[1].type,
               direction |-> IF saved[1].type # "energy" THEN "auto"
                             ELSE IF saved[1].parent = e.parent THEN saved[1].direction
                             ELSE Flipped(saved[1].direction)]
         [] OTHER -> [type |-> IF groupEnd \/ measured THEN "energy" ELSE "data", direction |-> "auto"]

\* applyDirection: positive is toward the child
Turned(value, direction) ==
    LET size == IF value < 0 THEN -value ELSE value
    IN CASE direction = "reversed" -> -value
         [] direction = "fixed_down" -> size
         [] direction = "fixed_up" -> -size
         [] OTHER -> value

EnergyPairs(scene) ==
    LET drawnEdges == WiringElements(scene)
        With == [i \in DOMAIN drawnEdges |->
                   [parent |-> drawnEdges[i].parent, child |-> drawnEdges[i].child] @@ Resolve(drawnEdges[i], scene)]
    IN SelectSeq(With, LAMBDA p : p.type = "energy")

ChildrenOf(id, pairs) == [i \in DOMAIN SelectSeq(pairs, LAMBDA p : p.parent = id) |->
                            SelectSeq(pairs, LAMBDA p : p.parent = id)[i].child]
DirOf(parent, child, pairs) ==
    LET own == SelectSeq(pairs, LAMBDA p : p.parent = parent /\ p.child = child)
    IN IF own = <<>> THEN "auto" ELSE own[1].direction

\* subPower: a plug and the sub-devices measured behind it are one consumer
SubPower(id, power, pairs) ==
    FoldLeft(LAMBDA sum, s : IF s \in Subs /\ s \in DOMAIN power THEN sum + Turned(power[s], "fixed_down") ELSE sum,
             0, ChildrenOf(id, pairs))

\* The members of a group share what was visited
SeenAfter(seen, result) == result.seen

Worth(value) == IF value = Absent \/ value = 0 THEN Absent ELSE value

\* edgeFlow: the power of a node, or of what lies below a node without one
RECURSIVE EdgeFlow(_, _, _, _, _)
EdgeFlow(id, parent, power, pairs, seen) ==
    LET Turn(v) == IF v = Absent THEN Absent ELSE Turned(v, DirOf(parent, id, pairs))
        now     == seen \cup {id}
        Add(acc, next) ==
            LET below == EdgeFlow(next, id, power, pairs, acc.seen)
            IN [seen |-> SeenAfter(acc.seen, below),
                value |-> IF below.value = Absent THEN acc.value
                          ELSE below.value + IF acc.value = Absent THEN 0 ELSE acc.value]
    IN IF id \in seen THEN [seen |-> seen, value |-> Absent]
       ELSE IF id \in DOMAIN power
            THEN [seen |-> now, value |-> Turn(Worth(power[id] + SubPower(id, power, pairs)))]
            ELSE LET sum == FoldLeft(Add, [seen |-> now, value |-> Absent], ChildrenOf(id, pairs))
                 IN [seen |-> sum.seen, value |-> Turn(Worth(sum.value))]

\* flowElements: the flow along each energy edge; against the edge when negative
FlowElements(scene) ==
    LET pairs == EnergyPairs(scene)
        Flow(p) == EdgeFlow(p.child, p.parent, scene.power, pairs, {}).value
    IN {[parent |-> p.parent, child |-> p.child, value |-> Flow(p)] : p \in {q \in ToSet(pairs) : Flow(q) # Absent}}

-----------------------------------------------------------------------------
(* Outputs that are off.  An outage is [pairs, switches, assigned,         *)
(* metered]: energy edges with the channel they hang on, the switches      *)
(* [device, entity, state] of the devices, the roles saved for them, and   *)
(* the devices that measure power.                                         *)

SwitchesOf(device, o) == SelectSeq(o.switches, LAMBDA s : s.device = device)
Channel(entity, o) == IF o.assigned[entity].channel \in 1 .. 16 THEN o.assigned[entity].channel ELSE 1

\* resolveSwitches: one saved switch of a device ends the guess for all
ResolveSwitches(device, o) ==
    LET own   == SwitchesOf(device, o)
        Saved(s) == s.entity \in DOMAIN o.assigned
        Out(s, channel) == [device |-> device, entity |-> s.entity, state |-> s.state, channel |-> channel]
        chosen == SelectSeq(own, LAMBDA s : Saved(s) /\ o.assigned[s.entity].role = "switch")
    IN IF \E i \in DOMAIN own : Saved(own[i])
       THEN [i \in DOMAIN chosen |-> Out(chosen[i], Channel(chosen[i].entity, o))]
       ELSE IF Len(own) = 1 /\ device \in o.metered THEN <<Out(own[1], 1)>> ELSE <<>>

\* status: the output an edge hangs on
OutputOf(pair, o) ==
    LET fitting == SelectSeq(ResolveSwitches(pair.parent, o), LAMBDA s : s.channel = pair.channel)
    IN IF fitting = <<>> THEN Absent ELSE fitting[1]
CutPairs(o) == {p \in ToSet(o.pairs) : OutputOf(p, o) # Absent /\ OutputOf(p, o).state = "off"}

NodesOf(pairs) == UNION {RelationKey(p) : p \in pairs}
Roots(pairs) == NodesOf(pairs) \ {p.child : p \in pairs}

\* The nodes within n steps of some, along pairs
RECURSIVE Within(_, _, _)
Within(start, pairs, n) ==
    IF n = 0 THEN start ELSE Within(start \cup {p.child : p \in {q \in pairs : q.parent \in start}}, pairs, n - 1)
Reached(start, pairs) == Within(start, pairs, Cardinality(pairs))

\* Mutant: power passes an output that is off.
MutPowered(o) == Reached(Roots(ToSet(o.pairs)), ToSet(o.pairs))

\* deadArea: what is reached from the roots without passing a cut edge
Powered(o) == Reached(Roots(ToSet(o.pairs)), ToSet(o.pairs) \ CutPairs(o))

\* How many edges lie between a cut edge and a node below it
Hops(cut, node, pairs) == 1 + Min({n \in 0 .. Cardinality(pairs) : node \in Within({cut.child}, pairs, n)})

CutParents(o) == {p.parent : p \in CutPairs(o)}

\* Of two plugs the nearer one counts
Nearest(better, best) == better < best

\* deadArea: the nodes without power, each with its plug
DeadArea(o) ==
    LET pairs == ToSet(o.pairs)
        cuts  == CutPairs(o)
        safe  == CutParents(o) \cup Powered(o)
        Mark(dead, cut) ==
            LET lost == Reached({cut.child}, pairs) \ safe
                hops == [n \in lost |-> Hops(cut, n, pairs)]
                won  == {n \in lost : n \in DOMAIN dead => Nearest(hops[n], dead[n].hops)}
            IN [n \in won |-> [plug |-> cut.parent, hops |-> hops[n]]] @@ dead
    IN FoldLeft(Mark, [n \in {} |-> Absent], SelectSeq(o.pairs, LAMBDA p : p \in cuts))

\* switchConsequence: the nodes the panel of a plug counts as taken away
TakenAway(plug, dead) == {n \in DOMAIN dead : dead[n].plug = plug}

\* deadBelowEdge: the nodes the card of a cut edge counts
DeadBelowEdge(cut, o, dead) ==
    Reached({cut.child}, ToSet(o.pairs) \ CutPairs(o)) \cap TakenAway(cut.parent, dead)

-----------------------------------------------------------------------------
(* The flow of data.  f is [nodes, edges, unresolved, roles, wiring,       *)
(* layers]; an edge is [id, cat, from, to], something unresolved is [id,   *)
(* target, direction], its id naming the stub; a role is [entity, device]. *)

BalanceNode(f) == IF Own \in f.nodes THEN Own ELSE Balance
AtBalance(id, f) == IF id = Balance THEN BalanceNode(f) ELSE id

FlowEdges(f) ==
    {[id |-> e.id, cat |-> e.cat, from |-> AtBalance(e.from, f), to |-> AtBalance(e.to, f)] :
        e \in {x \in f.edges : {AtBalance(x.from, f), AtBalance(x.to, f)} \subseteq f.nodes}}

\* stubs: an end of a flow that nothing on the map answers to
StubEdges(f) ==
    {[id |-> u.id, cat |-> "stub",
      from |-> IF u.direction = "output" THEN u.target ELSE u.id,
      to   |-> IF u.direction = "output" THEN u.id ELSE u.target] : u \in {x \in f.unresolved : x.target \in f.nodes}}

\* roleEdges: every node with a role feeds the balance
RoleEdges(f) ==
    {[id |-> d, cat |-> "role", from |-> d, to |-> BalanceNode(f)] :
        d \in {r.device : r \in f.roles} \ {Own}}

\* edgeVisible
EdgeVisible(e, layers) == IF e.cat = "role" THEN layers.balance ELSE layers.data

DataEdges(f) == FlowEdges(f) \cup StubEdges(f) \cup RoleEdges(f)
VisibleEdges(f) == {e \in DataEdges(f) : EdgeVisible(e, f.layers)}

\* relatedFocus: the way on, and the way back
Onward(edges, forward) ==
    {IF forward THEN [parent |-> e.from, child |-> e.to] ELSE [parent |-> e.to, child |-> e.from] : e \in edges}
Ahead(id, edges, forward) ==
    LET on == Reached({id}, Onward(edges, forward)) IN
    {e \in edges : (IF forward THEN e.from ELSE e.to) \in on}

\* relatedFocus: what stays bright when a node is chosen
FocusEdges(id, f) ==
    LET edges == VisibleEdges(f) IN Ahead(id, edges, TRUE) \cup Ahead(id, edges, FALSE)
FocusNodes(id, f) ==
    {id} \cup UNION {{e.from, e.to} : e \in FocusEdges(id, f)}
         \cup (IF f.layers.wiring \/ f.layers.energy
               THEN UNION {RelationKey(p) : p \in {q \in f.wiring : id \in RelationKey(q)}} ELSE {})

-----------------------------------------------------------------------------

Nothing == [kind |-> "nothing"]
Init == drawn = Nothing

\* buildEdgeElements
DrawWiring == drawn = Nothing /\ drawn' \in {[kind |-> "wiring", of |-> s] : s \in Scenes}
\* refreshSwitches
DrawOutage == drawn = Nothing /\ drawn' \in {[kind |-> "outage", of |-> o] : o \in Outages}
\* buildDataEdges
DrawFlows == drawn = Nothing /\ drawn' \in {[kind |-> "flows", of |-> f] : f \in Flows}
Leave == drawn # Nothing /\ drawn' = Nothing

Next == DrawWiring \/ DrawOutage \/ DrawFlows \/ Leave

Spec == Init /\ [][Next]_drawnVars

-----------------------------------------------------------------------------

\* A relation made by hand can be removed by hand: whenever it is drawn and
\* no sub-device and no group claims its pair, its edge carries its id, even
\* where a device announces the same pair (devicemap-graph.js, wiringElements;
\* only an edge with an override id offers to be removed).
ManualStaysRemovable ==
    drawn.kind = "wiring" =>
        LET s == drawn.of
            edges == ToSet(WiringElements(s))
            Claimed(k) == \E p \in ToSet(s.members) \cup ToSet(SubPairs(s)) :
                              RelationKey(p) = k /\ {p.parent, p.child} \subseteq s.nodes
        IN \A m \in ToSet(s.manual) :
              (Drawable(m, s) /\ ~Claimed(RelationKey(m))) =>
                  \E e \in edges : e.overrideId # Absent /\ RelationKey(e) = RelationKey(m)

\* The flow into a group is the power of every meter below it, each meter
\* once: however many ways lead to it, and a sub-device only with its plug
\* (devicemap-model.js, edgeFlow and subPower; edges without a fixed direction).
GroupsCountOnce ==
    drawn.kind = "wiring" =>
        LET s == drawn.of
            pairs == EnergyPairs(s)
            free == \A p \in ToSet(pairs) : p.direction = "auto" \/ p.child \in Subs
            passing == {p \in ToSet(pairs) : p.parent \notin DOMAIN s.power}
            Meters(g) == {n \in Reached({g}, passing) : n \in DOMAIN s.power}
            Behind(m) == {p.child : p \in {q \in ToSet(pairs) : q.parent = m /\ q.child \in Subs}} \cap DOMAIN s.power
            Total(g) == FoldSet(LAMBDA m, sum : sum + s.power[m]
                            + FoldSet(LAMBDA b, t : t + Turned(s.power[b], "fixed_down"), 0, Behind(m)), 0, Meters(g))
        IN free => \A f \in {e \in ToSet(pairs) : e.child \in Groups} :
                      LET shown == {e \in FlowElements(s) : e.parent = f.parent /\ e.child = f.child}
                      IN IF shown = {} THEN Total(f.child) = 0
                         ELSE \E e \in shown : e.value = Total(f.child)

\* y is reached from x: it is in every set with x that no arrow leaves
Leads(x, y, arrows, nodes) ==
    \A S \in SUBSET nodes : (x \in S /\ \A a \in arrows : a.parent \in S => a.child \in S) => y \in S

\* What is drawn without power has none: no way from a root leads to it over
\* outputs that are on; and whatever lies below an output that is off and has
\* no such way is drawn so, unless it is an output that is off itself
\* (devicemap-switch.js, deadArea).
DeadHasNoSource ==
    drawn.kind = "outage" =>
        LET o == drawn.of
            pairs == ToSet(o.pairs)
            cuts  == CutPairs(o)
            dead  == DeadArea(o)
            Lit(n) == \E r \in Roots(pairs) : Leads(r, n, pairs \ cuts, NodesOf(pairs))
        IN \A n \in NodesOf(pairs) :
              n \in DOMAIN dead <=>
                 /\ ~Lit(n)
                 /\ \A c \in cuts : c.parent # n
                 /\ \E c \in cuts : Leads(c.child, n, pairs, NodesOf(pairs))

\* The panel of a plug and the cards of its edges tell of the same nodes
\* without power (devicemap.page.js, switchConsequence and deadBelowEdge).
ConsequencesAgree ==
    drawn.kind = "outage" =>
        LET o    == drawn.of
            dead == DeadArea(o)
            cuts == CutPairs(o)
        IN \A plug \in {c.parent : c \in cuts} :
              TakenAway(plug, dead) = UNION {DeadBelowEdge(c, o, dead) : c \in {d \in cuts : d.parent = plug}}

\* The way of the data that is lit up for a node is a way: every edge of it
\* lies on a path that ends at the node or starts there, and no edge of such a
\* path is left dark; and the node it leads to lights up the one it came from
\* (devicemap-dataflow.js, relatedFocus).
FocusIsAWay ==
    drawn.kind = "flows" =>
        LET f == drawn.of
            edges == VisibleEdges(f)
            ends == UNION {{e.from, e.to} : e \in edges} \cup f.nodes
            arrows == {[parent |-> e.from, child |-> e.to] : e \in edges}
            OnWay(e, id) == Leads(id, e.from, arrows, ends) \/ Leads(e.to, id, arrows, ends)
        IN /\ \A id \in f.nodes : FocusEdges(id, f) = {e \in edges : OnWay(e, id)}
           /\ \A a, b \in f.nodes : b \in FocusNodes(a, f) => a \in FocusNodes(b, f)
=============================================================================
