------------------------------ MODULE LiveCells ------------------------------
(***************************************************************************)
(* The values of the cards, kept up to date in place (entity-values.js,    *)
(* overview-values.js, device-tile-values.js, compact-card-values.js): the *)
(* first push of a stream carries every entity, the later ones only those  *)
(* whose value changed.  A full push goes through the cells, a delta       *)
(* through the entities, and finds for each the first cell of a kind.      *)
(*                                                                         *)
(* A cell is [entity, kind, unit, timestamp]; the page lists the cells in  *)
(* the order they stand in.  A tile's cell has a button, or a slider when  *)
(* its kind says so.  A value is what the registry knows of the entity.    *)
(***************************************************************************)
EXTENDS Integers, Sequences, FiniteSets, SequencesExt

CONSTANTS Page,       \* the cells, in their order
          Values,     \* what an entity may be at
          MaxChanges, Absent

Entities == {Page[i].entity : i \in 1 .. Len(Page)}

VARIABLES server,    \* entity -> value, or Absent once the registry forgot it
          sent,      \* what the stream has sent of it
          shown,     \* per cell, what it displays
          focused,   \* the cell the user holds, or 0
          changes

cellVars == <<server, sent, shown, focused, changes>>

-----------------------------------------------------------------------------
(* What a cell makes of a value. *)

\* entity-values.js: an entity the push does not name counts as unknown
Missing == [value |-> "", has_value |-> FALSE, available |-> FALSE, has_availability |-> FALSE,
            stale |-> FALSE, pending |-> FALSE, timeout |-> FALSE]
Merge(v) == IF v = Absent THEN Missing ELSE v

StatusMessage(v) ==
    CASE v.pending -> "awaiting" [] ~v.pending /\ v.timeout -> "timeout" [] OTHER -> ""

Availability(v) == IF ~v.has_availability THEN "unknown" ELSE IF v.available THEN "ok" ELSE "bad"

\* A sign for no value, the raw time, or the number with its unit
Text(c, v) ==
    CASE ~v.has_value -> <<"none">>
      [] v.has_value /\ c.timestamp -> <<"time", v.value>>
      [] OTHER -> IF c.unit THEN <<v.value, "unit">> ELSE <<v.value>>

\* applyTextWidth: a long free text takes the wide row
Wide(c, v) == c.kind = "tile" /\ ~c.unit /\ v.has_value /\ v.value = "long"

\* applyValue, applySlider, applyButton; applyValueCard, applyGroupChip; applyRow
Display(c, v) ==
    [text |-> Text(c, v),
     stale |-> v.stale,
     wide |-> Wide(c, v),
     dot |-> IF c.kind \in {"card", "chip"} THEN Availability(v) ELSE "",
     busy |-> c.kind \in {"tile", "slider", "card", "chip"} /\ v.pending,
     message |-> IF c.kind = "row" THEN "" ELSE StatusMessage(v)]

\* A slider in use keeps its handle and its state, its number follows
Held(c, old, v) == [Display(c, v) EXCEPT !.busy = old.busy]
Drawn(i, v) ==
    IF i = focused /\ Page[i].kind = "slider" THEN Held(Page[i], shown[i], v) ELSE Display(Page[i], v)

-----------------------------------------------------------------------------
(* The two ways a push is applied. *)

\* The three files, each with its own kinds of cells
Groups == <<{"tile", "slider"}, {"card", "chip"}, {"row"}>>

\* querySelector: the first cell of the entity in each group
FirstCell(e, g) ==
    LET at == {i \in 1 .. Len(Page) : Page[i].entity = e /\ Page[i].kind \in Groups[g]} IN
    {i \in at : \A k \in at : i <= k}
Named(entities) == UNION {FirstCell(e, g) : e \in entities, g \in 1 .. Len(Groups)}

Full(all) == [i \in 1 .. Len(Page) |-> Drawn(i, Merge(all[Page[i].entity]))]
Delta(news) ==
    [i \in 1 .. Len(Page) |->
        IF i \in Named(DOMAIN news) THEN Drawn(i, Merge(news[Page[i].entity])) ELSE shown[i]]

Init ==
    /\ server \in [Entities -> Values]
    /\ sent = server
    /\ focused = 0
    /\ shown = [i \in 1 .. Len(Page) |-> Display(Page[i], Merge(server[Page[i].entity]))]
    /\ changes = 0

\* The registry's value of an entity changes, or the entity is forgotten
Change(e, v) ==
    /\ changes < MaxChanges
    /\ v # server[e]
    /\ server' = [server EXCEPT ![e] = v]
    /\ changes' = changes + 1
    /\ UNCHANGED <<sent, shown, focused>>

\* changedValues: what is there now and differs from what was sent before
News == {e \in Entities : server[e] # Absent /\ server[e] # sent[e]}

PushDelta ==
    /\ News # {}
    /\ shown' = Delta([e \in News |-> server[e]])
    /\ sent' = server
    /\ UNCHANGED <<server, focused, changes>>

\* A stream that begins anew starts with everything
PushFull ==
    /\ shown' = Full(server)
    /\ sent' = server
    /\ UNCHANGED <<server, focused, changes>>

Focus(i) ==
    /\ i = 0 \/ (i > 0 /\ Page[i].kind = "slider")
    /\ focused' = i
    /\ UNCHANGED <<server, sent, shown, changes>>

Next ==
    \/ \E e \in Entities, v \in Values \cup {Absent} : Change(e, v)
    \/ PushDelta
    \/ PushFull
    \/ \E i \in 0 .. Len(Page) : Focus(i)

Spec == Init /\ [][Next]_cellVars

-----------------------------------------------------------------------------

Free(i) == ~(Page[i].kind = "slider")
Same(i) == shown[i] = Display(Page[i], server[Page[i].entity])

\* However full pushes and deltas follow one another, the first cell of an
\* entity that has been sent shows what drawing it anew would show
\* (device-tile-values.js:26-29, "muessen dieselbe DOM ergeben").
FirstCellsFollow ==
    \A i \in Named(Entities) :
        LET e == Page[i].entity IN
        (server[e] # Absent /\ server[e] = sent[e] /\ Free(i)) => Same(i)

=============================================================================
