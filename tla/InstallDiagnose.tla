--------------------------- MODULE InstallDiagnose ---------------------------
(***************************************************************************)
(* The installer's diagnosis screen: the live log of two units and the     *)
(* requests behind the check list.  Lines of the node's journal arrive     *)
(* over a server-sent event stream that the browser reconnects by itself   *)
(* (live-log.js, hostapi/unitlogs.go), are kept in a ring per unit and     *)
(* shown in an element of the page that is written line by line and        *)
(* rebuilt only when another unit is chosen (screen-diagnose.js).          *)
(***************************************************************************)
EXTENDS Integers, Sequences, SequencesExt, FiniteSets

CONSTANTS
    Units,        \* the units whose log is shown (LiveUnits)
    First,        \* the unit shown when the screen opens
    Steps,        \* steps a failed check can be repaired with
    NeedsInput,   \* those of them that ask for a password first
    Capacity,     \* lines a ring keeps (CAPACITY)
    Backlog,      \* lines a new stream begins with (LiveBacklog)
    MaxLines,     \* bound: lines the journal gets
    MaxBreaks,    \* bound: connections lost
    MaxLoads,     \* bound: requests for the check list under way at once
    Absent

VARIABLES
    journal,      \* the journal of the node: the unit of each line
    stream,       \* "connecting" | "live" | "reconnecting" | "ended" | "closed"
    cursor,       \* the last line the browser has, Absent before the first
    sent,         \* the line up to which the host has written this connection
    ring,         \* the lines kept of each unit, by their place in the journal
    begun,        \* the line before the first one the first connection sent
    liveUnit,     \* the unit on display
    empty,        \* the note "no lines yet" is shown
    element,      \* the element of the page: its unit and its lines, or Absent
    breaks,
    loads,        \* requests for the check list under way
    busy,         \* the buttons are locked
    repairs,      \* the steps whose repair requests are under way
    dialog,       \* the step whose password dialog is open, or Absent
    left          \* the screen was left for the run it started

logVars == <<journal, stream, cursor, sent, ring, begun, liveUnit, empty, element, breaks>>
formVars == <<loads, busy, repairs, dialog>>
diagnoseVars == <<logVars, formVars, left>>

LinesOf(u) == SelectSeq([i \in 1..Len(journal) |-> i], LAMBDA i : journal[i] = u)

\* Where a connection begins: behind the cursor, or with the backlog when the
\* browser names none.
StartsAfter(c) == IF c # Absent THEN c
                  ELSE IF Len(journal) > Backlog THEN Len(journal) - Backlog ELSE 0

-----------------------------------------------------------------------------
(* The log.                                                                *)

\* A ring is full at Capacity: the oldest line goes.
Push(r, i) == IF Len(r) >= Capacity THEN Append(Tail(r), i) ELSE Append(r, i)

\* The element is written from the ring when it is not this unit's yet;
\* otherwise the line is appended to it.
Shown(u, kept, i) ==
    IF element = Absent THEN Absent
    ELSE IF element.unit # u THEN [unit |-> u, lines |-> kept]
    ELSE [element EXCEPT !.lines = Push(@, i)]

\* The node writes a line.
Writes(u) ==
    /\ Len(journal) < MaxLines
    /\ journal' = Append(journal, u)
    /\ UNCHANGED <<stream, cursor, sent, ring, begun, liveUnit, empty, element, breaks, formVars, left>>

\* The stream is accepted: hello, then the lines behind the cursor.
Hello ==
    /\ stream \in {"connecting", "reconnecting"}
    /\ stream' = "live"
    /\ sent' = StartsAfter(cursor)
    /\ begun' = IF begun = Absent \/ cursor = Absent THEN StartsAfter(cursor) ELSE begun
    /\ empty' = (ring[liveUnit] = <<>>)
    /\ UNCHANGED <<journal, cursor, ring, liveUnit, element, breaks, formVars, left>>

\* A line arrives. Lines of the unit not on display only go to their ring.
Line ==
    /\ stream = "live" /\ sent < Len(journal)
    /\ LET i == sent + 1
           u == journal[i]
           kept == Push(ring[u], i)
       IN /\ sent' = i /\ cursor' = i
          /\ ring' = [ring EXCEPT ![u] = kept]
          /\ empty' = IF u = liveUnit THEN FALSE ELSE empty
          /\ element' = IF u = liveUnit THEN Shown(u, kept, i) ELSE element
    /\ UNCHANGED <<journal, stream, begun, liveUnit, breaks, formVars, left>>

\* The connection breaks: the browser tries again by itself.
Breaks ==
    /\ stream = "live" /\ breaks < MaxBreaks
    /\ stream' = "reconnecting" /\ breaks' = breaks + 1
    /\ UNCHANGED <<journal, cursor, sent, ring, begun, liveUnit, empty, element, formVars, left>>

\* The host ends the stream with an error, or the browser gives up.
Ends ==
    /\ stream \in {"connecting", "live", "reconnecting"} /\ breaks < MaxBreaks
    /\ stream' = "ended" /\ breaks' = breaks + 1
    /\ UNCHANGED <<journal, cursor, sent, ring, begun, liveUnit, empty, element, formVars, left>>

\* The card is drawn: its element is empty and belongs to no unit.
CardDrawn ==
    /\ element = Absent
    /\ element' = [unit |-> "", lines |-> <<>>]
    /\ UNCHANGED <<journal, stream, cursor, sent, ring, begun, liveUnit, empty, breaks, formVars, left>>

\* liveSelect: another unit is chosen, the element is rebuilt from its ring.
LiveSelect(u) ==
    /\ u # liveUnit
    /\ liveUnit' = u
    /\ empty' = (ring[u] = <<>>)
    /\ element' = IF element = Absent THEN Absent ELSE [unit |-> u, lines |-> ring[u]]
    /\ UNCHANGED <<journal, stream, cursor, sent, ring, begun, breaks, formVars, left>>

-----------------------------------------------------------------------------
(* The check list and its repairs.                                         *)

\* load: on opening, and from the bar's "check again", which asks for nothing.
Load ==
    /\ loads < MaxLoads
    /\ loads' = loads + 1 /\ busy' = TRUE
    /\ UNCHANGED <<logVars, repairs, dialog, left>>

\* The list is there, or the request failed: the buttons are free again.
Loaded ==
    /\ loads > 0
    /\ loads' = loads - 1 /\ busy' = FALSE
    /\ UNCHANGED <<logVars, repairs, dialog, left>>

\* startRepair.  The requests of a step are told apart by the step alone.
Ask(s) == s \notin repairs /\ repairs' = repairs \cup {s} /\ busy' = TRUE

\* retry: a repair that needs a password asks for it first.
Retry(s) ==
    /\ ~busy /\ dialog = Absent
    /\ IF s \in NeedsInput
       THEN dialog' = s /\ UNCHANGED <<busy, repairs>>
       ELSE Ask(s) /\ UNCHANGED dialog
    /\ UNCHANGED <<logVars, loads, left>>

\* submitRepair, with a valid password.
SubmitRepair ==
    /\ dialog # Absent /\ ~busy
    /\ Ask(dialog)
    /\ UNCHANGED <<logVars, loads, dialog, left>>

CancelRepair ==
    /\ dialog # Absent
    /\ dialog' = Absent
    /\ UNCHANGED <<logVars, loads, busy, repairs, left>>

\* The host took the repair: the dialog closes and the screen is left for the
\* run, which closes the stream.
RepairStarted(s) ==
    /\ s \in repairs
    /\ repairs' = repairs \ {s} /\ busy' = FALSE /\ left' = TRUE /\ stream' = "closed"
    /\ dialog' = IF s \in NeedsInput THEN Absent ELSE dialog
    /\ UNCHANGED <<journal, cursor, sent, ring, begun, liveUnit, empty, element, breaks, loads>>

\* The host refused it: the dialog stays open with what was typed.
RepairRefused(s) ==
    /\ s \in repairs
    /\ repairs' = repairs \ {s} /\ busy' = FALSE
    /\ UNCHANGED <<logVars, loads, dialog, left>>

-----------------------------------------------------------------------------
Init ==
    /\ journal \in {<<>>} \cup {[i \in 1..n |-> First] : n \in 1..MaxLines - 1}
    /\ stream = "connecting" /\ cursor = Absent /\ sent = 0 /\ begun = Absent
    /\ ring = [u \in Units |-> <<>>]
    /\ liveUnit = First /\ empty = TRUE /\ element = Absent /\ breaks = 0
    /\ loads = 1 /\ busy = TRUE /\ repairs = {} /\ dialog = Absent /\ left = FALSE

Next ==
    /\ ~left
    /\ \/ \E u \in Units : Writes(u)
       \/ Hello \/ Line \/ Breaks \/ Ends \/ CardDrawn
       \/ \E u \in Units : LiveSelect(u)
       \/ Load \/ Loaded
       \/ \E s \in Steps : Retry(s) \/ RepairStarted(s) \/ RepairRefused(s)
       \/ SubmitRepair \/ CancelRepair

Spec == Init /\ [][Next]_diagnoseVars

-----------------------------------------------------------------------------
\* Across lost connections every ring holds exactly the newest lines of its
\* unit between where the first stream began and what has arrived: none is
\* missing in the middle, none is there twice (the stream's cursor).
RingIsGapless ==
    cursor # Absent =>
        \A u \in Units :
            LET got == SelectSeq(LinesOf(u), LAMBDA i : i > begun /\ i <= cursor)
            IN ring[u] = SubSeq(got, IF Len(got) > Capacity THEN Len(got) - Capacity + 1 ELSE 1, Len(got))

\* What the page shows of a unit is what its ring holds, and the note that
\* there is nothing stands exactly when there is nothing: whether the element
\* was drawn before or after the lines came, and whichever unit was looked at
\* in between.
PageShowsRing ==
    /\ empty <=> (ring[liveUnit] = <<>>)
    /\ element # Absent /\ element.unit # "" =>
          element.unit = liveUnit /\ element.lines = ring[liveUnit]

=============================================================================
