--------------------------- MODULE DashboardViews ---------------------------
(***************************************************************************)
(* What the dashboard makes of what it is given, without any state of its  *)
(* own: the warnings of the diagnostics panel (dashboard.js,               *)
(* diagnosticsPanel), the device cards a push is applied to                *)
(* (device-structure.js), the tabs of the device dialog (device-modal.js), *)
(* the rows of the overview's grid (overview.page.js, layout-fill.js), and *)
(* the recorded history in buckets, gaps and questions to other browsers   *)
(* (history-rollup.js, history-coverage.js).  view is the one thing looked *)
(* at.                                                                     *)
(***************************************************************************)
EXTENDS Integers, Sequences, FiniteSets, SequencesExt, FiniteSetsExt, Functions

CONSTANTS WarningLists, \* sequences of [rule, key, severity, device, entity]
          CardLists,    \* sequences of cards
          Pushes,       \* what the stream may say of the devices
          Details,      \* device details
          Heights,      \* heights of the dialog's content
          MergeHeight,
          Spans,        \* spans of cards, "full" among them
          MaxCards, MaxColumns,
          Times,        \* times of a recording, 0 to some number
          Ticks, Minutes, \* of a chart: times of raw rows, and of minute rows to fill them with
          MinGap,       \* DEFAULT_MIN_GAP_MS: shorter pauses are no gaps
          FillStep,     \* FILL_MAX_STEP_MS: filled rows further apart leave a gap
          MinSpan,      \* TIER_MIN_SPAN_MS: from which span on a tier is offered
          Step, Window, \* RASTER: step and window of each tier that is exchanged
          MinOpen,      \* MIN_OPEN_MS: shorter questions about the open bucket are not asked
          Absent

VARIABLE view

viewVars == <<view>>

-----------------------------------------------------------------------------
(* The diagnostics panel. *)

SeverityRank(s) == CASE s = "critical" -> 3 [] s = "warning" -> 2 [] s = "info" -> 1 [] OTHER -> 0
Severities == {"critical", "warning", "info"}

DeviceWarnings(list, device) ==
    IF device = "all" THEN list ELSE SelectSeq(list, LAMBDA w : w.device = device)
SeverityCount(list, device, severity) ==
    Len(SelectSeq(DeviceWarnings(list, device), LAMBDA w : severity = "all" \/ w.severity = severity))

\* filteredWarnings: a stable order by severity, the other way round when
\* the direction is
FilteredWarnings(list, device, severity, direction) ==
    LET kept  == SelectSeq(DeviceWarnings(list, device), LAMBDA w : severity = "all" \/ w.severity = severity)
        Of(r) == SelectSeq(kept, LAMBDA w : SeverityRank(w.severity) = r)
    IN IF direction = "asc" THEN Of(0) \o Of(1) \o Of(2) \o Of(3) ELSE Of(3) \o Of(2) \o Of(1) \o Of(0)

GroupId(w) == IF w.key # "" THEN w.key ELSE w.rule

\* A group is as severe as the worst of its warnings
GroupSeverity(members) ==
    FoldLeft(LAMBDA s, w : IF SeverityRank(w.severity) > SeverityRank(s) THEN w.severity ELSE s,
             Head(members).severity, members)

\* warningGroups, as a set
WarningGroups(list) ==
    {LET members == SelectSeq(list, LAMBDA w : GroupId(w) = id) IN
     [id |-> id, severity |-> GroupSeverity(members), count |-> Len(members),
      devices |-> {[device |-> members[i].device,
                    entities |-> {m.entity : m \in {n \in ToSet(members) :
                                     n.device = members[i].device /\ n.entity # ""}}] : i \in 1 .. Len(members)}]
       : id \in {GroupId(w) : w \in ToSet(list)}}

\* A critical group and the only group start open
OpenByDefault(group, groups) == group.severity = "critical" \/ Cardinality(groups) = 1

\* headline and headlineTone; a severity nobody knows is not counted
Headline(list) == [s \in {x \in Severities : \E w \in ToSet(list) : w.severity = x} |-> SeverityCount(list, "all", s)]
HeadlineTone(list, loaded) ==
    CASE \E w \in ToSet(list) : w.severity = "critical" -> "bad"
      [] list # <<>> /\ ~\E w \in ToSet(list) : w.severity = "critical" -> "warn"
      [] OTHER -> IF loaded THEN "ok" ELSE "idle"

-----------------------------------------------------------------------------
(* The device cards of a panel and a push: a card is [id, tile, structure, *)
(* availability, rail, auto, rows, template]; tile tells the large tile    *)
(* from the compact card.  entries maps a device to its entry.             *)

\* applyAvailability and applyStatus: each kind of card takes its own
Painted(card, entry) ==
    IF card.tile THEN [card EXCEPT !.rail = entry.rail] ELSE [card EXCEPT !.availability = entry.availability]

\* applyRows: rows chosen by the server are built anew when they changed;
\* without the template, or without rows, that is beyond the patch
RowsFit(card, entry) == ~card.auto \/ entry.rows = Absent \/ card.rows = entry.rows
CanBuild(card, entry) == entry.rows # <<>> /\ card.template

\* What apply leaves of one card: it is replaced, or patched, or let be
Patched(card, push) ==
    LET known == card.id \in DOMAIN push.entries
        entry == push.entries[card.id]
    IN CASE push.delta /\ ~known -> [replace |-> FALSE, card |-> card]
         [] ~(push.delta /\ ~known) /\ ~known -> [replace |-> card.structure # "", card |-> card]
         [] OTHER ->
              IF entry.structure # card.structure THEN [replace |-> TRUE, card |-> card]
              ELSE IF RowsFit(card, entry) THEN [replace |-> FALSE, card |-> Painted(card, entry)]
              ELSE IF CanBuild(card, entry)
                   THEN [replace |-> FALSE, card |-> [Painted(card, entry) EXCEPT !.rows = entry.rows]]
                   ELSE [replace |-> TRUE, card |-> Painted(card, entry)]

\* The devices tab shows the devices the push lists, in that order
SameCards(cards, push) ==
    push.list = Absent \/ [i \in 1 .. Len(cards) |-> cards[i].id] = push.list

\* apply: FALSE where the whole grid has to be exchanged
Covers(cards, push) ==
    cards = <<>> \/ (push.entries # Absent /\ SameCards(cards, push))

-----------------------------------------------------------------------------
(* The device dialog: an entity is [id, category, component, commandable,  *)
(* text], text being what its name tells.                                  *)

EntityCategory(e) ==
    CASE e.category = "diagnostic" -> "diagnostics"
      [] e.category = "config" -> "configuration"
      [] e.category = "" /\ (e.commandable \/ e.component \in {"button", "number", "select", "text"}) -> "controls"
      [] e.category = "" /\ ~(e.commandable \/ e.component \in {"button", "number", "select", "text"}) ->
            CASE e.hidden \/ e.text = "diagnostic" -> "diagnostics"
              [] ~e.hidden /\ e.text = "config" -> "configuration"
              [] OTHER -> "measurements"

OfCategory(detail, cats) == SelectSeq(detail.entities, LAMBDA e : EntityCategory(e) \in cats)
Measurements(detail) == OfCategory(detail, {"measurements"})
Controls(detail) == OfCategory(detail, {"controls"})
ConfigDiag(detail) == OfCategory(detail, {"configuration", "diagnostics"})
CanMerge(detail) == Measurements(detail) # <<>> /\ Controls(detail) # <<>>
ValueTabs == {"measurements", "controls", "measurementsControls"}

\* defaultDeviceTab
DefaultTab(detail, merged, analysis) ==
    CASE Measurements(detail) # <<>> -> IF merged THEN "measurementsControls" ELSE "measurements"
      [] Measurements(detail) = <<>> /\ Controls(detail) # <<>> ->
            IF merged THEN "measurementsControls" ELSE "controls"
      [] Measurements(detail) = <<>> /\ Controls(detail) = <<>> /\ ConfigDiag(detail) # <<>> -> "configDiag"
      [] OTHER -> IF analysis THEN "management" ELSE "deviceInfo"

\* applyMergeThreshold: enough room shows measurements and controls together
MergeThreshold(s, detail, height) ==
    LET merge == height >= MergeHeight /\ CanMerge(detail) IN
    IF s.tab \notin ValueTabs \/ merge = s.merged THEN s
    ELSE [merged |-> merge,
          tab |-> IF merge THEN "measurementsControls"
                  ELSE IF Measurements(detail) # <<>> THEN "measurements" ELSE "controls"]

\* setDeviceTab: a value tab takes the height of the moment into account
SetTab(s, key, detail, height) ==
    IF key \in ValueTabs THEN MergeThreshold([s EXCEPT !.tab = key], detail, height)
    ELSE [s EXCEPT !.tab = key]

\* The tabs the dialog offers
Offered(s, detail, analysis) ==
    {"deviceInfo"}
    \cup (IF s.merged THEN (IF CanMerge(detail) THEN {"measurementsControls"} ELSE {})
          ELSE (IF Measurements(detail) # <<>> THEN {"measurements"} ELSE {})
               \cup (IF Controls(detail) # <<>> THEN {"controls"} ELSE {}))
    \cup (IF ConfigDiag(detail) # <<>> THEN {"configDiag"} ELSE {})
    \cup (IF analysis THEN {"management"} ELSE {})

\* A visit: the default tab, then other heights and other tabs
Opened(detail, analysis) == [tab |-> DefaultTab(detail, FALSE, analysis), merged |-> FALSE]
AfterResize(detail, analysis, h) == MergeThreshold(Opened(detail, analysis), detail, h)
AfterTab(detail, analysis, h, k, g) ==
    LET s == AfterResize(detail, analysis, h) IN
    IF k \in Offered(s, detail, analysis) THEN MergeThreshold(SetTab(s, k, detail, h), detail, g) ELSE s

-----------------------------------------------------------------------------
(* The rows of the grid.  A card asks for a number of tracks; what is left *)
(* at the end of a row goes to one of its widest cards.  Two scripts       *)
(* compute this for the same grid: overview.page gives the rest to the     *)
(* last of them, layout-fill to the first.                                 *)

Larger(a, b) == IF a > b THEN a ELSE b
Smaller(a, b) == IF a < b THEN a ELSE b

SpanNames == <<"1", "2", "3", "4", "5", "6">>

\* tracksFor: a card is never wider than the grid.
Tracks ==
    [i \in DOMAIN view.spans |->
        IF view.spans[i] = "full" THEN view.columns
        ELSE Smaller(CHOOSE n \in 1..6 : SpanNames[n] = view.spans[i], view.columns)]

\* Where the rows end when the cards are placed one after the other.
RowEnds ==
    LET Place(s, i) == IF s.used + Tracks[i] > view.columns THEN [used |-> Tracks[i], ends |-> s.ends \cup {i - 1}]
                       ELSE [s EXCEPT !.used = @ + Tracks[i]]
    IN FoldLeft(Place, [used |-> 0, ends |-> {}], [i \in DOMAIN view.spans |-> i]).ends \cup {Len(view.spans)}

RowOf(i) == LET end == Min({e \in RowEnds : e >= i}) IN (Max({e \in RowEnds : e < end} \cup {0}) + 1)..end

Widest(row) == {i \in row : \A j \in row : Tracks[j] <= Tracks[i]}
InRow(tracks, row) == FoldFunctionOnSet(+, 0, tracks, row)

Rest(row) == view.columns - InRow(Tracks, row)

FillLast == [i \in DOMAIN view.spans |-> IF i = Max(Widest(RowOf(i))) THEN Tracks[i] + Rest(RowOf(i)) ELSE Tracks[i]]
FillFirst == [i \in DOMAIN view.spans |-> IF i = Min(Widest(RowOf(i))) THEN Tracks[i] + Rest(RowOf(i)) ELSE Tracks[i]]

-----------------------------------------------------------------------------
(* The recorded history.  A row is [series, ts, min, max, sum, n]; sum is  *)
(* the code's avg times n.  Rows are sets: the store holds one row per     *)
(* series and time.  Gaps are sequences of [from, to] in order of time.    *)

Sample(series, ts, value) ==
  [series |-> series, ts |-> ts, min |-> value, max |-> value, sum |-> value, n |-> 1]

SumOf(rows, field(_)) == FoldSet(LAMBDA r, total : total + field(r), 0, rows)

BucketStart(ts, width) == (ts \div width) * width

\* One row for all rows of a series that fall into one bucket.
Joined(series, start, rows) ==
  [series |-> series, ts |-> start,
   min |-> Min({r.min : r \in rows}), max |-> Max({r.max : r \in rows}),
   sum |-> SumOf(rows, LAMBDA r : r.sum), n |-> SumOf(rows, LAMBDA r : r.n)]

Bucket(rows, width) ==
  {Joined(key[1], key[2], {r \in rows : <<r.series, BucketStart(r.ts, width)>> = key}) :
     key \in {<<r.series, BucketStart(r.ts, width)>> : r \in rows}}

KeyOf(row) == <<row.series, row.ts>>

\* Coarse rows win; what they lack is bundled from the finer rows.
MergeCoarse(coarse, fine, width) ==
  coarse \cup {r \in Bucket(fine, width) : KeyOf(r) \notin {KeyOf(c) : c \in coarse}}

CeilDiv(a, b) == -((-a) \div b)

ThinWidth(span, maxPoints) == Larger(1, CeilDiv(span, Larger(1, maxPoints - 1)))

Thin(rows, maxPoints) ==
  LET times == {r.ts : r \in rows}
  IN IF Cardinality(rows) <= maxPoints THEN rows
     ELSE Bucket(rows, ThinWidth(Max(times) - Min(times), maxPoints))

\* Fine to coarse, as the code lists them.
AvailableTiers(span, windows) ==
  LET fits(tier) == CASE tier = "raw" -> span <= windows.raw
                      [] tier = "1m" -> span >= MinSpan.m1 /\ span <= windows.minute
                      [] tier = "5m" -> span >= MinSpan.m5
                      [] tier = "1h" -> span >= MinSpan.h1
      tiers == SelectSeq(<<"raw", "1m", "5m", "1h">>, fits)
  IN IF tiers = <<>> THEN <<"raw">> ELSE tiers

SelectTier(span, windows, wanted) ==
  LET tiers == AvailableTiers(span, windows)
  IN IF wanted \in ToSet(tiers) THEN wanted ELSE Last(tiers)

\* The coarsest tier with data, unless a finer one covers a fifth more (in percent).
AutoTier(tiers, coverage) ==
  LET withData == {i \in DOMAIN tiers : coverage[tiers[i]] > 0}
      finer(current, i) ==
        IF coverage[tiers[i]] > 0 /\ 10 * coverage[tiers[i]] >= 12 * coverage[current]
          THEN tiers[i] ELSE current
  IN IF withData = {} THEN Last(tiers)
     ELSE FoldLeft(finer, tiers[Max(withData)],
                   [k \in 1..(Max(withData) - 1) |-> Max(withData) - k])

Gap(from, to) == [from |-> from, to |-> to]

InOrder(times) ==
  [i \in 1..Cardinality(times) |-> CHOOSE ts \in times : Cardinality({u \in times : u < ts}) = i - 1]

\* Twice the median, so that it stays whole.
TwiceMedian(values) ==
  LET sorted == SortSeq(values, LAMBDA a, b : a < b)
      n == Len(values)
  IN IF n % 2 = 1 THEN 2 * sorted[(n + 1) \div 2]
     ELSE sorted[n \div 2] + sorted[n \div 2 + 1]

Between(ticks) == [i \in 1..(Len(ticks) - 1) |-> Gap(ticks[i], ticks[i + 1])]

DetectGaps(ticks) ==
  IF Len(ticks) < 2 THEN <<>>
  ELSE LET spans == Between(ticks)
           typical == TwiceMedian([i \in DOMAIN spans |-> spans[i].to - spans[i].from])
           limit == Larger(5 * typical, 2 * MinGap)
       IN SelectSeq(spans, LAMBDA s : 2 * (s.to - s.from) > limit)

\* Where a device did not record, the edges of the window included.
RecordingGaps(times, from, to) ==
  IF times = {} THEN <<Gap(from, to)>>
  ELSE (IF Min(times) - from > MinGap THEN <<Gap(from, Min(times))>> ELSE <<>>)
       \o DetectGaps(InOrder(times))
       \o (IF to - Max(times) > MinGap THEN <<Gap(Max(times), to)>> ELSE <<>>)

\* The binary search of the code over gaps in order.
InsideGap(gaps, ts) ==
  LET search[low \in 1..(Len(gaps) + 1), high \in 0..Len(gaps)] ==
        LET mid == (low + high) \div 2
        IN IF low > high THEN FALSE
           ELSE IF ts <= gaps[mid].from THEN search[low, mid - 1]
           ELSE IF ts >= gaps[mid].to THEN search[mid + 1, high]
           ELSE TRUE
  IN search[1, Len(gaps)]

\* What filling leaves of a gap: every stretch between neighbours that is too long.
LeftOf(gap, stamps) ==
  LET marks == InOrder({gap.from, gap.to} \cup {s \in stamps : gap.from < s /\ s < gap.to})
  IN SelectSeq(Between(marks), LAMBDA s : s.to - s.from > FillStep)

UncoveredGaps(gaps, stamps) ==
  IF stamps = {} THEN gaps
  ELSE FoldLeft(LAMBDA rest, gap : rest \o LeftOf(gap, stamps), <<>>, gaps)

\* Raw rows of one series, filled with minute rows inside its gaps; both are times.
FillRawGaps(raw, minutes, from, to) ==
  LET gaps == IF raw = {} /\ minutes # {} THEN <<Gap(from, to)>>
              ELSE RecordingGaps(raw, from, to)
      fill == {ts \in minutes : InsideGap(gaps, ts)}
  IN [rows |-> raw \cup fill, gaps |-> UncoveredGaps(gaps, fill)]

\* After which of the drawn times the line is broken: one pass over both lists.
GapBreaks(times, gaps) ==
  LET step(walk, p) ==
        LET index == Min({i \in walk.index..(Len(gaps) + 1) :
                            i = Len(gaps) + 1 \/ gaps[i].from >= times[p]})
        IN IF index <= Len(gaps) /\ gaps[index].from < times[p + 1]
             THEN [index |-> index + 1, breaks |-> walk.breaks \cup {p}]
             ELSE [walk EXCEPT !.index = index]
  IN FoldLeft(step, [index |-> 1, breaks |-> {}], [p \in 1..(Len(times) - 1) |-> p]).breaks

\* Overlapping intervals become one; touching ones stay apart.
MergeIntervals(gaps) ==
  LET sorted == SetToSortSeq(gaps, LAMBDA a, b : a.from < b.from \/ (a.from = b.from /\ a.to < b.to))
      merge(out, gap) ==
        IF out # <<>> /\ gap.from < Last(out).to
          THEN [out EXCEPT ![Len(out)].to = Larger(@, gap.to)]
          ELSE Append(out, gap)
  IN FoldLeft(merge, <<>>, sorted)

\* The flat ends drawn into a gap, at most to its middle: points <<x, value>>.
Stubs(gap, points, reach) ==
  LET half == Smaller(reach, (gap.to - gap.from) \div 2)
      before == {p \in points : p[1] <= gap.from}
      after == {p \in points : p[1] >= gap.to}
      last == CHOOSE p \in before : \A q \in before : q[1] <= p[1]
      first == CHOOSE p \in after : \A q \in after : q[1] >= p[1]
  IN IF half = 0 THEN <<>>
     ELSE (IF before = {} THEN <<>>
           ELSE <<<<gap.from - 1, Absent>>, <<gap.from, last[2]>>,
                  <<gap.from + half, last[2]>>, <<gap.from + half + 1, Absent>>>>)
          \o (IF after = {} THEN <<>>
              ELSE <<<<gap.to - half - 1, Absent>>, <<gap.to - half, first[2]>>,
                     <<gap.to, first[2]>>, <<gap.to + 1, Absent>>>>)

\* No x goes back: each is clamped to the one before it.
GapStubs(points, gaps, reach) ==
  IF gaps = {} \/ points = {} \/ reach <= 0 THEN <<>>
  ELSE FoldLeft(LAMBDA out, p :
                  Append(out, IF out = <<>> THEN p ELSE <<Larger(p[1], Last(out)[1]), p[2]>>),
                <<>>,
                FoldLeft(LAMBDA all, gap : all \o Stubs(gap, points, reach), <<>>,
                         MergeIntervals(gaps)))

-----------------------------------------------------------------------------
(* What one browser asks of another: a census counts the rows of every     *)
(* bucket of a raster, and the plan asks the peer with the largest surplus *)
(* for the buckets in which it has more.  A census is [from, step, n] with *)
(* n a sequence; spans are <<start, end>>, their end excluded.             *)

RasterWindow(tier, now) ==
  LET from == ((now - Window[tier]) \div Step[tier]) * Step[tier]
  IN [from |-> from, to |-> now, step |-> Step[tier],
      buckets |-> -((from - now) \div Step[tier])]

Census(tier, times, now) ==
  LET raster == RasterWindow(tier, now)
      in(i) == {ts \in times : /\ raster.from <= ts /\ ts < now
                               /\ (ts - raster.from) \div raster.step = i - 1}
  IN [from |-> raster.from, step |-> raster.step,
      n |-> [i \in 1..raster.buckets |-> Cardinality(in(i))]]

CountIn(census, i) == IF i \in DOMAIN census.n THEN census.n[i] ELSE 0

EmptyCensus(reference) == [from |-> reference.from, step |-> reference.step, n |-> <<>>]

Base(own, peer) == IF own = Absent THEN EmptyCensus(peer) ELSE own

BucketFrom(census, i) == census.from + (i - 1) * census.step

\* Without a cutoff the bucket of now is left out, with one every bucket from it on.
Skipped(peer, i, now, cutoff) ==
  IF cutoff = Absent THEN i - 1 = (now - peer.from) \div peer.step
  ELSE BucketFrom(peer, i) >= cutoff

NonEmpty(span) == span[2] > span[1]

\* Spans cut to [from, to).
Clip(spans, from, to) ==
  SelectSeq([i \in DOMAIN spans |-> <<Larger(spans[i][1], from), Smaller(spans[i][2], to)>>],
            NonEmpty)

Wanted(own, peer, now, cutoff) ==
  {i \in DOMAIN peer.n : /\ ~Skipped(peer, i, now, cutoff)
                         /\ peer.n[i] > CountIn(Base(own, peer), i)}

\* Runs of neighbouring buckets in which the peer has more.
MissingRanges(own, peer, now, cutoff) ==
  LET wanted == Wanted(own, peer, now, cutoff)
      starts == SetToSortSeq({i \in wanted : i - 1 \notin wanted}, LAMBDA a, b : a < b)
      stop(i) == Min({j \in (i + 1)..(Len(peer.n) + 1) : j \notin wanted})
      ranges == [k \in DOMAIN starts |->
                   <<BucketFrom(peer, starts[k]), BucketFrom(peer, stop(starts[k]))>>]
  IN IF peer.n = <<>> \/ Base(own, peer).from # peer.from \/ Base(own, peer).step # peer.step
       THEN <<>>
     ELSE IF cutoff = Absent THEN ranges
     ELSE SelectSeq([k \in DOMAIN ranges |-> <<ranges[k][1], Smaller(ranges[k][2], cutoff)>>],
                    NonEmpty)

Surplus(own, peer, now, cutoff) ==
  FoldSet(LAMBDA i, total : total + peer.n[i] - CountIn(Base(own, peer), i), 0,
          Wanted(own, peer, now, cutoff))

\* The open bucket is asked for from the last question on, and only when that is worth it.
TrimOpen(spans, openStart, asked) ==
  LET trim(span) == IF span[2] > openStart /\ asked # Absent
                      THEN <<Larger(span[1], asked), span[2]>> ELSE span
  IN SelectSeq([k \in DOMAIN spans |-> trim(spans[k])],
               LAMBDA s : NonEmpty(s) /\ (s[2] <= openStart \/ s[2] - s[1] >= MinOpen))

\* What would be asked of one peer.
RangesOf(own, peer, now, cutoff, asked, filter) ==
  LET open == ((cutoff - peer.from) \div peer.step) * peer.step + peer.from
      missing == MissingRanges(own, peer, now, cutoff)
      trimmed == IF cutoff = Absent THEN missing ELSE TrimOpen(missing, open, asked)
  IN IF filter = Absent THEN trimmed ELSE Clip(trimmed, filter.from, filter.to)

\* The peers worth asking for a series of a tier, each with what it would be asked.
Candidates(own, offers, tier, series, now, filter, cutoff, asked) ==
  LET mine == IF series \in DOMAIN own[tier] THEN own[tier][series] ELSE Absent
      holders == {p \in DOMAIN offers : series \in DOMAIN offers[p][tier]}
      askedOf(p) == IF <<p, tier, series>> \in DOMAIN asked THEN asked[<<p, tier, series>>]
                    ELSE Absent
      job(p) == [peer |-> p, tier |-> tier, series |-> series,
                 score |-> Surplus(mine, offers[p][tier][series], now, cutoff),
                 ranges |-> RangesOf(mine, offers[p][tier][series], now, cutoff,
                                     askedOf(p), filter)]
  IN {c \in {job(p) : p \in holders} : c.score > 0 /\ c.ranges # <<>>}

\* One job per tier and series, for the peer with the largest surplus that has anything to
\* ask for.  Of equals the code takes the one seen first; here every one is listed.
Plans(own, offers, now, filter, cutoff, asked) ==
  LET tiers == {t \in DOMAIN Step : filter = Absent \/ filter.tier = t}
      series(t) == UNION {DOMAIN offers[p][t] : p \in DOMAIN offers}
      found(t, s) == Candidates(own, offers, t, s, now, filter,
                                IF t = "1m" THEN cutoff ELSE Absent, asked)
      best(all) == {c \in all : \A d \in all : d.score <= c.score}
  IN UNION {UNION {best(found(t, s)) : s \in series(t)} : t \in tiers}

-----------------------------------------------------------------------------

\* Samples of one series, two values.
Recordings ==
    UNION {{{Sample("s", ts, at[ts]) : ts \in T} : at \in [T -> {1, 4}]} : T \in SUBSET Times}

Init ==
    \/ view \in [of : {"warnings"}, list : WarningLists, device : {"all", "d1"}, severity : {"all", "warning"}]
    \/ view \in [of : {"cards"}, cards : CardLists, push : Pushes]
    \/ view \in [of : {"dialog"}, detail : Details, analysis : BOOLEAN, first : Heights, then : Heights,
                 tab : ValueTabs \cup {"configDiag", "deviceInfo", "management"}]
    \/ view \in [of : {"grid"}, spans : UNION {[1 .. n -> Spans] : n \in 0 .. MaxCards}, columns : 1 .. MaxColumns]
    \/ view \in [of : {"rows"}, rows : Recordings]
    \/ view \in [of : {"tiers"}, span : Times, wanted : {"raw", "1m", "5m", "1h"}, coverage : [{"raw", "1m", "5m", "1h"} -> {0, 5, 6}]]
    \/ view \in [of : {"gaps"}, raw : SUBSET Ticks, minutes : SUBSET Minutes]
    \/ view \in [of : {"plan"}, tier : DOMAIN Step, own : SUBSET Times, peer : SUBSET Times, later : 0 .. 2]
Next == UNCHANGED view
Spec == Init /\ [][Next]_viewVars

-----------------------------------------------------------------------------

Total(groups) == FoldSet(LAMBDA g, n : g.count + n, 0, groups)

\* However the warnings are sorted and filtered, grouping loses none of them
\* and shows every group with the same severity, count and devices
\* (warningGroups: the severity is the worst of the group, not the first).
GroupsDontDependOnSort ==
    view.of = "warnings" =>
        LET up   == FilteredWarnings(view.list, view.device, view.severity, "asc")
            down == FilteredWarnings(view.list, view.device, view.severity, "desc")
        IN /\ WarningGroups(up) = WarningGroups(down)
           /\ Total(WarningGroups(up)) = SeverityCount(view.list, view.device, view.severity)
           /\ \A g \in WarningGroups(up), w \in ToSet(up) :
                 GroupId(w) = g.id => SeverityRank(w.severity) <= SeverityRank(g.severity)
           /\ HeadlineTone(view.list, TRUE) = "bad" <=>
                 \E g \in WarningGroups(view.list) : g.severity = "critical" /\ OpenByDefault(g, WarningGroups(view.list))
           /\ FoldFunction(+, 0, Headline(view.list)) = Len(SelectSeq(view.list, LAMBDA w : w.severity \in Severities))

\* A push that needs no exchange of the grid leaves every card either to be
\* fetched again or showing what the push says of its device: structure,
\* status of its kind, and the rows the server chose; and in the devices tab
\* exactly the cards the push lists (device-structure.js, apply).
CoveredIsCurrent ==
    (view.of = "cards" /\ Covers(view.cards, view.push)) =>
        /\ view.push.list # Absent /\ view.cards # <<>> =>
              ToSet(view.push.list) = {view.cards[i].id : i \in 1 .. Len(view.cards)}
        /\ \A i \in 1 .. Len(view.cards) :
            LET after == Patched(view.cards[i], view.push)
                known == view.cards[i].id \in DOMAIN view.push.entries
                entry == view.push.entries[view.cards[i].id]
            IN (known /\ ~after.replace) =>
                  /\ after.card.structure = entry.structure
                  /\ IF after.card.tile THEN after.card.rail = entry.rail
                     ELSE after.card.availability = entry.availability
                  /\ RowsFit(after.card, entry)

\* Whatever device is opened, however high the dialog becomes and whatever
\* tab is chosen, the active tab is one the dialog offers
\* (applyMergeThreshold, setDeviceTab, defaultDeviceTab).
TabIsOffered ==
    view.of = "dialog" =>
        LET s == AfterTab(view.detail, view.analysis, view.first, view.tab, view.then) IN
        s.tab \in Offered(s, view.detail, view.analysis)

\* Whichever script comes last, the filled grid breaks into the rows it broke
\* into before: each of them is full, so the browser, which places the cards
\* once more with the widths of the script, never moves a card to another row.
RowsAreFull ==
    view.of = "grid" =>
        \A tracks \in {FillLast, FillFirst} :
            \A i \in DOMAIN view.spans : tracks[i] >= Tracks[i] /\ InRow(tracks, RowOf(i)) = view.columns

\* A chart draws the same from every tier: bundling what was bundled equals
\* bundling at once, also where the coarse tier ends and finer rows go on,
\* and thinning keeps every sample in at most so many points (thin:
\* "hoechstens maxPoints Punkte").
TiersAgree ==
    view.of = "rows" =>
        /\ Bucket(Bucket(view.rows, 2), 4) = Bucket(view.rows, 4)
        /\ \A cut \in {0, 4} :
              MergeCoarse(Bucket({r \in view.rows : r.ts < cut}, 4), Bucket(view.rows, 2), 4) = Bucket(view.rows, 4)
        /\ \A most \in 2 .. 4 :
              LET thin == Thin(view.rows, most)
              IN Cardinality(thin) <= most /\ SumOf(thin, LAMBDA r : r.n) = Cardinality(view.rows)

\* The tier a chart opens with is one it offers, has data if one of them has,
\* and was taken for a coarser one only because it covers a fifth more
\* (availableTiers, autoTier); a choice of the user's is kept while it fits.
TierHasData ==
    view.of = "tiers" =>
        LET windows == [raw |-> 2, minute |-> 4]
            tiers == AvailableTiers(view.span, windows)
            auto == AutoTier(tiers, view.coverage)
            shown == SelectTier(view.span, windows, view.wanted)
        IN /\ \E k \in DOMAIN tiers :
                 /\ tiers[k] = auto
                 /\ \A i \in DOMAIN tiers :
                       /\ view.coverage[tiers[i]] > 0 => view.coverage[auto] > 0
                       /\ i > k => 5 * view.coverage[auto] >= 6 * view.coverage[tiers[i]]
                       /\ i < k /\ view.coverage[auto] > 0 =>
                             5 * view.coverage[tiers[i]] < 6 * view.coverage[auto]
           /\ shown \in ToSet(tiers) /\ (view.wanted \in ToSet(tiers) => shown = view.wanted)

From == 0
To == Max(Ticks \cup Minutes) + 1
Inside(gaps, a, b) == \E g \in ToSet(gaps) : g.from <= a /\ b <= g.to

\* However the minutes fill the gaps of the raw rows, a stretch without a row
\* is told as a gap as long as the step of a filling is exceeded, nothing
\* that was recorded lies in a gap, and no gap appears that was none before.
GapsStayGaps ==
    view.of = "gaps" =>
        LET filled == FillRawGaps(view.raw, view.minutes, From, To)
            before == IF view.raw = {} THEN <<Gap(From, To)>> ELSE RecordingGaps(view.raw, From, To)
            marks == InOrder(filled.rows \cup {From, To})
        IN /\ \A g \in ToSet(filled.gaps) :
                 Inside(before, g.from, g.to) /\ \A ts \in filled.rows : ~(g.from < ts /\ ts < g.to)
           /\ \A i \in 1 .. (Len(marks) - 1) :
                 Inside(before, marks[i], marks[i + 1]) /\ marks[i + 1] - marks[i] > FillStep
                   => Inside(filled.gaps, marks[i], marks[i + 1])

\* The line is broken after a point exactly when a gap begins before the next
\* one (withGapBreaks), and the flat ends drawn into the gaps never go back
\* in time and never join the value before a gap to the one after it
\* (gapStubs).
LinesBreakAtGaps ==
    view.of = "gaps" =>
        LET gaps == RecordingGaps(view.raw, From, To)
            times == InOrder(view.raw)
            stubs == GapStubs({<<ts, ts>> : ts \in view.raw}, ToSet(gaps), 2)
        IN /\ GapBreaks(times, gaps) =
                 {p \in 1 .. (Len(times) - 1) : \E g \in ToSet(gaps) : times[p] <= g.from /\ g.from < times[p + 1]}
           /\ \A i \in 1 .. (Len(stubs) - 1) :
                 /\ stubs[i][1] <= stubs[i + 1][1]
                 /\ stubs[i][2] # Absent /\ stubs[i + 1][2] # Absent => stubs[i][2] = stubs[i + 1][2]

\* A first question leaves nothing that is closed missing, and once it was
\* answered it is not asked again while the bucket at the limit is the same,
\* although the peer has recorded more since, unless the open part has grown by
\* what is worth a question ("entstuende aus dem Vergleich eine Dauerschleife
\* aus Nachfragen", history-coverage.js:47).
AnsweredIsNotAskedAgain ==
    view.of = "plan" =>
        LET now == Max(Times) + 1
            settled == 1
            Cutoff(t) == IF view.tier = "1m" THEN t - settled ELSE Absent
            Limit(t) == (t - (IF view.tier = "1m" THEN settled ELSE 0)) \div Step[view.tier]
            Of(census) == [t \in DOMAIN Step |-> IF t = view.tier THEN [s \in {"s"} |-> census] ELSE <<>>]
            Ask(own, peer, a, t) ==
                Plans(Of(Census(view.tier, own, t)), [p \in {"p"} |-> Of(Census(view.tier, peer, t))], t, Absent, t - settled,
                      IF a = Absent THEN <<>> ELSE [k \in {<<"p", view.tier, "s">>} |-> a])
        IN \A job \in Ask(view.own, view.peer, Absent, now) :
              LET got == view.own \cup {ts \in view.peer : \E r \in ToSet(job.ranges) : r[1] <= ts /\ ts < r[2]}
                  end == Max({r[2] : r \in ToSet(job.ranges)})
                  soon == now + view.later
                  left == MissingRanges(Census(view.tier, got, now), Census(view.tier, view.peer, now), now, Cutoff(now))
              IN /\ Limit(soon) = Limit(now) /\ view.later < MinOpen /\ Cutoff(now) \in {Absent, end} =>
                       Ask(got, view.peer \cup now .. (soon - 1), end, soon) = {}
                 /\ \A r \in ToSet(left) : Cutoff(now) # Absent /\ r[2] > Cutoff(now) - MinOpen

=============================================================================
