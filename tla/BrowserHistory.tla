---------------------------- MODULE BrowserHistory ----------------------------
(***************************************************************************)
(* The history a browser records                                            *)
(* (dashboard/internal/webui/static/js: history-recorder.js,                *)
(* history-maintenance.js and the transactions of history-store.js).        *)
(*                                                                         *)
(* The tabs of a browser share one database of three tiers.  The tab that   *)
(* holds the web lock, the leader, records samples and maintains the tiers; *)
(* deliveries of other devices arrive meanwhile, the leader's tab closes    *)
(* anywhere and another takes over, and a maintenance run may overlap the   *)
(* one before it.  Every transaction is one step.  Tabs that do not lead    *)
(* only read.                                                               *)
(*                                                                         *)
(* A row stands for the samples it was computed from; a row of another      *)
(* device stands for none of ours.                                          *)
(***************************************************************************)
EXTENDS Integers, FiniteSets

CONSTANTS
  Runs,          \* maintenance runs that may overlap (bound)
  NoSample,      \* no sample in hand
  Minute, FiveMinutes,                \* widths of the buckets
  RawWindow, MinuteWindow, Grace,     \* how old rows are before they are compacted
  RawBytes, RollupBytes,              \* what a row costs
  Configs,       \* settings: [mode, retention, budget]
  EvictChunk,    \* how much more an eviction by size takes per round
  MaxClock,      \* bound on time
  MaxEvents      \* bound on closed tabs, deliveries, full disks, changed settings and
                 \* overlapping runs together

ASSUME WidthAssumption == /\ Minute \in Nat \ {0} /\ FiveMinutes \in Nat \ {0}
                          /\ FiveMinutes % Minute = 0
ASSUME CostAssumption == RawBytes \in Nat \ {0} /\ RollupBytes \in Nat \ {0}
ASSUME TimeAssumption == /\ MaxClock \in Nat /\ EvictChunk \in Nat \ {0}
                         /\ RawWindow \in Nat /\ MinuteWindow \in Nat /\ Grace \in Nat
ASSUME ConfigAssumption == \A c \in Configs : c.retention \in Nat /\ c.budget \in Nat

VARIABLES
  clock,
  rows,      \* the database: tier -> time -> samples
  bytes,     \* its byte account
  marks,     \* the watermarks and the paused flag kept in the meta store
  config,    \* the settings in force
  leading,   \* whether a tab holds the lock
  ready,     \* whether its bootstrap is done
  paused,    \* whether it has stopped recording
  sampling,  \* the sample it has fetched and not written yet, or NoSample
  runs,      \* maintenance runs: [place, stage, now, config, to, read]
  samples,   \* history: every sample ever written
  evicted,   \* history: how far rows were evicted
  events     \* how many of the bounded events happened

tabVars == <<leading, ready, paused, sampling>>
browserVars == <<clock, rows, bytes, marks, config, tabVars, runs, samples, evicted, events>>

Tiers == {"raw", "1m", "5m"}
Places == {"idle", "read", "write", "delete", "mark", "evict", "evicting", "evicted"}
NoRun == [place |-> "idle"]

RowBytes(tier) == IF tier = "raw" THEN RawBytes ELSE RollupBytes

BucketStart(ts, width) == (ts \div width) * width

--------------------------------------------------------------------------
(* Transactions of the store: rows and the byte account change together.    *)

\* Mutant: a row that is written again is paid again.
MutPut(tier, new) ==
  /\ rows' = [rows EXCEPT ![tier] =
                [ts \in DOMAIN rows[tier] \cup DOMAIN new |->
                   IF ts \in DOMAIN new THEN new[ts] ELSE rows[tier][ts]]]
  /\ bytes' = bytes + RowBytes(tier) * Cardinality(DOMAIN new)

\* put(): rows replace what has their key; only new keys cost bytes.
Put(tier, new) ==
  /\ rows' = [rows EXCEPT ![tier] =
                [ts \in DOMAIN rows[tier] \cup DOMAIN new |->
                   IF ts \in DOMAIN new THEN new[ts] ELSE rows[tier][ts]]]
  /\ bytes' = bytes + RowBytes(tier) * Cardinality(DOMAIN new \ DOMAIN rows[tier])

\* Only rows whose key is missing: received rows never replace own ones.
WriteMissing(tier, new) ==
  LET missing == DOMAIN new \ DOMAIN rows[tier]
  IN /\ rows' = [rows EXCEPT ![tier] =
                   [ts \in DOMAIN rows[tier] \cup missing |->
                      IF ts \in missing THEN new[ts] ELSE rows[tier][ts]]]
     /\ bytes' = bytes + RowBytes(tier) * Cardinality(missing)

Delete(tier, keys) ==
  LET gone == keys \cap DOMAIN rows[tier]
      left == bytes - RowBytes(tier) * Cardinality(gone)
  IN /\ rows' = [rows EXCEPT ![tier] = [ts \in DOMAIN rows[tier] \ gone |-> rows[tier][ts]]]
     /\ bytes' = IF left < 0 THEN 0 ELSE left

\* Both ends included.
ReadRange(tier, from, to) ==
  [ts \in {k \in DOMAIN rows[tier] : from <= k /\ k <= to} |-> rows[tier][ts]]

\* One row per bucket, for all samples of the rows read.
Bucket(read, width) ==
  [start \in {BucketStart(ts, width) : ts \in DOMAIN read} |->
     UNION {read[ts] : ts \in {k \in DOMAIN read : BucketStart(k, width) = start}}]

--------------------------------------------------------------------------
(* The recorder: leadership, samples, a full disk.                          *)

Happens == events < MaxEvents /\ events' = events + 1

\* The lock goes to a waiting tab; its bootstrap reads the paused flag and takes one sample.
BecomeLeader ==
  /\ ~leading /\ leading' = TRUE
  /\ paused' = marks.paused
  /\ UNCHANGED <<clock, rows, bytes, marks, config, ready, sampling, runs, samples, evicted, events>>

\* The snapshot's time is the server's at the fetch.
CollectFetch ==
  /\ leading /\ sampling = NoSample /\ ~paused
  /\ sampling' = clock
  /\ UNCHANGED <<clock, rows, bytes, marks, config, leading, ready, paused, runs, samples,
                 evicted, events>>

CollectWrite ==
  /\ sampling # NoSample
  /\ Put("raw", [ts \in {sampling} |-> {sampling}])
  /\ samples' = samples \cup {sampling}
  /\ sampling' = NoSample
  /\ UNCHANGED <<clock, marks, config, leading, ready, paused, runs, evicted, events>>

\* A fetch that fails, or a database that is full and pauses the recording.
CollectFails(full) ==
  /\ sampling # NoSample
  /\ sampling' = NoSample
  /\ paused' = (paused \/ full)
  /\ marks' = IF full THEN [marks EXCEPT !.paused = TRUE] ELSE marks
  /\ IF full THEN Happens ELSE UNCHANGED events
  /\ UNCHANGED <<clock, rows, bytes, config, leading, ready, runs, samples, evicted>>

Resume ==
  /\ leading /\ paused
  /\ paused' = FALSE
  /\ marks' = [marks EXCEPT !.paused = FALSE]
  /\ UNCHANGED <<clock, rows, bytes, config, leading, ready, sampling, runs, samples,
                 evicted, events>>

\* Closing the leader's tab frees the lock and ends what it was doing.
CloseTab ==
  /\ leading /\ leading' = FALSE /\ Happens
  /\ ready' = FALSE /\ paused' = FALSE /\ sampling' = NoSample
  /\ runs' = [r \in Runs |-> NoRun]
  /\ UNCHANGED <<clock, rows, bytes, marks, config, samples, evicted>>

ApplyConfig(c) ==
  /\ config' = c /\ c # config /\ Happens
  /\ UNCHANGED <<clock, rows, bytes, marks, tabVars, runs, samples, evicted>>

\* Rows of another device, written by the exchange.
Delivered(tier, ts) ==
  /\ leading /\ ready /\ Happens
  /\ WriteMissing(tier, [k \in {ts} |-> {}])
  /\ UNCHANGED <<clock, marks, config, tabVars, runs, samples, evicted>>

--------------------------------------------------------------------------
(* Maintenance: three compactions, one after the other, then the eviction.  *)

Source(stage) == IF stage = "minute" THEN "1m" ELSE "raw"
Target(stage) == IF stage = "minute" THEN "5m" ELSE "1m"
Width(stage) == IF stage = "minute" THEN FiveMinutes ELSE Minute
Age(stage) == CASE stage = "raw" -> RawWindow [] stage = "exchange" -> Grace
                [] stage = "minute" -> MinuteWindow

After(run) ==
  CASE run.stage = "raw" -> [run EXCEPT !.stage = "exchange", !.place = "read"]
    [] run.stage = "exchange" -> [run EXCEPT !.stage = "minute", !.place = "read"]
    [] run.stage = "minute" -> [run EXCEPT !.place = "evict"]

Unread == [ts \in {} |-> {}]

\* By the timer every minute, and once in the bootstrap; nothing keeps two from overlapping.
StartRun(r) ==
  /\ leading /\ runs[r] = NoRun
  /\ runs' = [runs EXCEPT ![r] = [place |-> "read", stage |-> "raw", now |-> clock,
                                  config |-> config, to |-> 0, read |-> Unread]]
  /\ IF \A q \in Runs : runs[q] = NoRun THEN UNCHANGED events ELSE Happens
  /\ UNCHANGED <<clock, rows, bytes, marks, config, tabVars, samples, evicted>>

At(r, place) == runs[r].place = place

\* Mutant: the rows are deleted before what they were compacted to is written.
MutCompactRead(r) ==
  /\ At(r, "read")
  /\ LET run == runs[r]
         to == run.now - Age(run.stage)
         read == ReadRange(Source(run.stage), marks[run.stage], to)
     IN runs' = [runs EXCEPT ![r] =
                   IF to <= marks[run.stage] THEN After(run)
                   ELSE [run EXCEPT !.to = to, !.read = read,
                                    !.place = IF read = Unread THEN "mark"
                                              ELSE IF run.stage = "raw" THEN "delete" ELSE "write"]]
  /\ UNCHANGED <<clock, rows, bytes, marks, config, tabVars, samples, evicted, events>>

\* From the mark to the edge of the window; an empty range only moves the mark.
CompactRead(r) ==
  /\ At(r, "read")
  /\ LET run == runs[r]
         to == run.now - Age(run.stage)
         read == ReadRange(Source(run.stage), marks[run.stage], to)
     IN runs' = [runs EXCEPT ![r] =
                   IF to <= marks[run.stage] THEN After(run)
                   ELSE [run EXCEPT !.to = to, !.read = read,
                                    !.place = IF read = Unread THEN "mark" ELSE "write"]]
  /\ UNCHANGED <<clock, rows, bytes, marks, config, tabVars, samples, evicted, events>>

CompactWrite(r) ==
  /\ At(r, "write")
  /\ Put(Target(runs[r].stage), Bucket(runs[r].read, Width(runs[r].stage)))
  /\ runs' = [runs EXCEPT ![r].place = IF runs[r].stage = "exchange" THEN "mark" ELSE "delete"]
  /\ UNCHANGED <<clock, marks, config, tabVars, samples, evicted, events>>

\* Exactly the rows that were read.
CompactDelete(r) ==
  /\ At(r, "delete")
  /\ Delete(Source(runs[r].stage), DOMAIN runs[r].read)
  /\ runs' = [runs EXCEPT ![r].place = "mark"]
  /\ UNCHANGED <<clock, marks, config, tabVars, samples, evicted, events>>

CompactMark(r) ==
  /\ At(r, "mark")
  /\ marks' = [marks EXCEPT ![runs[r].stage] = runs[r].to]
  /\ runs' = [runs EXCEPT ![r] = [After(runs[r]) EXCEPT !.read = Unread]]
  /\ UNCHANGED <<clock, rows, bytes, config, tabVars, samples, evicted, events>>

AllKeys == UNION {DOMAIN rows[tier] : tier \in Tiers}

Oldest == CHOOSE ts \in AllKeys : \A k \in AllKeys : ts <= k

Newest == CHOOSE ts \in AllKeys : \A k \in AllKeys : ts >= k

\* By time: everything up to the retention.  By size: chunk after chunk until nine tenths
\* of the budget are met.
EvictBegin(r) ==
  /\ At(r, "evict")
  /\ LET run == runs[r]
         cutoff == run.now - run.config.retention
         byTime == run.config.mode = "time"
         needed == IF byTime THEN cutoff > marks.evicted
                   ELSE bytes > run.config.budget /\ AllKeys # {}
     IN runs' = [runs EXCEPT ![r] =
                   IF ~needed THEN NoRun
                   ELSE [place |-> "evicting", tier |-> "raw", config |-> run.config,
                         cutoff |-> IF byTime THEN cutoff ELSE Oldest + EvictChunk,
                         newest |-> IF byTime THEN cutoff ELSE Newest]]
  /\ UNCHANGED <<clock, rows, bytes, marks, config, tabVars, samples, evicted, events>>

NextTier(tier) == IF tier = "raw" THEN "1m" ELSE "5m"

EvictTier(r) ==
  /\ At(r, "evicting")
  /\ LET run == runs[r]
     IN /\ Delete(run.tier, {ts \in DOMAIN rows[run.tier] : ts <= run.cutoff})
        /\ evicted' = IF run.cutoff > evicted THEN run.cutoff ELSE evicted
        /\ runs' = [runs EXCEPT ![r] = IF run.tier = "5m" THEN [run EXCEPT !.place = "evicted"]
                                       ELSE [run EXCEPT !.tier = NextTier(run.tier)]]
  /\ UNCHANGED <<clock, marks, config, tabVars, samples, events>>

EvictEnd(r) ==
  /\ At(r, "evicted")
  /\ LET run == runs[r]
         byTime == run.config.mode = "time"
         enough == byTime \/ 10 * bytes <= 9 * run.config.budget \/ run.cutoff >= run.newest
     IN /\ marks' = IF byTime THEN [marks EXCEPT !.evicted = run.cutoff] ELSE marks
        /\ runs' = [runs EXCEPT ![r] =
                      IF enough THEN NoRun
                      ELSE [run EXCEPT !.place = "evicting", !.tier = "raw",
                                       !.cutoff = run.cutoff + EvictChunk]]
  /\ UNCHANGED <<clock, rows, bytes, config, tabVars, samples, evicted, events>>

\* The first sample was tried and the first maintenance is over: the exchange may start.
Ready ==
  /\ leading /\ ~ready /\ sampling = NoSample /\ \A r \in Runs : runs[r] = NoRun
  /\ ready' = TRUE
  /\ UNCHANGED <<clock, rows, bytes, marks, config, leading, paused, sampling, runs,
                 samples, evicted, events>>

ClockTick ==
  /\ clock < MaxClock
  /\ clock' = clock + 1
  /\ UNCHANGED <<rows, bytes, marks, config, tabVars, runs, samples, evicted, events>>

--------------------------------------------------------------------------
BrowserInit ==
  /\ clock = 0
  /\ rows = [tier \in Tiers |-> Unread]
  /\ bytes = 0
  /\ marks = [raw |-> 0, exchange |-> 0, minute |-> 0, evicted |-> 0, paused |-> FALSE]
  /\ config \in Configs
  /\ leading = FALSE /\ ready = FALSE /\ paused = FALSE /\ sampling = NoSample
  /\ runs = [r \in Runs |-> NoRun]
  /\ samples = {} /\ evicted = -1
  /\ events = 0

Maintain(r) ==
  \/ CompactRead(r) \/ CompactWrite(r) \/ CompactDelete(r) \/ CompactMark(r)
  \/ EvictBegin(r) \/ EvictTier(r) \/ EvictEnd(r)

BrowserNext ==
  \/ BecomeLeader \/ CloseTab
  \/ CollectFetch \/ CollectWrite \/ \E full \in BOOLEAN : CollectFails(full)
  \/ Resume \/ Ready \/ ClockTick
  \/ \E c \in Configs : ApplyConfig(c)
  \/ \E tier \in {"1m", "5m"}, ts \in 0..clock :
        ts % Width(IF tier = "1m" THEN "raw" ELSE "minute") = 0 /\ Delivered(tier, ts)
  \/ \E r \in Runs : StartRun(r) \/ Maintain(r)

BrowserSpec == BrowserInit /\ [][BrowserNext]_browserVars

--------------------------------------------------------------------------
Cost(tier) == RowBytes(tier) * Cardinality(DOMAIN rows[tier])

\* The state has the shape the code gives it; compacted rows lie on the multiples of
\* their bucket, so that those of two devices have the same keys.
BrowserTypeOK ==
  /\ clock \in 0..MaxClock
  /\ \A tier \in Tiers : /\ DOMAIN rows[tier] \subseteq 0..MaxClock
                         /\ \A ts \in DOMAIN rows[tier] : rows[tier][ts] \subseteq samples
  /\ \A ts \in DOMAIN rows["1m"] : ts % Minute = 0
  /\ \A ts \in DOMAIN rows["5m"] : ts % FiveMinutes = 0
  /\ bytes \in Nat
  /\ config \in Configs /\ leading \in BOOLEAN /\ sampling \in 0..MaxClock \cup {NoSample}
  /\ samples \subseteq 0..MaxClock
  /\ \A r \in Runs : runs[r].place \in Places

\* The byte account is what the rows cost: the eviction by size can rely on it, whatever
\* was compacted, received, written again or cut off by a closed tab.
BytesTrue == bytes = Cost("raw") + Cost("1m") + Cost("5m")

\* A sample that was written is still represented: by its raw row, its minute or its five
\* minutes, unless an eviction has passed the start of its five minutes.  Compaction
\* writes, deletes and marks in separate transactions, and a tab may close between them.
NothingMissing ==
  \A s \in samples : \/ BucketStart(s, FiveMinutes) <= evicted
                      \/ s \in DOMAIN rows["raw"]
                      \/ BucketStart(s, Minute) \in DOMAIN rows["1m"]
                      \/ BucketStart(s, FiveMinutes) \in DOMAIN rows["5m"]
==============================================================================
