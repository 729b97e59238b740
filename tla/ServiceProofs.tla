----------------------------- MODULE ServiceProofs -----------------------------
(***************************************************************************)
(* Proofs about the parts MCServices composes: the balance the two engines   *)
(* act on (BalanceFeed), the trigger history (RuleHistory), the history a    *)
(* browser records (BrowserHistory) and the days of a window (Windows).      *)
(***************************************************************************)
EXTENDS MCServices, SequenceTheorems, FiniteSetTheorems, WellFoundedInduction, TLAPS

(***************************************************************************)
(* The two threads of BalanceFeed never let an engine act on a balance that *)
(* is too old, for any number of messages and any balance_max_age_s.         *)
(*                                                                         *)
(* The argument is the order of the accesses: the writer stores the value    *)
(* before its stamp, the reader reads the stamp before the value.  So the    *)
(* value read belongs to the message of the stamp that was checked or to a    *)
(* later one (Checked), and later messages have later stamps (Ordered).      *)
(***************************************************************************)

\* Stamps go to stored messages only, in the order of the messages.
Ordered ==
  /\ \A m \in Messages :
       stamps[m] # -1 => /\ 0 < m /\ m <= lastBalance
                         /\ stamps[m] <= now
  /\ \A m, k \in Messages :
       m <= k /\ stamps[m] # -1 /\ stamps[k] # -1 => stamps[m] <= stamps[k]
  /\ network = "writing" => 0 < lastBalance /\ stamps[lastBalance] = -1

\* A stamp in last_balance_at is the stamp of a message.
StampKept(s) ==
  s.at # -1 => 0 < s.message /\ s.message <= lastBalance /\ stamps[s.message] = s.at

Checked ==
  /\ StampKept(lastBalanceAt)
  /\ StampKept(poll.checked)
  /\ poll.checked.at # -1 =>
       /\ scheduler = "rules_done" => poll.checked.message <= poll.rules
       /\ scheduler = "idle" => /\ poll.checked.message <= poll.rules
                                /\ poll.checked.message <= poll.scenarios

FeedInv == FeedTypeOK /\ Ordered /\ Checked

\* The feed starts with its invariant.
LEMMA FeedInitInv == FeedInit => FeedInv
  <1> SUFFICES ASSUME FeedInit PROVE FeedInv
    OBVIOUS
  <1>1. 0 \in Messages
    BY BoundsAssumption DEF Messages
  <1> QED
    BY <1>1, BoundsAssumption
    DEF FeedInit, FeedInv, FeedTypeOK, Ordered, Checked, StampKept, StampType, NoStamp, NoPoll, Messages

\* Every step of either thread keeps the invariant of the feed.
LEMMA FeedStepInv == FeedInv /\ [FeedNext]_feedVars => FeedInv'
  <1> SUFFICES ASSUME FeedInv, [FeedNext]_feedVars PROVE FeedInv'
    OBVIOUS
  <1> USE DEF FeedInv, FeedTypeOK, StampType, Messages
  <1>1. CASE WriteBalance
    <2>1. /\ lastBalance' = lastBalance + 1 /\ lastBalance + 1 \in Messages
          /\ UNCHANGED <<now, lastBalanceAt, stamps, scheduler, poll>>
      BY <1>1, BoundsAssumption DEF WriteBalance
    <2>2. stamps[lastBalance + 1] = -1
      BY <2>1 DEF Ordered
    <2>3. FeedTypeOK'
      BY <1>1, <2>1 DEF WriteBalance
    <2>4. Ordered'
      BY <1>1, <2>1, <2>2 DEF WriteBalance, Ordered
    <2>5. Checked'
      BY <2>1 DEF Checked, StampKept
    <2> QED BY <2>3, <2>4, <2>5
  <1>2. CASE WriteStamp
    <2>1. /\ network = "writing" /\ network' = "idle"
          /\ lastBalanceAt' = [message |-> lastBalance, at |-> now]
          /\ stamps' = [stamps EXCEPT ![lastBalance] = now]
          /\ UNCHANGED <<now, lastBalance, scheduler, poll>>
      BY <1>2 DEF WriteStamp, Stamp, Ordered
    <2>2. FeedTypeOK'
      BY <2>1
    <2>3. stamps[lastBalance] = -1 /\ 0 < lastBalance
      BY <2>1 DEF Ordered
    <2>4. Ordered'
      BY <2>1, <2>3 DEF Ordered
    <2>5. Checked'
      BY <2>1, <2>3 DEF Checked, StampKept, Ordered
    <2> QED BY <2>2, <2>4, <2>5
  <1>3. CASE ReadAge
    <2>1. /\ poll' = [now |-> now, checked |-> lastBalanceAt, rules |-> 0, scenarios |-> 0]
          /\ scheduler' = "aged"
          /\ UNCHANGED <<now, lastBalance, lastBalanceAt, stamps, network>>
      BY <1>3 DEF ReadAge, NoPoll
    <2> QED BY <2>1, BoundsAssumption DEF Ordered, Checked, StampKept
  <1>4. CASE RuleTick
    <2>1. /\ poll' = [poll EXCEPT !.rules = lastBalance]
          /\ scheduler' = "rules_done"
          /\ UNCHANGED <<now, lastBalance, lastBalanceAt, stamps, network>>
      BY <1>4 DEF RuleTick
    <2> QED BY <2>1 DEF Ordered, Checked, StampKept
  <1>5. CASE ScenarioTick
    <2>1. /\ poll' = [poll EXCEPT !.scenarios = lastBalance]
          /\ scheduler = "rules_done" /\ scheduler' = "idle"
          /\ UNCHANGED <<now, lastBalance, lastBalanceAt, stamps, network>>
      BY <1>5 DEF ScenarioTick
    <2> QED BY <2>1 DEF Ordered, Checked, StampKept
  <1>6. CASE FeedElapse
    <2>1. /\ now' = now + 1
          /\ UNCHANGED <<lastBalance, lastBalanceAt, stamps, network, scheduler, poll>>
      BY <1>6 DEF FeedElapse
    <2> QED BY <2>1 DEF Ordered, Checked, StampKept
  <1>7. CASE UNCHANGED feedVars
    BY <1>7 DEF feedVars, Ordered, Checked, StampKept
  <1> QED BY <1>1, <1>2, <1>3, <1>4, <1>5, <1>6, <1>7 DEF FeedNext

\* The value an engine acts on is no older than the stamp that was checked.
LEMMA LaterIsFresh ==
  ASSUME FeedInv, TakenForFresh, NEW m \in Messages, poll.checked.message <= m
  PROVE  m # 0 /\ Fresh(m)
  <1>1. 0 < poll.checked.message /\ stamps[poll.checked.message] = poll.checked.at
    BY DEF FeedInv, Checked, StampKept, TakenForFresh
  <1>2. poll.checked.message \in Messages /\ poll.checked.at \in Nat /\ poll.now \in Nat
    BY DEF FeedInv, FeedTypeOK, StampType, TakenForFresh
  <1>3. stamps[m] # -1 => poll.checked.at <= stamps[m]
    BY <1>1, <1>2 DEF FeedInv, Ordered
  <1>4. stamps[m] \in Nat \cup {-1} /\ m \in Nat
    BY DEF FeedInv, FeedTypeOK, Messages
  <1> QED BY <1>1, <1>2, <1>3, <1>4, BoundsAssumption DEF Fresh, TakenForFresh, Messages

\* Neither engine ever acts on a balance older than balance_max_age_s.
THEOREM FreshnessProof == FeedSpec => []ActsOnFreshBalance
  <1>1. FeedInv => ActsOnFreshBalance
    BY LaterIsFresh
    DEF ActsOnFreshBalance, FeedInv, FeedTypeOK, Checked, TakenForFresh
  <1> QED BY <1>1, FeedInitInv, FeedStepInv, PTL DEF FeedSpec

--------------------------------------------------------------------------------
(***************************************************************************)
(* Proofs about RuleHistory, for every set of rules, every limit and any     *)
(* number of entries: type correctness, and that one undisturbed record      *)
(* leaves the file as memory is.                                            *)
(*                                                                         *)
(* FileIsCurrent speaks of quiet states only.  What carries it through a     *)
(* record is Writing: an undisturbed record that has begun its dump has      *)
(* copied nothing but what memory still holds.                               *)
(***************************************************************************)

\* What thread t has copied so far is what memory holds.
CopiesMemory(t) ==
  \/ thread[t].at \in {"inserted", "trimmed"} /\ thread[t].copy = Empty
  \/ /\ thread[t].at = "dumping" /\ thread[t].keys = Keys(items)
     /\ \A r \in Rules : thread[t].copy[r] \in {<<>>, items[r]}
  \/ thread[t].at = "replacing" /\ thread[t].copy = items

Writing ==
  \E t \in Threads : thread[t] # Idle /\ Alone(t) /\ path /\ CopiesMemory(t)

Current == undisturbed => (Quiet /\ file = items) \/ Writing

HistoryInv == HistoryTypeOK /\ Current

-----------------------------------------------------------------------------
(***************************************************************************)
(* Type correctness.                                                        *)
(***************************************************************************)
LEMMA IdleType == Idle \in Recording /\ Empty \in Histories
  <1>1. <<>> \in Seq(1..MaxEntries)
    OBVIOUS
  <1>2. Empty \in Histories
    BY <1>1 DEF Empty, Histories
  <1> QED BY <1>2 DEF Idle, Recording

\* Cutting a list leaves a list of entries.
LEMMA LimitedType ==
  ASSUME NEW S, NEW list \in Seq(S), NEW limit \in Nat
  PROVE  Limited(list, limit) \in Seq(S)
  <1> DEFINE n == IF Len(list) < limit THEN Len(list) ELSE limit
  <1>1. Len(list) \in Nat
    OBVIOUS
  <1>2. n \in 0..Len(list)
    BY <1>1
  <1>3. SubSeq(list, 1, n) \in Seq(S)
    <2> HIDE DEF n
    <2>1. n \in Nat /\ n <= Len(list)
      BY <1>1, <1>2
    <2>2. \A i \in 1..n : list[i] \in S
      BY <1>1, <2>1
    <2> QED BY <2>1, <2>2, SubSeqProperties
  <1> QED BY <1>3 DEF Limited

\* The history starts with its types.
LEMMA HistoryInitType == HistoryInit => HistoryTypeOK
  BY IdleType, InputAssumption DEF HistoryInit, HistoryTypeOK, Settings, Threads, Idle

\* Every step of a recording thread, a reload or a restart keeps the types.
LEMMA HistoryStepType == HistoryTypeOK /\ [HistoryNext]_historyVars => HistoryTypeOK'
  <1> SUFFICES ASSUME HistoryTypeOK, [HistoryNext]_historyVars PROVE HistoryTypeOK'
    OBVIOUS
  <1>1. ASSUME NEW t \in Recorders, NEW r \in Rules, Insert(t, r) PROVE HistoryTypeOK'
    <2>1. recorded \in Nat /\ recorded < MaxEntries /\ recorded + 1 \in 1..MaxEntries
      BY <1>1, InputAssumption DEF Insert, HistoryTypeOK
    <2>2. items[r] \in Seq(1..MaxEntries)
      BY DEF HistoryTypeOK, Histories
    <2>3. <<recorded + 1>> \o items[r] \in Seq(1..MaxEntries)
      BY <2>1, <2>2
    <2>4. items' \in Histories
      BY <1>1, <2>3 DEF Insert, HistoryTypeOK, Histories
    <2>5. settings.limit \in Nat
      BY InputAssumption DEF HistoryTypeOK, Settings
    <2>6. [Idle EXCEPT !.at = "inserted", !.rule = r, !.limit = settings.limit] \in Recording
      BY <2>5, IdleType DEF Recording, Idle
    <2>7. thread' \in [Threads -> Recording]
      BY <1>1, <2>6 DEF Insert, HistoryTypeOK
    <2>8. \A u \in Threads : thread'[u].at = "inserted" => thread'[u].rule \in Rules
      BY <1>1 DEF Insert, HistoryTypeOK, Idle
    <2>9. recorded' \in 0..MaxEntries /\ undisturbed' \in BOOLEAN
      BY <1>1, <2>1 DEF Insert, HistoryTypeOK, Alone
    <2> QED BY <1>1, <2>4, <2>7, <2>8, <2>9 DEF Insert, HistoryTypeOK
  <1>2. ASSUME NEW t \in Threads, NEW r \in Rules, DumpOne(t, r) PROVE HistoryTypeOK'
    <2>1. [thread[t].copy EXCEPT ![r] = items[r]] \in Histories
      BY DEF HistoryTypeOK, Recording, Histories
    <2>2. [thread[t] EXCEPT !.copy = [thread[t].copy EXCEPT ![r] = items[r]]] \in Recording
      BY <2>1 DEF HistoryTypeOK, Recording
    <2>3. thread' = [thread EXCEPT ![t] =
                      [thread[t] EXCEPT !.copy = [thread[t].copy EXCEPT ![r] = items[r]]]]
      BY <1>2 DEF DumpOne
    <2>4. thread' \in [Threads -> Recording]
      BY <2>2, <2>3 DEF HistoryTypeOK
    <2>5. \A u \in Threads : thread'[u].at = thread[u].at /\ thread'[u].rule = thread[u].rule
      BY <2>3 DEF HistoryTypeOK, Recording
    <2> QED BY <1>2, <2>4, <2>5 DEF DumpOne, HistoryTypeOK
  <1>3. ASSUME NEW t \in Threads, Trim(t) PROVE HistoryTypeOK'
    <2>1. thread[t].rule \in Rules /\ thread[t].limit \in Nat
      BY <1>3 DEF Trim, HistoryTypeOK, Recording
    <2>2. Limited(items[thread[t].rule], thread[t].limit) \in Seq(1..MaxEntries)
      BY <2>1, LimitedType DEF HistoryTypeOK, Histories
    <2>3. items' \in Histories
      BY <1>3, <2>1, <2>2 DEF Trim, HistoryTypeOK, Histories
    <2>4. thread' \in [Threads -> Recording]
      BY <1>3 DEF Trim, HistoryTypeOK, Recording
    <2>5. \A u \in Threads : thread'[u].at = "inserted" => thread'[u].rule \in Rules
      BY <1>3 DEF Trim, HistoryTypeOK, Recording
    <2> QED BY <1>3, <2>3, <2>4, <2>5 DEF Trim, HistoryTypeOK
  <1>4. ASSUME NEW t \in Threads, BeginDump(t) PROVE HistoryTypeOK'
    <2>1. Keys(items) \in SUBSET Rules
      BY DEF Keys
    <2>2. [thread[t] EXCEPT !.at = "dumping", !.keys = Keys(items)] \in Recording
      BY <2>1 DEF HistoryTypeOK, Recording
    <2>3. thread' \in [Threads -> Recording]
      BY <1>4, <2>2, IdleType DEF BeginDump, HistoryTypeOK
    <2>4. \A u \in Threads : thread'[u].at = "inserted" => thread'[u].rule \in Rules
      BY <1>4 DEF BeginDump, HistoryTypeOK, Recording, Idle
    <2> QED BY <1>4, <2>3, <2>4 DEF BeginDump, HistoryTypeOK
  <1>5. ASSUME NEW t \in Threads, WalkFails(t) PROVE HistoryTypeOK'
    BY <1>5, IdleType DEF WalkFails, HistoryTypeOK, Idle
  <1>6. ASSUME NEW t \in Threads, EndDump(t) PROVE HistoryTypeOK'
    <2>1. thread' \in [Threads -> Recording]
      BY <1>6 DEF EndDump, HistoryTypeOK, Recording
    <2>2. \A u \in Threads : thread'[u].at = "inserted" => thread'[u].rule \in Rules
      BY <1>6 DEF EndDump, HistoryTypeOK, Recording
    <2> QED BY <1>6, <2>1, <2>2 DEF EndDump, HistoryTypeOK
  <1>7. ASSUME NEW t \in Threads, Replace(t) PROVE HistoryTypeOK'
    <2>1. file' \in Histories
      BY <1>7 DEF Replace, HistoryTypeOK, Recording
    <2> QED BY <1>7, <2>1, IdleType DEF Replace, HistoryTypeOK, Idle
  <1>8. ASSUME NEW s \in Settings, Reload(s) PROVE HistoryTypeOK'
    BY <1>8, InputAssumption DEF Reload, HistoryTypeOK, Settings, Quiet
  <1>9. ASSUME NEW s \in Settings, Restart(s) PROVE HistoryTypeOK'
    BY <1>9, IdleType, InputAssumption DEF Restart, HistoryTypeOK, Settings, Idle
  <1>10. CASE UNCHANGED historyVars
    BY <1>10 DEF HistoryTypeOK, historyVars
  <1> QED BY <1>1, <1>2, <1>3, <1>4, <1>5, <1>6, <1>7, <1>8, <1>9, <1>10 DEF HistoryNext

\* Every variable has its type in every reachable state.
THEOREM HistoryTypeInvariance == HistorySpec => []HistoryTypeOK
  BY HistoryInitType, HistoryStepType, PTL DEF HistorySpec

-----------------------------------------------------------------------------
(***************************************************************************)
(* The file.                                                                *)
(***************************************************************************)
\* Where a record is under way, the state is not quiet, and it is the only one.
LEMMA OneWriter ==
  ASSUME HistoryTypeOK, Current, undisturbed, NEW t \in Threads, thread[t] # Idle
  PROVE  Alone(t) /\ path /\ CopiesMemory(t)
  BY DEF Current, Quiet, Writing, Alone, Threads

\* Every step keeps what copy and memory have in common.
LEMMA HistoryStepCurrent == HistoryInv /\ [HistoryNext]_historyVars => Current'
  <1> SUFFICES ASSUME HistoryInv, [HistoryNext]_historyVars, undisturbed' PROVE ((Quiet /\ file = items) \/ Writing)'
    BY DEF Current
  <1>0. HistoryTypeOK /\ Current
    BY DEF HistoryInv
  <1>1. ASSUME NEW t \in Recorders, NEW r \in Rules, Insert(t, r) PROVE Writing'
    <2>1. t \in Threads
      BY InputAssumption
    <2>2. /\ thread'[t].at = "inserted" /\ thread'[t].copy = Empty
          /\ \A u \in Threads \ {t} : thread'[u] = thread[u]
      BY <1>0, <1>1, <2>1 DEF Insert, HistoryTypeOK, Idle
    <2>3. Alone(t) /\ path'
      BY <1>1 DEF Insert
    <2>4. thread'[t] # Idle
      BY <2>2 DEF Idle
    <2>5. Alone(t)'
      BY <2>2, <2>3 DEF Alone
    <2> QED BY <2>1, <2>2, <2>3, <2>4, <2>5 DEF Writing, CopiesMemory
  <1>2. ASSUME NEW t \in Threads, NEW r \in Rules, DumpOne(t, r) PROVE Writing'
    <2>1. thread[t] # Idle /\ undisturbed
      BY <1>2 DEF DumpOne, Idle
    <2>2. Alone(t) /\ path /\ CopiesMemory(t)
      BY <1>0, <2>1, OneWriter
    <2>3. thread' = [thread EXCEPT ![t] =
                      [thread[t] EXCEPT !.copy = [thread[t].copy EXCEPT ![r] = items[r]]]]
      BY <1>2 DEF DumpOne
    <2>4. /\ thread[t].at = "dumping" /\ thread[t].keys = Keys(items)
          /\ \A q \in Rules : thread[t].copy[q] \in {<<>>, items[q]}
          /\ thread[t].copy \in [Rules -> Seq(1..MaxEntries)] /\ thread[t] \in Recording
      BY <1>0, <1>2, <2>2 DEF CopiesMemory, DumpOne, HistoryTypeOK, Recording, Histories
    <2>5. /\ thread'[t].at = "dumping" /\ thread'[t].keys = Keys(items)
          /\ thread'[t].copy = [thread[t].copy EXCEPT ![r] = items[r]]
      BY <1>0, <2>3, <2>4 DEF HistoryTypeOK, Recording
    <2>6. \A q \in Rules : thread'[t].copy[q] \in {<<>>, items[q]}
      BY <2>4, <2>5
    <2>7. CopiesMemory(t)' /\ thread'[t] # Idle
      BY <1>2, <2>5, <2>6 DEF CopiesMemory, DumpOne, Keys, Idle
    <2>8. Alone(t)' /\ path'
      BY <1>0, <1>2, <2>2, <2>3 DEF Alone, DumpOne, HistoryTypeOK
    <2> QED BY <2>7, <2>8 DEF Writing
  <1>3. ASSUME NEW t \in Threads, Trim(t) PROVE Writing'
    <2>1. thread[t] # Idle /\ undisturbed
      BY <1>3 DEF Trim, Idle
    <2>2. Alone(t) /\ path /\ thread[t].copy = Empty
      BY <1>0, <1>3, <2>1, OneWriter DEF CopiesMemory, Trim
    <2>3. /\ thread'[t].at = "trimmed" /\ thread'[t].copy = thread[t].copy
          /\ \A u \in Threads \ {t} : thread'[u] = thread[u]
      BY <1>0, <1>3 DEF Trim, HistoryTypeOK, Recording
    <2>4. Alone(t)' /\ path' /\ thread'[t] # Idle
      BY <1>3, <2>2, <2>3 DEF Trim, Alone, Idle
    <2> QED BY <2>2, <2>3, <2>4 DEF Writing, CopiesMemory
  <1>4. ASSUME NEW t \in Threads, BeginDump(t) PROVE Writing'
    <2>1. thread[t] # Idle /\ undisturbed
      BY <1>4 DEF BeginDump, Idle
    <2>2. Alone(t) /\ path /\ CopiesMemory(t)
      BY <1>0, <2>1, OneWriter
    <2>3. thread' = [thread EXCEPT ![t] =
                      [thread[t] EXCEPT !.at = "dumping", !.keys = Keys(items)]]
      BY <1>4, <2>2 DEF BeginDump
    <2>4. /\ thread'[t].at = "dumping" /\ thread'[t].keys = Keys(items)
          /\ thread'[t].copy = thread[t].copy
          /\ \A u \in Threads \ {t} : thread'[u] = thread[u]
      BY <1>0, <2>3 DEF HistoryTypeOK, Recording
    <2>5. \A q \in Rules : thread[t].copy[q] = <<>>
      BY <1>4, <2>2 DEF CopiesMemory, BeginDump, Empty
    <2>6. CopiesMemory(t)'
      BY <1>4, <2>4, <2>5 DEF CopiesMemory, BeginDump, Keys
    <2>7. thread'[t] # Idle /\ path'
      <3>1. path' = path
        BY <1>4 DEF BeginDump
      <3>2. thread'[t] # Idle
        BY <2>4 DEF Idle
      <3> QED BY <2>2, <3>1, <3>2
    <2>8. Alone(t)'
      BY <2>2, <2>4 DEF Alone
    <2> QED BY <2>6, <2>7, <2>8 DEF Writing
  <1>5. ASSUME NEW t \in Threads, WalkFails(t) PROVE FALSE
    <2>1. thread[t] # Idle /\ undisturbed
      BY <1>5 DEF WalkFails, Idle
    <2>2. CopiesMemory(t)
      BY <1>0, <2>1, OneWriter
    <2> QED BY <1>5, <2>2 DEF WalkFails, CopiesMemory
  <1>6. ASSUME NEW t \in Threads, EndDump(t) PROVE Writing'
    <2>1. thread[t] # Idle /\ undisturbed
      BY <1>6 DEF EndDump, Idle
    <2>2. Alone(t) /\ path /\ CopiesMemory(t)
      BY <1>0, <2>1, OneWriter
    <2>3. /\ thread[t].copy \in Histories /\ items \in Histories
          /\ \A q \in Rules : thread[t].copy[q] \in {<<>>, items[q]}
          /\ Keys(thread[t].copy) = Keys(items)
      BY <1>0, <1>6, <2>2 DEF CopiesMemory, EndDump, HistoryTypeOK, Recording
    <2>4. \A q \in Rules : thread[t].copy[q] = items[q]
      BY <2>3 DEF Keys
    <2>5. thread[t].copy = items
      BY <2>3, <2>4 DEF Histories
    <2>6. /\ thread'[t].at = "replacing" /\ thread'[t].copy = thread[t].copy
          /\ \A u \in Threads \ {t} : thread'[u] = thread[u]
      BY <1>0, <1>6 DEF EndDump, HistoryTypeOK, Recording
    <2>7. thread'[t] # Idle /\ path' /\ CopiesMemory(t)'
      BY <1>6, <2>2, <2>5, <2>6 DEF EndDump, Idle, CopiesMemory
    <2>8. Alone(t)'
      BY <2>2, <2>6 DEF Alone
    <2> QED BY <2>7, <2>8 DEF Writing
  <1>7. ASSUME NEW t \in Threads, Replace(t) PROVE (Quiet /\ file = items)'
    <2>1. thread[t] # Idle /\ undisturbed
      BY <1>7 DEF Replace, Idle
    <2>2. Alone(t) /\ path /\ CopiesMemory(t)
      BY <1>0, <2>1, OneWriter
    <2>3. file' = items'
      BY <1>7, <2>2 DEF Replace, CopiesMemory
    <2>4. \A u \in Threads : thread'[u] = Idle
      BY <1>0, <1>7, <2>2 DEF Replace, Alone, HistoryTypeOK
    <2> QED BY <2>3, <2>4 DEF Quiet
  <1>8. ASSUME NEW s \in Settings, Reload(s) PROVE (Quiet /\ file = items)'
    <2>1. undisturbed /\ Quiet
      BY <1>8 DEF Reload
    <2>2. file = items
      BY <1>0, <2>1 DEF Current, Quiet, Writing
    <2> QED BY <1>8, <2>1, <2>2 DEF Reload, Quiet
  <1>9. ASSUME NEW s \in Settings, Restart(s) PROVE (Quiet /\ file = items)'
    BY <1>9 DEF Restart, Quiet
  <1>10. CASE UNCHANGED historyVars
    BY <1>0, <1>10 DEF historyVars, Current, Quiet, Writing, Alone, CopiesMemory
  <1> QED BY <1>1, <1>2, <1>3, <1>4, <1>5, <1>6, <1>7, <1>8, <1>9, <1>10 DEF HistoryNext

\* The invariant holds when the program has started.
LEMMA HistoryInitInv == HistoryInit => HistoryInv
  BY HistoryInitType DEF HistoryInit, HistoryInv, Current, Quiet

\* Every step of either thread keeps it.
LEMMA HistoryStepInv == HistoryInv /\ [HistoryNext]_historyVars => HistoryInv'
  BY HistoryStepType, HistoryStepCurrent DEF HistoryInv

\* With no record under way the file holds what memory holds, if the last record was
\* undisturbed: for every set of rules and any number of records before it.
THEOREM FileIsCurrentProof == HistorySpec => []FileIsCurrent
  <1>1. HistoryInv => FileIsCurrent
    BY DEF HistoryInv, Current, FileIsCurrent, Quiet, Writing
  <1> QED BY <1>1, HistoryInitInv, HistoryStepInv, PTL DEF HistorySpec

-----------------------------------------------------------------------------
(***************************************************************************)
(* The history a browser records: its byte account, and no sample lost.     *)
(*                                                                         *)
(* A run reads, writes the coarse rows, deletes the fine ones it read and    *)
(* moves the mark, in transactions of its own, while other runs do the same. *)
(* MayDelete says why nothing is lost: when a run is about to delete, each   *)
(* row it read has its bucket, or the bucket of that bucket, or was evicted; *)
(* and Keeps, which every step does, leaves that so.  The widths must nest.  *)
(***************************************************************************)
Stages == {"raw", "exchange", "minute"}

\* What is kept of a time, if not its raw row: its five minutes, or its minute.
InFive(ts) ==
  BucketStart(ts, FiveMinutes) <= evicted \/ BucketStart(ts, FiveMinutes) \in DOMAIN rows["5m"]

InMinute(ts) == BucketStart(ts, Minute) \in DOMAIN rows["1m"] \/ InFive(ts)

\* The shape of a run before and in the eviction.
Compacting(run) ==
  /\ run = [place |-> run.place, stage |-> run.stage, now |-> run.now,
            config |-> run.config, to |-> run.to, read |-> run.read]
  /\ run.place \in {"read", "write", "delete", "mark", "evict"}
  /\ run.stage \in Stages /\ run.now \in Int /\ run.config \in Configs
  /\ IsFiniteSet(DOMAIN run.read) /\ DOMAIN run.read \subseteq Nat

Evicting(run) ==
  /\ run = [place |-> run.place, tier |-> run.tier, config |-> run.config,
            cutoff |-> run.cutoff, newest |-> run.newest]
  /\ run.place \in {"evicting", "evicted"}
  /\ run.tier \in Tiers /\ run.cutoff \in Int

RunIsWell(run) == run = NoRun \/ Compacting(run) \/ Evicting(run)

\* A run deletes only what a coarser tier holds already.
MayDelete(run) ==
  run.place = "delete" =>
    /\ run.stage \in {"raw", "minute"}
    /\ run.stage = "raw" => \A ts \in DOMAIN run.read : InMinute(ts)
    /\ run.stage = "minute" => \A ts \in DOMAIN run.read : InFive(ts)

RunsAreWell ==
  /\ runs = [r \in Runs |-> runs[r]]
  /\ \A r \in Runs : RunIsWell(runs[r]) /\ MayDelete(runs[r])

RowsAreFinite ==
  /\ rows = [tier \in Tiers |-> rows[tier]]
  /\ \A tier \in Tiers : IsFiniteSet(DOMAIN rows[tier]) /\ DOMAIN rows[tier] \subseteq Nat

TimesAreNumbers ==
  /\ clock \in Nat /\ sampling \in Nat \cup {NoSample} /\ samples \subseteq Nat
  /\ evicted \in Int /\ config \in Configs

\* The inductive invariant.
BrowserInv == TimesAreNumbers /\ RowsAreFinite /\ BytesTrue /\ NothingMissing /\ RunsAreWell

\* A set of numbers has a least one.
LEMMA LeastKey ==
  ASSUME NEW T \in SUBSET Nat, T # {}
  PROVE  \E m \in T : \A k \in T : m <= k
  <1>1. PICK m \in T : \A k \in T : ~ (<<k, m>> \in OpToRel(<, Nat))
    BY NatLessThanWellFounded, WFMin
  <1>2. \A k \in T : ~ (k < m)
    BY <1>1 DEF OpToRel
  <1> QED BY <1>2

\* A bucket starts at its sample or less than its width before.
LEMMA Division ==
  ASSUME NEW n \in Nat, NEW w \in Nat \ {0}
  PROVE  /\ n \div w \in Nat
         /\ BucketStart(n, w) \in Nat
         /\ BucketStart(n, w) <= n /\ n < BucketStart(n, w) + w
  <1>1. n \div w \in Nat
    OBVIOUS
  <1>2. n = w * (n \div w) + (n % w) /\ n % w \in 0..(w - 1)
    OBVIOUS
  <1> QED BY <1>1, <1>2 DEF BucketStart

\* Only one multiple of the width lies there.
LEMMA Quotient ==
  ASSUME NEW n \in Nat, NEW w \in Nat \ {0}, NEW q \in Nat, q * w <= n, n < q * w + w
  PROVE  n \div w = q
  <1> DEFINE p == n \div w
  <1>1. p \in Nat /\ p * w <= n /\ n < p * w + w
    BY Division DEF BucketStart
  <1> HIDE DEF p
  <1>2. ~(p < q)
    <2> SUFFICES ASSUME p + 1 <= q PROVE FALSE
      BY <1>1
    <2>1. (p + 1) * w <= q * w
      BY <1>1
    <2> QED BY <1>1, <2>1
  <1>3. ~(q < p)
    <2> SUFFICES ASSUME q + 1 <= p PROVE FALSE
      BY <1>1
    <2>1. (q + 1) * w <= p * w
      BY <1>1
    <2> QED BY <1>1, <2>1
  <1> QED BY <1>1, <1>2, <1>3 DEF p

\* Buckets of buckets are the wide buckets, when the widths divide.
LEMMA Nested ==
  ASSUME NEW n \in Nat, NEW w \in Nat \ {0}, NEW v \in Nat \ {0}, v % w = 0
  PROVE  BucketStart(BucketStart(n, w), v) = BucketStart(n, v)
  <1> DEFINE k == v \div w
  <1> DEFINE q == n \div v
  <1> DEFINE p == n \div w
  <1>1. v = k * w /\ k \in Nat
    OBVIOUS
  <1>2. /\ q \in Nat /\ q * v <= n /\ n < q * v + v
        /\ p \in Nat /\ p * w <= n /\ n < p * w + w
    BY Division DEF BucketStart
  <1> HIDE DEF k, q, p
  <1>3. q * v = (q * k) * w /\ q * k \in Nat
    BY <1>1, <1>2
  <1>4. q * k <= p
    <2> DEFINE m == q * k
    <2>1. m \in Nat /\ m * w < p * w + w
      BY <1>2, <1>3
    <2> HIDE DEF m
    <2> SUFFICES ASSUME p + 1 <= m PROVE FALSE
      BY <1>2, <2>1 DEF m
    <2>2. (p + 1) * w <= m * w
      BY <1>2, <2>1
    <2> QED BY <1>2, <2>1, <2>2
  <1>5. q * v <= p * w
    BY <1>2, <1>3, <1>4
  <1>6. p * w \in Nat
    BY <1>2
  <1>7. (p * w) \div v = q
    BY <1>2, <1>5, <1>6, Quotient
  <1> QED BY <1>7 DEF BucketStart, p, q
\* Compacting finitely many rows gives finitely many.
LEMMA BucketIsFinite ==
  ASSUME NEW read, NEW width, IsFiniteSet(DOMAIN read)
  PROVE  IsFiniteSet(DOMAIN Bucket(read, width))
  <1> DEFINE starts == {BucketStart(ts, width) : ts \in DOMAIN read}
  <1>1. DOMAIN Bucket(read, width) = starts
    BY DEF Bucket
  <1>2. [ts \in DOMAIN read |-> BucketStart(ts, width)] \in Surjection(DOMAIN read, starts)
    <2>1. [ts \in DOMAIN read |-> BucketStart(ts, width)] \in [DOMAIN read -> starts]
      OBVIOUS
    <2>2. \A t \in starts :
            \E s \in DOMAIN read : [ts \in DOMAIN read |-> BucketStart(ts, width)][s] = t
      OBVIOUS
    <2> QED BY <2>1, <2>2 DEF Surjection
  <1> QED BY <1>1, <1>2, FS_Surjection

\* Adding to a set and taking from it, counted.
LEMMA UnionAddsUp ==
  ASSUME NEW S, NEW T, IsFiniteSet(S), IsFiniteSet(T)
  PROVE  /\ IsFiniteSet(S \cup T)
         /\ Cardinality(S) \in Nat /\ Cardinality(T \ S) \in Nat
         /\ Cardinality(S \cup T) = Cardinality(S) + Cardinality(T \ S)
  <1>1. IsFiniteSet(T \ S)
    BY FS_Difference
  <1>2. Cardinality(S \cup (T \ S)) =
          Cardinality(S) + Cardinality(T \ S) - Cardinality(S \cap (T \ S))
    BY <1>1, FS_Union
  <1>3. S \cup T = S \cup (T \ S) /\ S \cap (T \ S) = {}
    OBVIOUS
  <1>4. Cardinality({}) = 0
    BY FS_EmptySet
  <1>5. Cardinality(S) \in Nat /\ Cardinality(T \ S) \in Nat
    BY <1>1, FS_CardinalityType
  <1>6. Cardinality(S \cup T) = Cardinality(S) + Cardinality(T \ S) - 0
    BY <1>2, <1>3, <1>4
  <1>7. IsFiniteSet(S \cup T)
    BY FS_Union
  <1> QED BY <1>5, <1>6, <1>7

\* The same for a difference.
LEMMA DifferenceAddsUp ==
  ASSUME NEW S, NEW T, IsFiniteSet(S)
  PROVE  /\ IsFiniteSet(S \ T)
         /\ Cardinality(S \ T) \in Nat /\ Cardinality(T \cap S) \in Nat
         /\ Cardinality(S) = Cardinality(S \ T) + Cardinality(T \cap S)
  <1>1. IsFiniteSet(S \ T) /\ Cardinality(S \ T) = Cardinality(S) - Cardinality(S \cap T)
    BY FS_Difference
  <1>2. IsFiniteSet(T \cap S) /\ T \cap S = S \cap T
    BY FS_Intersection
  <1>3. Cardinality(S) \in Nat /\ Cardinality(T \cap S) \in Nat /\ Cardinality(S \ T) \in Nat
    BY <1>1, <1>2, FS_CardinalityType
  <1>4. Cardinality(S \ T) = Cardinality(S) - Cardinality(T \cap S)
    BY <1>1, <1>2
  <1> QED BY <1>1, <1>3, <1>4

\* Costs are numbers.
LEMMA Costs ==
  ASSUME NEW tier
  PROVE  /\ RowBytes(tier) \in Nat
         /\ IsFiniteSet(DOMAIN rows[tier]) => Cost(tier) \in Nat
  <1>1. RowBytes(tier) \in Nat
    BY CostAssumption DEF RowBytes
  <1>2. ASSUME IsFiniteSet(DOMAIN rows[tier]) PROVE Cardinality(DOMAIN rows[tier]) \in Nat
    BY <1>2, FS_CardinalityType
  <1> QED BY <1>1, <1>2 DEF Cost

\* What one tier gains or loses, the account gains or loses.
LEMMA AccountFollows ==
  ASSUME RowsAreFinite, BytesTrue, NEW tier \in Tiers, NEW change \in Int,
         \A t \in Tiers \ {tier} : Cost(t)' = Cost(t), Cost(tier)' = Cost(tier) + change,
         bytes' = bytes + change
  PROVE  BytesTrue'
  <1>1. \A t \in Tiers : Cost(t) \in Nat
    BY Costs DEF RowsAreFinite
  <1> QED BY <1>1 DEF BytesTrue, Tiers

\* The transactions of the store: put(), the writing of missing rows, the deletion.
LEMMA PutAddsUp ==
  ASSUME RowsAreFinite, BytesTrue, NEW tier \in Tiers, NEW new,
         IsFiniteSet(DOMAIN new), DOMAIN new \subseteq Nat, Put(tier, new)
  PROVE  /\ (RowsAreFinite /\ BytesTrue)'
         /\ \A t \in Tiers : DOMAIN rows[t] \subseteq DOMAIN rows'[t]
         /\ DOMAIN new \subseteq DOMAIN rows'[tier]
  <1> DEFINE old == DOMAIN rows[tier]
  <1> DEFINE more == DOMAIN new \ old
  <1>1. /\ rows' = [t \in Tiers |-> rows'[t]]
        /\ DOMAIN rows'[tier] = old \cup DOMAIN new
        /\ \A t \in Tiers \ {tier} : rows'[t] = rows[t]
    BY DEF RowsAreFinite, Put
  <1>2. /\ IsFiniteSet(old \cup DOMAIN new)
        /\ Cardinality(old) \in Nat /\ Cardinality(more) \in Nat
        /\ Cardinality(old \cup DOMAIN new) = Cardinality(old) + Cardinality(more)
    BY UnionAddsUp DEF RowsAreFinite
  <1>3. RowsAreFinite'
    BY <1>1, <1>2 DEF RowsAreFinite
  <1>4. Cost(tier)' = RowBytes(tier) * (Cardinality(old) + Cardinality(more))
    BY <1>1, <1>2 DEF Cost, RowBytes
  <1>5. Cost(tier) = RowBytes(tier) * Cardinality(old) /\ RowBytes(tier) \in Nat
    BY Costs DEF Cost
  <1>6. /\ Cost(tier)' = Cost(tier) + RowBytes(tier) * Cardinality(more)
        /\ RowBytes(tier) * Cardinality(more) \in Int
    <2> HIDE DEF old, more
    <2> QED BY <1>2, <1>4, <1>5
  <1>7. \A t \in Tiers \ {tier} : Cost(t)' = Cost(t)
    BY <1>1 DEF Cost, RowBytes
  <1>8. bytes' = bytes + RowBytes(tier) * Cardinality(more)
    BY DEF Put
  <1>9. BytesTrue'
    <2> HIDE DEF more
    <2> QED BY <1>6, <1>7, <1>8, AccountFollows
  <1>10. \A t \in Tiers : DOMAIN rows[t] \subseteq DOMAIN rows'[t]
    BY <1>1
  <1> QED BY <1>1, <1>3, <1>9, <1>10

\* Writing what is missing is putting the missing rows.
LEMMA MissingAddsUp ==
  ASSUME RowsAreFinite, BytesTrue, NEW tier \in Tiers, NEW new,
         IsFiniteSet(DOMAIN new), DOMAIN new \subseteq Nat, WriteMissing(tier, new)
  PROVE  /\ (RowsAreFinite /\ BytesTrue)'
         /\ \A t \in Tiers : DOMAIN rows[t] \subseteq DOMAIN rows'[t]
  <1> DEFINE missing == [k \in DOMAIN new \ DOMAIN rows[tier] |-> new[k]]
  <1>1. /\ DOMAIN missing = DOMAIN new \ DOMAIN rows[tier]
        /\ IsFiniteSet(DOMAIN missing) /\ DOMAIN missing \subseteq Nat
    BY FS_Difference
  <1>2. Put(tier, missing)
    BY DEF Put, WriteMissing
  <1> HIDE DEF missing
  <1> QED BY <1>1, <1>2, PutAddsUp

\* The account is never below what is deleted, so it is not cut off at zero.
LEMMA DeleteAddsUp ==
  ASSUME RowsAreFinite, BytesTrue, NEW tier \in Tiers, NEW keys, Delete(tier, keys)
  PROVE  (RowsAreFinite /\ BytesTrue)'
  <1> DEFINE old == DOMAIN rows[tier]
  <1> DEFINE gone == keys \cap old
  <1>1. /\ rows' = [t \in Tiers |-> rows'[t]]
        /\ DOMAIN rows'[tier] = old \ gone
        /\ \A t \in Tiers \ {tier} : rows'[t] = rows[t]
    BY DEF RowsAreFinite, Delete
  <1>2. /\ IsFiniteSet(old \ gone)
        /\ Cardinality(old \ gone) \in Nat /\ Cardinality(gone) \in Nat
        /\ Cardinality(old) = Cardinality(old \ gone) + Cardinality(gone)
    <2>1. gone \cap old = gone
      OBVIOUS
    <2> QED BY <2>1, DifferenceAddsUp DEF RowsAreFinite
  <1>3. RowsAreFinite'
    BY <1>1, <1>2 DEF RowsAreFinite
  <1>4. Cost(tier)' = RowBytes(tier) * Cardinality(old \ gone)
    BY <1>1 DEF Cost, RowBytes
  <1>5. Cost(tier) = RowBytes(tier) * Cardinality(old) /\ RowBytes(tier) \in Nat
    BY Costs DEF Cost
  <1>6. /\ Cost(tier)' = Cost(tier) + (0 - RowBytes(tier) * Cardinality(gone))
        /\ RowBytes(tier) * Cardinality(gone) \in Nat
        /\ RowBytes(tier) * Cardinality(gone) <= Cost(tier)
    <2> HIDE DEF old, gone
    <2> QED BY <1>2, <1>4, <1>5
  <1>7. \A t \in Tiers \ {tier} : Cost(t)' = Cost(t)
    BY <1>1 DEF Cost, RowBytes
  <1>8. bytes \in Nat /\ Cost(tier) <= bytes
    <2>1. \A t \in Tiers : Cost(t) \in Nat
      BY Costs DEF RowsAreFinite
    <2> QED BY <2>1 DEF BytesTrue, Tiers
  <1>9. bytes' = bytes + (0 - RowBytes(tier) * Cardinality(gone))
    <2> DEFINE cost == RowBytes(tier) * Cardinality(gone)
    <2>1. bytes' = IF bytes - cost < 0 THEN 0 ELSE bytes - cost
      BY DEF Delete
    <2>2. cost \in Nat /\ cost <= bytes
      <3>1. cost \in Nat /\ cost <= Cost(tier)
        BY <1>6
      <3>2. Cost(tier) \in Nat
        BY Costs DEF RowsAreFinite
      <3> HIDE DEF cost, gone
      <3> QED BY <1>8, <3>1, <3>2
    <2> HIDE DEF cost, gone
    <2>3. bytes' = bytes + (0 - cost)
      BY <1>8, <2>1, <2>2
    <2> QED BY <2>3 DEF cost, gone
  <1>10. BytesTrue'
    <2> HIDE DEF gone
    <2> QED BY <1>6, <1>7, <1>9, AccountFollows
  <1> QED BY <1>3, <1>10

\* A step that leaves everything represented that was: by the same tier or a coarser one.
Keeps ==
  \A ts \in Nat : /\ InFive(ts) => InFive(ts)'
                  /\ InMinute(ts) => InMinute(ts)'
                  /\ ts \in DOMAIN rows["raw"] => ts \in DOMAIN rows'["raw"] \/ InMinute(ts)'

\* Rows that are added take nothing away.
LEMMA GrowingKeeps ==
  ASSUME \A tier \in Tiers : DOMAIN rows[tier] \subseteq DOMAIN rows'[tier], evicted' = evicted
  PROVE  Keeps
  BY DEF Keeps, InFive, InMinute, Tiers

\* Such a step loses no sample.
LEMMA SamplesStay ==
  ASSUME NothingMissing, Keeps, samples \subseteq Nat,
         \A s \in samples' : s \in samples \/ s \in DOMAIN rows'["raw"]
  PROVE  NothingMissing'
  BY DEF NothingMissing, Keeps, InMinute, InFive

\* Such a step takes no permission from the runs under way.
LEMMA PermissionStays ==
  ASSUME NEW run, RunIsWell(run), MayDelete(run), Keeps
  PROVE  MayDelete(run)'
  <1>1. CASE run.place # "delete"
    BY <1>1 DEF MayDelete
  <1>2. CASE run.place = "delete"
    <2>1. DOMAIN run.read \subseteq Nat
      BY <1>2 DEF RunIsWell, Compacting, Evicting, NoRun
    <2> QED BY <1>2, <2>1 DEF MayDelete, Keeps
  <1> QED BY <1>1, <1>2

\* Runs that do not move stay well, whatever is done to the rows.
LEMMA RunsStay ==
  ASSUME RunsAreWell, Keeps, runs' = runs
  PROVE  RunsAreWell'
  <1>1. ASSUME NEW q \in Runs PROVE RunIsWell(runs[q])' /\ MayDelete(runs[q])'
    <2>1. PICK old : old = runs[q]
      OBVIOUS
    <2>2. RunIsWell(old) /\ MayDelete(old)'
      BY <2>1, PermissionStays DEF RunsAreWell
    <2>3. runs'[q] = old
      BY <2>1
    <2> QED BY <2>2, <2>3
         DEF RunIsWell, Compacting, Evicting, MayDelete, InMinute, InFive, BucketStart
  <1> QED BY <1>1 DEF RunsAreWell

\* One run moves, the others stay.
LEMMA OneRunChanges ==
  ASSUME RunsAreWell, Keeps, NEW r \in Runs, NEW run, runs' = [runs EXCEPT ![r] = run],
         RunIsWell(run), MayDelete(run)'
  PROVE  RunsAreWell'
  <1>1. runs' = [q \in Runs |-> runs'[q]] /\ runs'[r] = run
    BY DEF RunsAreWell
  <1>2. \A q \in Runs \ {r} : runs'[q] = runs[q]
    BY DEF RunsAreWell
  <1>3. \A q \in Runs : RunIsWell(runs[q])'
    BY <1>1, <1>2 DEF RunsAreWell, RunIsWell, Compacting, Evicting, Stages, Tiers, NoRun
  <1>4. ASSUME NEW q \in Runs PROVE MayDelete(runs[q])'
    <2>1. CASE q = r
      BY <1>1, <2>1 DEF MayDelete, InMinute, InFive, BucketStart
    <2>2. CASE q # r
      <3>1. PICK old : old = runs[q]
        OBVIOUS
      <3>2. MayDelete(old)'
        BY <3>1, PermissionStays DEF RunsAreWell
      <3>3. runs'[q] = old
        BY <1>2, <2>2, <3>1
      <3> QED BY <3>2, <3>3 DEF MayDelete, InMinute, InFive, BucketStart
    <2> QED BY <2>1, <2>2
  <1> QED BY <1>1, <1>3, <1>4 DEF RunsAreWell

\* Every row read has its bucket.
LEMMA BucketKeys ==
  ASSUME NEW read, NEW width \in Nat \ {0}, IsFiniteSet(DOMAIN read), DOMAIN read \subseteq Nat
  PROVE  /\ IsFiniteSet(DOMAIN Bucket(read, width)) /\ DOMAIN Bucket(read, width) \subseteq Nat
         /\ \A ts \in DOMAIN read : BucketStart(ts, width) \in DOMAIN Bucket(read, width)
  <1>1. DOMAIN Bucket(read, width) = {BucketStart(ts, width) : ts \in DOMAIN read}
    BY DEF Bucket
  <1>2. \A ts \in DOMAIN read : BucketStart(ts, width) \in Nat
    BY Division
  <1> QED BY <1>1, <1>2, BucketIsFinite

\* Five minutes contain whole minutes, and a bucket starts where its samples are or before.
LEMMA BucketsNest ==
  ASSUME NEW ts \in Nat
  PROVE  /\ BucketStart(ts, Minute) \in Nat /\ BucketStart(ts, Minute) <= ts
         /\ BucketStart(ts, FiveMinutes) \in Nat
         /\ BucketStart(ts, FiveMinutes) <= BucketStart(ts, Minute)
         /\ BucketStart(BucketStart(ts, Minute), FiveMinutes) = BucketStart(ts, FiveMinutes)
  <1>1. BucketStart(ts, Minute) \in Nat /\ BucketStart(ts, Minute) <= ts
    BY WidthAssumption, Division
  <1>2. BucketStart(BucketStart(ts, Minute), FiveMinutes) = BucketStart(ts, FiveMinutes)
    BY WidthAssumption, Nested
  <1>3. /\ BucketStart(BucketStart(ts, Minute), FiveMinutes) \in Nat
        /\ BucketStart(BucketStart(ts, Minute), FiveMinutes) <= BucketStart(ts, Minute)
    BY <1>1, WidthAssumption, Division
  <1> QED BY <1>1, <1>2, <1>3

\* An empty database.
LEMMA BrowserInitInv == BrowserInit => BrowserInv
  <1> SUFFICES ASSUME BrowserInit PROVE BrowserInv
    OBVIOUS
  <1>1. TimesAreNumbers
    BY DEF BrowserInit, TimesAreNumbers
  <1>2. \A tier \in Tiers : DOMAIN rows[tier] = {}
    BY DEF BrowserInit, Unread
  <1>3. IsFiniteSet({}) /\ Cardinality({}) = 0
    BY FS_EmptySet
  <1>4. RowsAreFinite
    BY <1>2, <1>3 DEF RowsAreFinite, BrowserInit
  <1>5. BytesTrue
    <2>1. \A tier \in Tiers : Cost(tier) = 0
      BY <1>2, <1>3, CostAssumption DEF Cost, RowBytes
    <2> QED BY <2>1 DEF BytesTrue, Tiers, BrowserInit
  <1>6. NothingMissing
    BY DEF NothingMissing, BrowserInit
  <1>7. RunsAreWell
    BY DEF RunsAreWell, BrowserInit, RunIsWell, MayDelete, NoRun
  <1> QED BY <1>1, <1>4, <1>5, <1>6, <1>7 DEF BrowserInv

\* What a run may do next is well.
LEMMA NextStage ==
  ASSUME NEW run, Compacting(run)
  PROVE  Compacting(After(run)) /\ After(run).place # "delete"
  BY DEF Compacting, After, Stages

\* Reading.
LEMMA ReadStep ==
  ASSUME BrowserInv, NEW r \in Runs, CompactRead(r)
  PROVE  BrowserInv'
  <1> DEFINE run == runs[r]
  <1> DEFINE to == run.now - Age(run.stage)
  <1> DEFINE read == ReadRange(Source(run.stage), marks[run.stage], to)
  <1> DEFINE next == IF to <= marks[run.stage] THEN After(run)
                     ELSE [run EXCEPT !.to = to, !.read = read,
                                      !.place = IF read = Unread THEN "mark" ELSE "write"]
  <1>1. runs' = [runs EXCEPT ![r] = next]
    BY DEF CompactRead
  <1>2. UNCHANGED <<clock, rows, bytes, config, sampling, samples, evicted>>
    BY DEF CompactRead, tabVars
  <1>3. Compacting(run)
    BY DEF BrowserInv, RunsAreWell, RunIsWell, Evicting, NoRun, CompactRead, At
  <1>4. IsFiniteSet(DOMAIN read) /\ DOMAIN read \subseteq Nat
    <2>1. Source(run.stage) \in Tiers
      BY DEF Source, Tiers
    <2>2. DOMAIN read \subseteq DOMAIN rows[Source(run.stage)]
      BY DEF ReadRange
    <2>3. /\ IsFiniteSet(DOMAIN rows[Source(run.stage)])
          /\ DOMAIN rows[Source(run.stage)] \subseteq Nat
      BY <2>1 DEF BrowserInv, RowsAreFinite
    <2> HIDE DEF read
    <2> QED BY <2>2, <2>3, FS_Subset
  <1>5. Compacting(next) /\ next.place # "delete"
    <2>1. CASE to <= marks[run.stage]
      BY <1>3, <2>1, NextStage
    <2>2. CASE ~(to <= marks[run.stage])
      <3> HIDE DEF to, read
      <3> QED BY <1>3, <1>4, <2>2 DEF Compacting
    <2> QED BY <2>1, <2>2
  <1>6. Keeps
    BY <1>2, GrowingKeeps
  <1>7. RunsAreWell'
    <2> HIDE DEF next
    <2>1. PICK changed : changed = next
      OBVIOUS
    <2>2. RunIsWell(changed) /\ MayDelete(changed)'
      BY <1>5, <2>1 DEF RunIsWell, MayDelete
    <2> QED BY <1>1, <1>6, <2>1, <2>2, OneRunChanges DEF BrowserInv
  <1> QED BY <1>2, <1>7
      DEF BrowserInv, TimesAreNumbers, RowsAreFinite, BytesTrue, NothingMissing, Cost

\* Writing.
LEMMA WriteStep ==
  ASSUME BrowserInv, NEW r \in Runs, CompactWrite(r)
  PROVE  BrowserInv'
  <1> DEFINE run == runs[r]
  <1> DEFINE new == Bucket(run.read, Width(run.stage))
  <1> DEFINE next == [run EXCEPT !.place = IF run.stage = "exchange" THEN "mark" ELSE "delete"]
  <1>1. runs' = [runs EXCEPT ![r] = next]
    BY DEF CompactWrite
  <1>2. UNCHANGED <<clock, config, sampling, samples, evicted>>
    BY DEF CompactWrite, tabVars
  <1>3. Compacting(run)
    BY DEF BrowserInv, RunsAreWell, RunIsWell, Evicting, NoRun, CompactWrite, At
  <1>4. /\ IsFiniteSet(DOMAIN new) /\ DOMAIN new \subseteq Nat
        /\ \A ts \in DOMAIN run.read : BucketStart(ts, Width(run.stage)) \in DOMAIN new
    <2>1. Width(run.stage) \in Nat \ {0}
      BY WidthAssumption DEF Width
    <2> QED BY <1>3, <2>1, BucketKeys DEF Compacting
  <1>5. Target(run.stage) \in Tiers
    BY DEF Target, Tiers
  <1>6. Put(Target(run.stage), new)
    BY DEF CompactWrite
  <1> HIDE DEF new
  <1>7. (RowsAreFinite /\ BytesTrue)'
    BY <1>4, <1>5, <1>6, PutAddsUp DEF BrowserInv
  <1>8. /\ \A tier \in Tiers : DOMAIN rows[tier] \subseteq DOMAIN rows'[tier]
        /\ DOMAIN new \subseteq DOMAIN rows'[Target(run.stage)]
    BY <1>4, <1>5, <1>6, PutAddsUp DEF BrowserInv
  <1>9. Keeps
    BY <1>2, <1>8, GrowingKeeps
  <1>10. RunIsWell(next)
    BY <1>3 DEF RunIsWell, Compacting
  <1>11. next.read = run.read /\ next.stage = run.stage /\ next.stage \in Stages
         /\ (next.place = "delete" => next.stage # "exchange")
    BY <1>3 DEF Compacting
  <1>12. run.stage = "raw" =>
           \A ts \in DOMAIN run.read : BucketStart(ts, Minute) \in DOMAIN rows'["1m"]
    BY <1>4, <1>8 DEF Width, Target
  <1>13. run.stage = "minute" =>
           \A ts \in DOMAIN run.read : BucketStart(ts, FiveMinutes) \in DOMAIN rows'["5m"]
    BY <1>4, <1>8 DEF Width, Target
  <1>14. RunsAreWell'
    <2>1. PICK changed : changed = next
      OBVIOUS
    <2>2. changed.place = "delete" =>
            /\ changed.stage \in {"raw", "minute"}
            /\ changed.stage = "raw" =>
                 \A ts \in DOMAIN changed.read : BucketStart(ts, Minute) \in DOMAIN rows'["1m"]
            /\ changed.stage = "minute" =>
                 \A ts \in DOMAIN changed.read : BucketStart(ts, FiveMinutes) \in DOMAIN rows'["5m"]
      BY <1>11, <1>12, <1>13, <2>1 DEF Stages
    <2>3. MayDelete(changed)'
      BY <2>2 DEF MayDelete, InMinute, InFive
    <2>4. runs' = [runs EXCEPT ![r] = changed] /\ RunIsWell(changed)
      BY <1>1, <1>10, <2>1
    <2> QED BY <1>9, <2>3, <2>4, OneRunChanges DEF BrowserInv
  <1>15. NothingMissing'
    BY <1>2, <1>9, SamplesStay DEF BrowserInv, TimesAreNumbers
  <1> QED BY <1>2, <1>7, <1>14, <1>15 DEF BrowserInv, TimesAreNumbers

\* Deleting what was read and written.
LEMMA DeleteStep ==
  ASSUME BrowserInv, NEW r \in Runs, CompactDelete(r)
  PROVE  BrowserInv'
  <1> DEFINE run == runs[r]
  <1> DEFINE next == [run EXCEPT !.place = "mark"]
  <1>1. runs' = [runs EXCEPT ![r] = next]
    BY DEF CompactDelete
  <1>2. UNCHANGED <<clock, config, sampling, samples, evicted>>
    BY DEF CompactDelete, tabVars
  <1>3. Compacting(run)
    BY DEF BrowserInv, RunsAreWell, RunIsWell, Evicting, NoRun, CompactDelete, At
  <1>4. MayDelete(run) /\ run.place = "delete"
    BY DEF BrowserInv, RunsAreWell, CompactDelete, At
  <1>5. Delete(Source(run.stage), DOMAIN run.read) /\ Source(run.stage) \in Tiers
    BY DEF CompactDelete, Source, Tiers
  <1>6. (RowsAreFinite /\ BytesTrue)'
    BY <1>5, DeleteAddsUp DEF BrowserInv
  <1>7. /\ \A tier \in Tiers \ {Source(run.stage)} : rows'[tier] = rows[tier]
        /\ \A ts \in DOMAIN rows[Source(run.stage)] :
              ts \in DOMAIN run.read \/ ts \in DOMAIN rows'[Source(run.stage)]
    BY <1>5 DEF Delete, BrowserInv, RowsAreFinite
  <1>8. Keeps
    <2>1. CASE run.stage = "raw"
      BY <1>2, <1>4, <1>7, <2>1 DEF Keeps, InFive, InMinute, Source, Tiers, MayDelete
    <2>2. CASE run.stage = "minute"
      <3>1. /\ rows'["raw"] = rows["raw"] /\ rows'["5m"] = rows["5m"]
            /\ \A ts \in DOMAIN rows["1m"] : InFive(ts) \/ ts \in DOMAIN rows'["1m"]
        BY <1>4, <1>7, <2>2 DEF Source, Tiers, MayDelete
      <3>2. \A ts : InFive(ts)' = InFive(ts)
        BY <1>2, <3>1 DEF InFive
      <3>3. ASSUME NEW ts \in Nat, InMinute(ts) PROVE InMinute(ts)'
        <4>1. InFive(BucketStart(ts, Minute)) = InFive(ts)
          BY BucketsNest DEF InFive
        <4> QED BY <3>1, <3>2, <3>3, <4>1 DEF InMinute
      <3> QED BY <3>1, <3>2, <3>3 DEF Keeps
    <2> QED BY <1>4, <2>1, <2>2 DEF MayDelete
  <1>9. RunsAreWell'
    <2>1. PICK changed : changed = next
      OBVIOUS
    <2>2. Compacting(changed) /\ changed.place = "mark"
      BY <1>3, <2>1 DEF Compacting
    <2>3. RunIsWell(changed) /\ MayDelete(changed)'
      BY <2>2 DEF RunIsWell, MayDelete
    <2>4. runs' = [runs EXCEPT ![r] = changed]
      BY <1>1, <2>1
    <2> QED BY <1>8, <2>3, <2>4, OneRunChanges DEF BrowserInv
  <1>10. NothingMissing'
    BY <1>2, <1>8, SamplesStay DEF BrowserInv, TimesAreNumbers
  <1> QED BY <1>2, <1>6, <1>9, <1>10 DEF BrowserInv, TimesAreNumbers

\* Evicting a tier up to the cutoff.
LEMMA EvictStep ==
  ASSUME BrowserInv, NEW r \in Runs, EvictTier(r)
  PROVE  BrowserInv'
  <1> DEFINE run == runs[r]
  <1> DEFINE next == IF run.tier = "5m" THEN [run EXCEPT !.place = "evicted"]
                     ELSE [run EXCEPT !.tier = NextTier(run.tier)]
  <1>1. runs' = [runs EXCEPT ![r] = next]
    BY DEF EvictTier
  <1>2. UNCHANGED <<clock, config, sampling, samples>>
    BY DEF EvictTier, tabVars
  <1>3. Evicting(run)
    BY DEF BrowserInv, RunsAreWell, RunIsWell, Compacting, NoRun, EvictTier, At
  <1>4. Delete(run.tier, {ts \in DOMAIN rows[run.tier] : ts <= run.cutoff})
    BY DEF EvictTier
  <1>5. (RowsAreFinite /\ BytesTrue)'
    BY <1>3, <1>4, DeleteAddsUp DEF BrowserInv, Evicting
  <1>6. /\ evicted' \in Int /\ evicted <= evicted' /\ run.cutoff <= evicted' /\ evicted \in Int
        /\ run.cutoff \in Int
    BY <1>3 DEF EvictTier, Evicting, BrowserInv, TimesAreNumbers
  <1>7. \A tier \in Tiers :
          \A ts \in DOMAIN rows[tier] : ts <= run.cutoff \/ ts \in DOMAIN rows'[tier]
    BY <1>4 DEF Delete, BrowserInv, RowsAreFinite
  <1>8. Keeps
    <2> SUFFICES ASSUME NEW ts \in Nat
                 PROVE  /\ InFive(ts) => InFive(ts)'
                        /\ InMinute(ts) => InMinute(ts)'
                        /\ ts \in DOMAIN rows["raw"] => ts \in DOMAIN rows'["raw"] \/ InMinute(ts)'
      BY DEF Keeps
    <2> DEFINE minute == BucketStart(ts, Minute)
    <2> DEFINE five == BucketStart(ts, FiveMinutes)
    <2>1. minute \in Nat /\ minute <= ts /\ five \in Nat /\ five <= minute
      BY BucketsNest
    <2>2. five <= run.cutoff \/ five <= evicted => InFive(ts)'
      <3>1. five <= run.cutoff \/ five <= evicted => five <= evicted'
        <4> HIDE DEF five
        <4> QED BY <1>6, <2>1
      <3> QED BY <3>1 DEF InFive
    <2>3. InFive(ts) => InFive(ts)'
      BY <1>7, <2>2 DEF InFive, Tiers
    <2>4. minute <= run.cutoff => five <= run.cutoff
      <3> HIDE DEF minute, five
      <3> QED BY <1>6, <2>1
    <2>5. InMinute(ts) => InMinute(ts)'
      BY <1>7, <2>2, <2>3, <2>4 DEF InMinute, Tiers
    <2>6. ts <= run.cutoff => five <= run.cutoff
      <3> HIDE DEF minute, five
      <3> QED BY <1>6, <2>1
    <2>7. ts \in DOMAIN rows["raw"] => ts \in DOMAIN rows'["raw"] \/ InMinute(ts)'
      BY <1>7, <2>2, <2>6 DEF InMinute, Tiers
    <2> QED BY <2>3, <2>5, <2>7
  <1>9. RunsAreWell'
    <2>1. PICK changed : changed = next
      OBVIOUS
    <2>2. Evicting(changed)
      BY <1>3, <2>1 DEF Evicting, NextTier, Tiers
    <2>3. RunIsWell(changed) /\ MayDelete(changed)'
      BY <2>2 DEF RunIsWell, MayDelete, Evicting
    <2>4. runs' = [runs EXCEPT ![r] = changed]
      BY <1>1, <2>1
    <2> QED BY <1>8, <2>3, <2>4, OneRunChanges DEF BrowserInv
  <1>10. NothingMissing'
    BY <1>2, <1>8, SamplesStay DEF BrowserInv, TimesAreNumbers
  <1> QED BY <1>2, <1>5, <1>6, <1>9, <1>10 DEF BrowserInv, TimesAreNumbers

\* The steps of a run that change no rows: it marks what it did, and plans an eviction.
LEMMA PlanStep ==
  ASSUME BrowserInv, NEW r \in Runs, CompactMark(r) \/ EvictBegin(r) \/ EvictEnd(r)
  PROVE  BrowserInv'
  <1>1. UNCHANGED <<clock, rows, bytes, config, sampling, samples, evicted>>
    BY DEF CompactMark, EvictBegin, EvictEnd, tabVars
  <1>2. Keeps
    BY <1>1, GrowingKeeps
  <1>3. PICK changed : /\ runs' = [runs EXCEPT ![r] = changed]
                   /\ RunIsWell(changed) /\ changed.place # "delete"
    <2>1. CASE CompactMark(r)
      <3> DEFINE next == [After(runs[r]) EXCEPT !.read = Unread]
      <3>1. Compacting(runs[r])
        BY <2>1 DEF BrowserInv, RunsAreWell, RunIsWell, Evicting, NoRun, CompactMark, At
      <3>2. Compacting(After(runs[r])) /\ After(runs[r]).place # "delete"
        BY <3>1, NextStage
      <3>3. IsFiniteSet(DOMAIN Unread) /\ DOMAIN Unread = {}
        BY FS_EmptySet DEF Unread
      <3>4. Compacting(next) /\ next.place # "delete"
        BY <3>2, <3>3 DEF Compacting
      <3>5. runs' = [runs EXCEPT ![r] = next]
        BY <2>1 DEF CompactMark
      <3> QED BY <3>4, <3>5 DEF RunIsWell
    <2>2. CASE EvictBegin(r)
      <3> DEFINE run == runs[r]
      <3> DEFINE byTime == run.config.mode = "time"
      <3> DEFINE cutoff == IF byTime THEN run.now - run.config.retention ELSE Oldest + EvictChunk
      <3> DEFINE newest == IF byTime THEN run.now - run.config.retention ELSE Newest
      <3> DEFINE next == [place |-> "evicting", tier |-> "raw", config |-> run.config,
                          cutoff |-> cutoff, newest |-> newest]
      <3>1. Compacting(run)
        BY <2>2 DEF BrowserInv, RunsAreWell, RunIsWell, Evicting, NoRun, EvictBegin, At
      <3>2. \/ runs' = [runs EXCEPT ![r] = NoRun]
            \/ runs' = [runs EXCEPT ![r] = next] /\ (byTime \/ AllKeys # {})
        BY <2>2 DEF EvictBegin
      <3>3. AllKeys # {} => Oldest \in Nat
        <4>1. AllKeys \in SUBSET Nat
          BY DEF AllKeys, BrowserInv, RowsAreFinite
        <4>2. AllKeys # {} => \E m \in AllKeys : \A k \in AllKeys : m <= k
          BY <4>1, LeastKey
        <4> QED BY <4>1, <4>2 DEF Oldest
      <3>4. byTime \/ AllKeys # {} => cutoff \in Int
        BY <3>1, <3>3, ConfigAssumption, TimeAssumption DEF Compacting
      <3>5. byTime \/ AllKeys # {} => Evicting(next)
        <4> HIDE DEF cutoff, newest, byTime
        <4> QED BY <3>4 DEF Evicting, Tiers
      <3>6. next.place # "delete" /\ NoRun.place # "delete"
        BY DEF NoRun
      <3> HIDE DEF next
      <3> QED BY <3>2, <3>5, <3>6 DEF RunIsWell
    <2>3. CASE EvictEnd(r)
      <3> DEFINE run == runs[r]
      <3> DEFINE next == [run EXCEPT !.place = "evicting", !.tier = "raw",
                                     !.cutoff = run.cutoff + EvictChunk]
      <3>1. Evicting(run)
        BY <2>3 DEF BrowserInv, RunsAreWell, RunIsWell, Compacting, NoRun, EvictEnd, At
      <3>2. runs' = [runs EXCEPT ![r] = NoRun] \/ runs' = [runs EXCEPT ![r] = next]
        BY <2>3 DEF EvictEnd
      <3>3. run.cutoff + EvictChunk \in Int
        BY <3>1, TimeAssumption DEF Evicting
      <3>4. PICK changed : changed = next
        OBVIOUS
      <3>5. Evicting(changed)
        BY <3>1, <3>3, <3>4 DEF Evicting, Tiers
      <3> HIDE DEF next
      <3> QED BY <3>2, <3>4, <3>5 DEF RunIsWell, Evicting, NoRun
    <2> QED BY <2>1, <2>2, <2>3
  <1>4. RunsAreWell'
    <2>1. MayDelete(changed)'
      BY <1>3 DEF MayDelete
    <2> QED BY <1>2, <1>3, <2>1, OneRunChanges DEF BrowserInv
  <1> QED BY <1>1, <1>4
      DEF BrowserInv, TimesAreNumbers, RowsAreFinite, BytesTrue, NothingMissing, Cost

\* Rows from outside of the maintenance: a sample, or rows of another device.
LEMMA CollectStep ==
  ASSUME BrowserInv,
         CollectWrite \/ \E tier \in {"1m", "5m"}, ts \in 0..clock : Delivered(tier, ts)
  PROVE  BrowserInv'
  <1>1. /\ UNCHANGED <<clock, config, runs, evicted>>
        /\ sampling' \in Nat \cup {NoSample} /\ samples' \subseteq Nat
    BY DEF CollectWrite, Delivered, tabVars, BrowserInv, TimesAreNumbers
  <1>2. ASSUME NEW ts \in Nat PROVE IsFiniteSet({ts})
    BY FS_Singleton
  <1>3. /\ (RowsAreFinite /\ BytesTrue)'
        /\ \A tier \in Tiers : DOMAIN rows[tier] \subseteq DOMAIN rows'[tier]
        /\ \A s \in samples' : s \in samples \/ s \in DOMAIN rows'["raw"]
    <2>1. CASE CollectWrite
      <3> DEFINE new == [ts \in {sampling} |-> {sampling}]
      <3>1. DOMAIN new = {sampling} /\ sampling \in Nat /\ samples' = samples \cup {sampling}
        BY <2>1 DEF CollectWrite, BrowserInv, TimesAreNumbers
      <3>2. Put("raw", new) /\ "raw" \in Tiers
        BY <2>1 DEF CollectWrite, Tiers
      <3> HIDE DEF new
      <3>3. IsFiniteSet(DOMAIN new) /\ DOMAIN new \subseteq Nat
        BY <1>2, <3>1
      <3> QED BY <3>1, <3>2, <3>3, PutAddsUp DEF BrowserInv
    <2>2. ASSUME NEW tier \in {"1m", "5m"}, NEW ts \in 0..clock, Delivered(tier, ts)
          PROVE  /\ (RowsAreFinite /\ BytesTrue)' /\ samples' = samples
                 /\ \A t \in Tiers : DOMAIN rows[t] \subseteq DOMAIN rows'[t]
      <3> DEFINE new == [k \in {ts} |-> {}]
      <3>1. DOMAIN new = {ts} /\ ts \in Nat /\ samples' = samples
        BY <2>2 DEF Delivered, BrowserInv, TimesAreNumbers
      <3>2. WriteMissing(tier, new) /\ tier \in Tiers
        BY <2>2 DEF Delivered, Tiers
      <3> HIDE DEF new
      <3>3. IsFiniteSet(DOMAIN new) /\ DOMAIN new \subseteq Nat
        BY <1>2, <3>1
      <3> QED BY <3>1, <3>2, <3>3, MissingAddsUp DEF BrowserInv
    <2> QED BY <2>1, <2>2
  <1>4. Keeps
    BY <1>1, <1>3, GrowingKeeps
  <1>5. NothingMissing'
    BY <1>3, <1>4, SamplesStay DEF BrowserInv, TimesAreNumbers
  <1>6. RunsAreWell'
    BY <1>1, <1>4, RunsStay DEF BrowserInv
  <1> QED BY <1>1, <1>3, <1>5, <1>6 DEF BrowserInv, TimesAreNumbers

\* What a tab does without touching the rows.
LEMMA TabStep ==
  ASSUME BrowserInv,
         \/ BecomeLeader \/ CloseTab \/ CollectFetch \/ \E full \in BOOLEAN : CollectFails(full)
         \/ Resume \/ Ready \/ ClockTick \/ \E c \in Configs : ApplyConfig(c)
         \/ \E r \in Runs : StartRun(r)
         \/ UNCHANGED browserVars
  PROVE  BrowserInv'
  <1>1. UNCHANGED <<rows, bytes, samples, evicted>>
    BY DEF BecomeLeader, CloseTab, CollectFetch, CollectFails, Resume, Ready, ClockTick,
           ApplyConfig, StartRun, browserVars
  <1>2. clock' \in Nat /\ sampling' \in Nat \cup {NoSample} /\ config' \in Configs
    BY DEF BrowserInv, TimesAreNumbers, BecomeLeader, CloseTab, CollectFetch, CollectFails, Resume,
           Ready, ClockTick, ApplyConfig, StartRun, tabVars, browserVars
  <1>3. Keeps
    BY <1>1, GrowingKeeps
  <1>4. RunsAreWell'
    <2>1. ASSUME NEW r \in Runs, StartRun(r) PROVE RunsAreWell'
      <3>1. PICK changed : changed = [place |-> "read", stage |-> "raw", now |-> clock,
                              config |-> config, to |-> 0, read |-> Unread]
        OBVIOUS
      <3>2. IsFiniteSet(DOMAIN Unread) /\ DOMAIN Unread = {}
        BY FS_EmptySet DEF Unread
      <3>3. Compacting(changed) /\ changed.place = "read"
        BY <3>1, <3>2 DEF Compacting, Stages, BrowserInv, TimesAreNumbers
      <3>4. RunIsWell(changed) /\ MayDelete(changed)'
        BY <3>3 DEF RunIsWell, MayDelete
      <3>5. runs' = [runs EXCEPT ![r] = changed]
        BY <2>1, <3>1 DEF StartRun
      <3> QED BY <1>3, <3>4, <3>5, OneRunChanges DEF BrowserInv
    <2>2. CASE CloseTab
      BY <2>2 DEF CloseTab, RunsAreWell, RunIsWell, MayDelete, NoRun
    <2>3. CASE runs' = runs
      BY <1>3, <2>3, RunsStay DEF BrowserInv
    <2> QED
      BY <2>1, <2>2, <2>3 DEF BecomeLeader, CollectFetch, CollectFails, Resume, Ready, ClockTick,
         ApplyConfig, browserVars
  <1> QED BY <1>1, <1>2, <1>4
      DEF BrowserInv, TimesAreNumbers, RowsAreFinite, BytesTrue, NothingMissing, Cost

\* Every step of every tab keeps the invariant.
LEMMA BrowserStepInv == BrowserInv /\ [BrowserNext]_browserVars => BrowserInv'
  <1> SUFFICES ASSUME BrowserInv, [BrowserNext]_browserVars PROVE BrowserInv'
    OBVIOUS
  <1>1. ASSUME NEW r \in Runs, Maintain(r) PROVE BrowserInv'
    BY <1>1, ReadStep, WriteStep, DeleteStep, EvictStep, PlanStep DEF Maintain
  <1> QED BY <1>1, CollectStep, TabStep DEF BrowserNext

\* The byte account is what the rows cost, for any number of overlapping maintenance runs,
\* closed tabs, full disks and deliveries, and any widths and windows.
THEOREM BytesTrueProof == BrowserSpec => []BytesTrue
  <1>1. BrowserInv => BytesTrue
    BY DEF BrowserInv
  <1> QED BY <1>1, BrowserInitInv, BrowserStepInv, PTL DEF BrowserSpec

\* No sample is lost between the tiers, for the same: a tier is thinned out only after the
\* coarser one has taken over, whichever runs overlap and wherever a tab closes.
THEOREM NothingMissingProof == BrowserSpec => []NothingMissing
  <1>1. BrowserInv => NothingMissing
    BY DEF BrowserInv
  <1> QED BY <1>1, BrowserInitInv, BrowserStepInv, PTL DEF BrowserSpec
--------------------------------------------------------------------------
(***************************************************************************)
(* Types of the browser's history.  Whatever is written into a tier was in  *)
(* it, is a sample, or was computed from rows a run read; and rows that      *)
(* were read hold samples that were written before.                          *)
(***************************************************************************)
\* Rows at times of the clock that stand for samples that were written.
OfSamples(read) ==
  DOMAIN read \subseteq 0..MaxClock /\ \A ts \in DOMAIN read : read[ts] \subseteq samples

TiersHoldSamples ==
  /\ \A tier \in Tiers : OfSamples(rows[tier])
  /\ \A ts \in DOMAIN rows["1m"] : ts % Minute = 0
  /\ \A ts \in DOMAIN rows["5m"] : ts % FiveMinutes = 0

ReadsHoldSamples == \A r \in Runs : runs[r].place = "write" => OfSamples(runs[r].read)

TabsAreTyped ==
  /\ clock \in 0..MaxClock /\ leading \in BOOLEAN
  /\ sampling \in 0..MaxClock \cup {NoSample} /\ samples \subseteq 0..MaxClock

SampleInv == TabsAreTyped /\ TiersHoldSamples /\ ReadsHoldSamples

\* Where the rows of a step come from: they were there, or they are new ones of one tier.
ComeFrom(tier, new) ==
  \A t \in Tiers : \A ts \in DOMAIN rows'[t] :
    \/ ts \in DOMAIN rows[t] /\ rows'[t][ts] = rows[t][ts]
    \/ t = tier /\ ts \in DOMAIN new /\ rows'[t][ts] = new[ts]

\* The three transactions write nothing else.
LEMMA TransactionsAdd ==
  ASSUME RowsAreFinite, NEW tier \in Tiers, NEW new, NEW keys
  PROVE  /\ Put(tier, new) => ComeFrom(tier, new)
         /\ WriteMissing(tier, new) => ComeFrom(tier, new)
         /\ Delete(tier, keys) => ComeFrom(tier, Unread)
  <1>1. rows = [t \in Tiers |-> rows[t]]
    BY DEF RowsAreFinite
  <1>2. Put(tier, new) => ComeFrom(tier, new)
    BY <1>1 DEF Put, ComeFrom
  <1>3. WriteMissing(tier, new) => ComeFrom(tier, new)
    BY <1>1 DEF WriteMissing, ComeFrom
  <1>4. Delete(tier, keys) => ComeFrom(tier, Unread)
    BY <1>1 DEF Delete, ComeFrom
  <1> QED BY <1>2, <1>3, <1>4

\* New rows of samples, on the multiples of the tier's width, leave the tiers as they should be.
LEMMA TiersStay ==
  ASSUME TiersHoldSamples, NEW tier \in Tiers, NEW new, ComeFrom(tier, new),
         samples \subseteq samples',
         DOMAIN new \subseteq 0..MaxClock, \A ts \in DOMAIN new : new[ts] \subseteq samples',
         tier = "1m" => \A ts \in DOMAIN new : ts % Minute = 0,
         tier = "5m" => \A ts \in DOMAIN new : ts % FiveMinutes = 0
  PROVE  TiersHoldSamples'
  <1>1. ASSUME NEW t \in Tiers, NEW ts \in DOMAIN rows'[t]
        PROVE  ts \in 0..MaxClock /\ rows'[t][ts] \subseteq samples'
    <2>1. CASE ts \in DOMAIN rows[t] /\ rows'[t][ts] = rows[t][ts]
      BY <2>1 DEF TiersHoldSamples, OfSamples
    <2>2. CASE ts \in DOMAIN new /\ rows'[t][ts] = new[ts]
      BY <2>2
    <2> QED BY <1>1, <2>1, <2>2 DEF ComeFrom
  <1>2. \A ts \in DOMAIN rows'["1m"] : ts % Minute = 0
    BY DEF ComeFrom, TiersHoldSamples, Tiers
  <1>3. \A ts \in DOMAIN rows'["5m"] : ts % FiveMinutes = 0
    BY DEF ComeFrom, TiersHoldSamples, Tiers
  <1> QED BY <1>1, <1>2, <1>3 DEF TiersHoldSamples, OfSamples

\* A bucket starts on a multiple of its width.
LEMMA OnMultiples ==
  ASSUME NEW n \in Nat, NEW w \in Nat \ {0}
  PROVE  BucketStart(n, w) % w = 0
  <1> DEFINE q == n \div w
             x == q * w
  <1>1. q \in Nat /\ x \in Nat
    BY Division DEF BucketStart
  <1> HIDE DEF q
  <1>2. x \div w = q
    BY <1>1, Quotient
  <1>3. x = w * (x \div w) + (x % w) /\ x % w \in 0..(w - 1)
    BY <1>1
  <1>4. x % w = 0
    BY <1>1, <1>2, <1>3
  <1> QED BY <1>4 DEF BucketStart, q

\* Buckets of rows of samples are rows of samples.
LEMMA BucketsHoldSamples ==
  ASSUME NEW read, OfSamples(read), NEW width \in Nat \ {0}, MaxClock \in Nat
  PROVE  /\ OfSamples(Bucket(read, width))
         /\ \A ts \in DOMAIN Bucket(read, width) : ts % width = 0
  <1> DEFINE new == Bucket(read, width)
  <1>1. DOMAIN new = {BucketStart(ts, width) : ts \in DOMAIN read}
    BY DEF Bucket
  <1>2. ASSUME NEW ts \in DOMAIN read
        PROVE  BucketStart(ts, width) \in 0..MaxClock /\ BucketStart(ts, width) % width = 0
    <2>1. ts \in Nat /\ ts <= MaxClock
      BY DEF OfSamples
    <2>2. BucketStart(ts, width) \in Nat /\ BucketStart(ts, width) <= ts
      BY <2>1, Division
    <2> QED BY <2>1, <2>2, OnMultiples
  <1>3. ASSUME NEW start \in DOMAIN new PROVE new[start] \subseteq samples
    <2>1. new[start] = UNION {read[ts] : ts \in {k \in DOMAIN read : BucketStart(k, width) = start}}
      BY <1>1, <1>3 DEF Bucket
    <2> QED BY <2>1 DEF OfSamples
  <1> QED BY <1>1, <1>2, <1>3 DEF OfSamples

\* What a run has in hand stays read when samples are added and it does not move, or moves
\* to a place without a write ahead, or has just read.
LEMMA ReadsStay ==
  ASSUME RunsAreWell, ReadsHoldSamples, samples \subseteq samples', NEW r \in Runs, NEW run,
         runs' = [runs EXCEPT ![r] = run],
         run.place = "write" => OfSamples(run.read)
  PROVE  ReadsHoldSamples'
  <1>1. ASSUME NEW q \in Runs, runs'[q].place = "write"
        PROVE  /\ DOMAIN runs'[q].read \subseteq 0..MaxClock
               /\ \A ts \in DOMAIN runs'[q].read : runs'[q].read[ts] \subseteq samples'
    <2>1. CASE q = r
      <3>1. runs'[q] = run
        BY <2>1 DEF RunsAreWell
      <3> QED BY <1>1, <3>1 DEF OfSamples
    <2>2. CASE q # r
      <3>1. runs'[q] = runs[q]
        BY <2>2 DEF RunsAreWell
      <3> QED BY <1>1, <3>1 DEF ReadsHoldSamples, OfSamples
    <2> QED BY <2>1, <2>2
  <1> QED BY <1>1 DEF ReadsHoldSamples, OfSamples

\* Maintenance.
LEMMA MaintenanceKeepsTypes ==
  ASSUME BrowserInv, SampleInv, NEW r \in Runs, Maintain(r)
  PROVE  SampleInv'
  <1>1. UNCHANGED <<clock, leading, sampling, samples>>
    BY DEF Maintain, CompactRead, CompactWrite, CompactDelete, CompactMark, EvictBegin, EvictTier,
           EvictEnd, tabVars
  <1>2. TabsAreTyped'
    BY <1>1 DEF SampleInv, TabsAreTyped
  <1>3. CASE CompactRead(r)
    <2> DEFINE run == runs[r]
    <2> DEFINE to == run.now - Age(run.stage)
    <2> DEFINE read == ReadRange(Source(run.stage), marks[run.stage], to)
    <2> DEFINE next == IF to <= marks[run.stage] THEN After(run)
                       ELSE [run EXCEPT !.to = to, !.read = read,
                                        !.place = IF read = Unread THEN "mark" ELSE "write"]
    <2>1. runs' = [runs EXCEPT ![r] = next] /\ rows' = rows
      BY <1>3 DEF CompactRead
    <2>2. Compacting(run)
      BY <1>3 DEF BrowserInv, RunsAreWell, RunIsWell, Evicting, NoRun, CompactRead, At
    <2>3. OfSamples(read)
      BY DEF ReadRange, Source, Tiers, SampleInv, TiersHoldSamples, OfSamples
    <2>4. next.place = "write" => OfSamples(next.read)
      <3>1. CASE to <= marks[run.stage]
        BY <2>2, <3>1 DEF Compacting, After, Stages
      <3>2. CASE ~(to <= marks[run.stage])
        <4> HIDE DEF to, read
        <4> QED BY <2>2, <2>3, <3>2 DEF Compacting
      <3> QED BY <3>1, <3>2
    <2>5. ReadsHoldSamples'
      <3> HIDE DEF next
      <3> QED BY <1>1, <2>1, <2>4, ReadsStay DEF BrowserInv, SampleInv
    <2> QED BY <1>1, <1>2, <2>1, <2>5 DEF SampleInv, TiersHoldSamples, OfSamples
  <1>4. CASE CompactWrite(r)
    <2> DEFINE run == runs[r]
    <2> DEFINE new == Bucket(run.read, Width(run.stage))
    <2> DEFINE next == [run EXCEPT !.place = IF run.stage = "exchange" THEN "mark" ELSE "delete"]
    <2>1. Compacting(run) /\ run.place = "write"
      BY <1>4 DEF BrowserInv, RunsAreWell, RunIsWell, Evicting, NoRun, CompactWrite, At
    <2>2. Width(run.stage) \in Nat \ {0} /\ MaxClock \in Nat
      BY WidthAssumption, TimeAssumption DEF Width
    <2>3. OfSamples(run.read)
      BY <2>1 DEF SampleInv, ReadsHoldSamples
    <2>4. OfSamples(new) /\ \A ts \in DOMAIN new : ts % Width(run.stage) = 0
      BY <2>2, <2>3, BucketsHoldSamples
    <2>5. Put(Target(run.stage), new) /\ Target(run.stage) \in Tiers
      BY <1>4 DEF CompactWrite, Target, Tiers
    <2> HIDE DEF new
    <2>6. /\ Target(run.stage) = "1m" => Width(run.stage) = Minute
          /\ Target(run.stage) = "5m" => Width(run.stage) = FiveMinutes
      BY DEF Target, Width
    <2>7. TiersHoldSamples'
      <3>1. ComeFrom(Target(run.stage), new)
        BY <2>5, TransactionsAdd DEF BrowserInv
      <3> QED BY <1>1, <2>4, <2>5, <2>6, <3>1, TiersStay DEF SampleInv, OfSamples
    <2>8. runs' = [runs EXCEPT ![r] = next] /\ next.place # "write"
      BY <1>4, <2>1 DEF CompactWrite, Compacting
    <2>9. ReadsHoldSamples'
      <3> HIDE DEF next
      <3> QED BY <1>1, <2>8, ReadsStay DEF BrowserInv, SampleInv
    <2> QED BY <1>2, <2>7, <2>9 DEF SampleInv
  <1>5. CASE CompactDelete(r) \/ EvictTier(r)
    <2>1. \E tier \in Tiers : \E keys : Delete(tier, keys)
      <3>1. CASE CompactDelete(r)
        BY <3>1 DEF CompactDelete, Source, Tiers
      <3>2. CASE EvictTier(r)
        <4>1. runs[r].tier \in Tiers
          BY <3>2 DEF BrowserInv, RunsAreWell, RunIsWell, Compacting, Evicting, NoRun, EvictTier, At
        <4> QED BY <3>2, <4>1 DEF EvictTier
      <3> QED BY <1>5, <3>1, <3>2
    <2>2. PICK tier \in Tiers : ComeFrom(tier, Unread)
      BY <2>1, TransactionsAdd DEF BrowserInv
    <2>3. DOMAIN Unread = {}
      BY DEF Unread
    <2>4. TiersHoldSamples'
      BY <1>1, <2>2, <2>3, TiersStay DEF SampleInv
    <2>5. PICK next : runs' = [runs EXCEPT ![r] = next] /\ next.place # "write"
      <3>1. CASE CompactDelete(r)
        <4> DEFINE next == [runs[r] EXCEPT !.place = "mark"]
        <4>1. Compacting(runs[r])
          BY <3>1 DEF BrowserInv, RunsAreWell, RunIsWell, Evicting, NoRun, CompactDelete, At
        <4>2. runs' = [runs EXCEPT ![r] = next] /\ next.place = "mark"
          BY <3>1, <4>1 DEF CompactDelete, Compacting
        <4> HIDE DEF next
        <4> QED BY <4>2
      <3>2. CASE EvictTier(r)
        <4> DEFINE run == runs[r]
        <4> DEFINE next == IF run.tier = "5m" THEN [run EXCEPT !.place = "evicted"]
                           ELSE [run EXCEPT !.tier = NextTier(run.tier)]
        <4>1. Evicting(run)
          BY <3>2 DEF BrowserInv, RunsAreWell, RunIsWell, Compacting, NoRun, EvictTier, At
        <4>2. runs' = [runs EXCEPT ![r] = next] /\ next.place # "write"
          BY <3>2, <4>1 DEF EvictTier, Evicting
        <4> HIDE DEF next
        <4> QED BY <4>2
      <3> QED BY <1>5, <3>1, <3>2
    <2>6. ReadsHoldSamples'
      BY <1>1, <2>5, ReadsStay DEF BrowserInv, SampleInv
    <2> QED BY <1>2, <2>4, <2>6 DEF SampleInv
  <1>6. CASE CompactMark(r) \/ EvictBegin(r) \/ EvictEnd(r)
    <2>1. rows' = rows
      BY <1>6 DEF CompactMark, EvictBegin, EvictEnd
    <2>2. PICK next : runs' = [runs EXCEPT ![r] = next] /\ next.place # "write"
      <3>1. CASE CompactMark(r)
        <4> DEFINE next == [After(runs[r]) EXCEPT !.read = Unread]
        <4>1. Compacting(runs[r])
          BY <3>1 DEF BrowserInv, RunsAreWell, RunIsWell, Evicting, NoRun, CompactMark, At
        <4>2. After(runs[r]).place \in {"read", "evict"} /\ Compacting(After(runs[r]))
          BY <4>1, NextStage DEF After, Compacting, Stages
        <4>3. next.place # "write"
          BY <4>2 DEF Compacting
        <4>4. runs' = [runs EXCEPT ![r] = next]
          BY <3>1 DEF CompactMark
        <4> HIDE DEF next
        <4> QED BY <4>3, <4>4
      <3>2. CASE EvictBegin(r)
        <4>1. runs'[r].place # "write" /\ \E next : runs' = [runs EXCEPT ![r] = next]
          BY <3>2 DEF EvictBegin, NoRun, BrowserInv, RunsAreWell
        <4>2. PICK next : runs' = [runs EXCEPT ![r] = next]
          BY <4>1
        <4>3. runs'[r] = next
          BY <4>2 DEF BrowserInv, RunsAreWell
        <4> QED BY <4>1, <4>2, <4>3
      <3>3. CASE EvictEnd(r)
        <4> DEFINE run == runs[r]
        <4> DEFINE next == [run EXCEPT !.place = "evicting", !.tier = "raw",
                                       !.cutoff = run.cutoff + EvictChunk]
        <4>1. Evicting(run)
          BY <3>3 DEF BrowserInv, RunsAreWell, RunIsWell, Compacting, NoRun, EvictEnd, At
        <4>2. next.place = "evicting"
          BY <4>1 DEF Evicting
        <4>3. runs' = [runs EXCEPT ![r] = NoRun] \/ runs' = [runs EXCEPT ![r] = next]
          BY <3>3 DEF EvictEnd
        <4> HIDE DEF next
        <4> QED BY <4>2, <4>3 DEF NoRun
      <3> QED BY <1>6, <3>1, <3>2, <3>3
    <2>3. ReadsHoldSamples'
      BY <1>1, <2>2, ReadsStay DEF BrowserInv, SampleInv
    <2> QED BY <1>1, <1>2, <2>1, <2>3 DEF SampleInv, TiersHoldSamples, OfSamples
  <1> QED BY <1>3, <1>4, <1>5, <1>6 DEF Maintain

\* What comes from outside of the maintenance: a sample, or rows of another device that lie
\* on the buckets of their tier.
LEMMA ArrivalsKeepTypes ==
  ASSUME BrowserInv, SampleInv,
         \/ CollectWrite
         \/ \E tier \in {"1m", "5m"}, ts \in 0..clock :
              ts % Width(IF tier = "1m" THEN "raw" ELSE "minute") = 0 /\ Delivered(tier, ts)
  PROVE  SampleInv'
  <1>1. UNCHANGED <<clock, leading, runs>>
    BY DEF CollectWrite, Delivered, tabVars
  <1>2. samples \subseteq samples' /\ TabsAreTyped'
    BY <1>1 DEF CollectWrite, Delivered, tabVars, SampleInv, TabsAreTyped
  <1>3. ReadsHoldSamples'
    BY <1>1, <1>2 DEF SampleInv, ReadsHoldSamples, OfSamples
  <1>4. TiersHoldSamples'
    <2>1. CASE CollectWrite
      <3> DEFINE new == [ts \in {sampling} |-> {sampling}]
      <3>1. /\ DOMAIN new = {sampling} /\ new[sampling] = {sampling}
            /\ sampling \in 0..MaxClock /\ samples' = samples \cup {sampling}
        BY <2>1 DEF CollectWrite, SampleInv, TabsAreTyped
      <3>2. Put("raw", new) /\ "raw" \in Tiers
        BY <2>1 DEF CollectWrite, Tiers
      <3> HIDE DEF new
      <3>3. ComeFrom("raw", new)
        BY <3>2, TransactionsAdd DEF BrowserInv
      <3> QED BY <1>2, <3>1, <3>2, <3>3, TiersStay DEF SampleInv
    <2>2. ASSUME NEW tier \in {"1m", "5m"}, NEW ts \in 0..clock,
                 ts % Width(IF tier = "1m" THEN "raw" ELSE "minute") = 0, Delivered(tier, ts)
          PROVE  TiersHoldSamples'
      <3> DEFINE new == [k \in {ts} |-> {}]
      <3>1. DOMAIN new = {ts} /\ new[ts] = {} /\ ts \in 0..MaxClock
        BY TimeAssumption DEF SampleInv, TabsAreTyped
      <3>2. WriteMissing(tier, new) /\ tier \in Tiers
        BY <2>2 DEF Delivered, Tiers
      <3> HIDE DEF new
      <3>3. ComeFrom(tier, new)
        BY <3>2, TransactionsAdd DEF BrowserInv
      <3>4. /\ tier = "1m" => ts % Minute = 0
            /\ tier = "5m" => ts % FiveMinutes = 0
        BY <2>2 DEF Width
      <3> QED BY <1>2, <3>1, <3>2, <3>3, <3>4, TiersStay DEF SampleInv
    <2> QED BY <2>1, <2>2
  <1> QED BY <1>2, <1>3, <1>4 DEF SampleInv

\* What a tab does without touching the rows.
LEMMA TabsKeepTypes ==
  ASSUME BrowserInv, SampleInv,
         \/ BecomeLeader \/ CloseTab \/ CollectFetch \/ \E full \in BOOLEAN : CollectFails(full)
         \/ Resume \/ Ready \/ ClockTick \/ \E c \in Configs : ApplyConfig(c)
         \/ \E r \in Runs : StartRun(r)
         \/ UNCHANGED browserVars
  PROVE  SampleInv'
  <1>1. UNCHANGED <<rows, samples>>
    BY DEF BecomeLeader, CloseTab, CollectFetch, CollectFails, Resume, Ready, ClockTick,
           ApplyConfig, StartRun, browserVars
  <1>2. TabsAreTyped'
    <2>1. clock' \in 0..MaxClock
      BY TimeAssumption
         DEF SampleInv, TabsAreTyped, BecomeLeader, CloseTab, CollectFetch, CollectFails, Resume,
             Ready, ClockTick, ApplyConfig, StartRun, tabVars, browserVars
    <2>2. leading' \in BOOLEAN /\ sampling' \in 0..MaxClock \cup {NoSample}
      BY DEF SampleInv, TabsAreTyped, BecomeLeader, CloseTab, CollectFetch, CollectFails, Resume,
             Ready, ClockTick, ApplyConfig, StartRun, tabVars, browserVars
    <2> QED BY <1>1, <2>1, <2>2 DEF SampleInv, TabsAreTyped
  <1>3. TiersHoldSamples'
    BY <1>1 DEF SampleInv, TiersHoldSamples, OfSamples
  <1>4. ReadsHoldSamples'
    <2>1. ASSUME NEW r \in Runs, StartRun(r) PROVE ReadsHoldSamples'
      <3>1. PICK changed : changed = [place |-> "read", stage |-> "raw", now |-> clock,
                              config |-> config, to |-> 0, read |-> Unread]
        OBVIOUS
      <3>2. runs' = [runs EXCEPT ![r] = changed] /\ changed.place = "read"
        BY <2>1, <3>1 DEF StartRun
      <3> QED BY <1>1, <3>2, ReadsStay DEF BrowserInv, SampleInv
    <2>2. CASE CloseTab
      BY <2>2 DEF CloseTab, ReadsHoldSamples, NoRun
    <2>3. CASE runs' = runs
      BY <1>1, <2>3 DEF SampleInv, ReadsHoldSamples, OfSamples
    <2> QED
      BY <2>1, <2>2, <2>3 DEF BecomeLeader, CollectFetch, CollectFails, Resume, Ready, ClockTick,
         ApplyConfig, browserVars
  <1> QED BY <1>2, <1>3, <1>4 DEF SampleInv

\* What the invariants say together is the type invariant: the account is a sum of costs.
LEMMA SamplesAreTypes == BrowserInv /\ SampleInv => BrowserTypeOK
  <1> SUFFICES ASSUME BrowserInv, SampleInv PROVE BrowserTypeOK
    OBVIOUS
  <1>1. bytes \in Nat
    <2>1. \A tier \in Tiers : Cost(tier) \in Nat
      <3>1. \A tier \in Tiers : Cardinality(DOMAIN rows[tier]) \in Nat
        BY FS_CardinalityType DEF BrowserInv, RowsAreFinite
      <3> QED BY <3>1, CostAssumption DEF Cost, RowBytes
    <2> QED BY <2>1 DEF BrowserInv, BytesTrue, Tiers
  <1>2. \A r \in Runs : runs[r].place \in Places
    <2>1. ASSUME NEW run, RunIsWell(run) PROVE run.place \in Places
      BY <2>1 DEF RunIsWell, Compacting, Evicting, NoRun, Places
    <2> QED BY <2>1 DEF BrowserInv, RunsAreWell
  <1> QED BY <1>1, <1>2
      DEF BrowserTypeOK, BrowserInv, SampleInv, TimesAreNumbers, TabsAreTyped, TiersHoldSamples,
          OfSamples

\* No rows and no runs.
LEMMA SampleInitInv == BrowserInit => SampleInv
  <1> SUFFICES ASSUME BrowserInit PROVE SampleInv
    OBVIOUS
  <1>1. TabsAreTyped
    <2>1. leading \in BOOLEAN
      BY DEF BrowserInit
    <2>2. 0 \in 0..MaxClock
      BY TimeAssumption
    <2> QED BY <2>1, <2>2 DEF BrowserInit, TabsAreTyped
  <1>2. \A tier \in Tiers : DOMAIN rows[tier] = {}
    BY DEF BrowserInit, Unread
  <1>3. TiersHoldSamples
    BY <1>2 DEF TiersHoldSamples, OfSamples, Tiers
  <1>4. ReadsHoldSamples
    BY DEF BrowserInit, ReadsHoldSamples, NoRun
  <1> QED BY <1>1, <1>3, <1>4 DEF SampleInv

\* Every step of every tab keeps it.
LEMMA SampleStepInv == BrowserInv /\ SampleInv /\ [BrowserNext]_browserVars => SampleInv'
  <1> SUFFICES ASSUME BrowserInv, SampleInv, [BrowserNext]_browserVars PROVE SampleInv'
    OBVIOUS
  <1> QED BY MaintenanceKeepsTypes, ArrivalsKeepTypes, TabsKeepTypes DEF BrowserNext

\* The database keeps its shape for any runs, deliveries and closed tabs: every row stands for
\* samples that were written, and a compacted one lies on a multiple of its bucket, as those
\* of the other devices do.
THEOREM BrowserTypeInvariance == BrowserSpec => []BrowserTypeOK
  BY SampleInitInv, SampleStepInv, BrowserInitInv, BrowserStepInv, SamplesAreTypes, PTL
     DEF BrowserSpec

-----------------------------------------------------------------------------
(***************************************************************************)
(* Windows: looking at today's window and at yesterday's is enough, for      *)
(* every calendar, however long its days are, every sunrise and sunset, and  *)
(* every window that keeps to two days.                                     *)
(***************************************************************************)
\* The date is the day the clock is in.
DateInv ==
  /\ midnight \in Calendars /\ sun \in [Days -> SunTimes] /\ window \in Windows
  /\ time \in 0..MaxTime /\ today \in Nat /\ today \in WholeDays
  /\ midnight[today] <= time /\ time < midnight[today + 1]

\* What a calendar in force is.
LEMMA CalendarInForce ==
  ASSUME DateInv
  PROVE  /\ Days \subseteq Int /\ -1 \in Days /\ 0 \in Days /\ MaxTime \in Nat
         /\ \A first, last \in Days : first..last \subseteq Days
         /\ \A day \in Days : midnight[day] \in Int
         /\ \A day, later \in Days : day < later => midnight[day] < midnight[later]
         /\ \A day \in Days : midnight[day] <= MaxTime => day \in WholeDays
         /\ midnight[0] = 0
  <1>1. midnight \in [Days -> Int]
    BY WindowsAssumption DEF CalendarAssumption, DateInv
  <1> QED BY <1>1, WindowsAssumption DEF CalendarAssumption, DateInv

LEMMA DateInitInv == WindowsInit => DateInv
  <1> SUFFICES ASSUME WindowsInit PROVE DateInv
    OBVIOUS
  <1>1. /\ midnight \in Calendars /\ midnight[0] = 0 /\ MaxTime \in Nat /\ 0 \in Days
        /\ 0 \in WholeDays
    BY WindowsAssumption DEF CalendarAssumption, WindowsInit
  <1>2. 1 \in Days
    BY <1>1 DEF WholeDays
  <1>3. midnight[0] < midnight[1]
    BY <1>1, <1>2, WindowsAssumption DEF CalendarAssumption
  <1> QED BY <1>1, <1>3 DEF WindowsInit, DateInv

\* The date moves on when the clock reaches the next midnight.
LEMMA DateStepInv == DateInv /\ [WindowsNext]_windowVars => DateInv'
  <1> SUFFICES ASSUME DateInv, [WindowsNext]_windowVars PROVE DateInv'
    OBVIOUS
  <1>1. CASE Elapse
    <2>1. /\ time' = time + 1 /\ time' \in 0..MaxTime
          /\ UNCHANGED <<midnight, sun, window>>
          /\ today' = IF time + 1 = midnight[today + 1] THEN today + 1 ELSE today
      BY <1>1, CalendarInForce DEF Elapse, DateInv
    <2>2. today + 1 \in Days /\ midnight[today + 1] \in Int /\ midnight[today] \in Int
      BY CalendarInForce DEF DateInv, WholeDays
    <2>3. CASE time + 1 = midnight[today + 1]
      <3>1. today + 1 \in WholeDays
        BY <2>1, <2>2, <2>3, CalendarInForce
      <3>2. today + 2 \in Days /\ today \in Nat
        BY <3>1 DEF WholeDays, DateInv
      <3>3. midnight[today + 1] < midnight[(today + 1) + 1]
        BY <2>2, <3>2, CalendarInForce
      <3> QED BY <2>1, <2>3, <3>1, <3>2, <3>3 DEF DateInv
    <2>4. CASE time + 1 # midnight[today + 1]
      BY <2>1, <2>2, <2>4 DEF DateInv
    <2> QED BY <2>3, <2>4
  <1>2. CASE UNCHANGED windowVars
    BY <1>2 DEF windowVars, DateInv
  <1> QED BY <1>1, <1>2 DEF WindowsNext

\* Sunrise and sunset are numbers.
LEMMA SunIsNumber ==
  ASSUME DateInv, NEW day \in Days, sun[day] # None, NEW event \in {"sunrise", "sunset"}
  PROVE  sun[day] \in SunTimes \ {None} /\ sun[day][event] \in Int
  <1>1. sun[day] \in SunTimes \ {None}
    BY DEF DateInv
  <1>2. sun[day] \in [sunrise : Int, sunset : Int]
    BY <1>1, WindowsAssumption
  <1> QED BY <1>1, <1>2

\* A time window begins on its day and ends before the next one does.
LEMMA TimeBoundsAreNear ==
  ASSUME DateInv, window \in TimeWindow, HasItsTimes(window), NEW day \in WholeDays
  PROVE  /\ TimeBounds(window, day).start \in Int /\ TimeBounds(window, day).end \in Int
         /\ midnight[day] <= TimeBounds(window, day).start
         /\ day + 2 \in Days => TimeBounds(window, day).end <= midnight[day + 2]
  <1>1. /\ window.start \in Nat /\ window.end \in Nat
        /\ day \in Int /\ day \in Days /\ day + 1 \in Days
        /\ midnight[day] \in Int /\ midnight[day + 1] \in Int
    BY CalendarInForce DEF TimeWindow, WholeDays
  <1>2. /\ midnight[day] + window.end < midnight[day + 1]
        /\ day + 1 \in WholeDays => midnight[day + 1] + window.end < midnight[(day + 1) + 1]
    BY <1>1 DEF HasItsTimes, DateInv
  <1>3. day + 2 \in Days =>
          /\ midnight[day + 2] \in Int /\ midnight[day + 1] < midnight[day + 2]
          /\ midnight[day + 1] + window.end < midnight[day + 2]
    <2> SUFFICES ASSUME day + 2 \in Days
                 PROVE  /\ midnight[day + 2] \in Int /\ midnight[day + 1] < midnight[day + 2]
                        /\ midnight[day + 1] + window.end < midnight[day + 2]
      OBVIOUS
    <2>1. (day + 1) + 1 = day + 2 /\ day + 1 < day + 2
      BY <1>1
    <2>2. day + 1 \in WholeDays
      BY <1>1, <2>1 DEF WholeDays
    <2> QED BY <1>1, <1>2, <2>1, <2>2, CalendarInForce
  <1> QED BY <1>1, <1>2, <1>3 DEF TimeBounds

\* So does a sun window that keeps to two days, if it has bounds at all.
LEMMA SunBoundsAreNear ==
  ASSUME DateInv, window \in SunWindow, KeepsTwoDays(window), NEW day \in WholeDays,
         SunBounds(window, day) # None
  PROVE  /\ SunBounds(window, day).start \in Int /\ SunBounds(window, day).end \in Int
         /\ midnight[day] <= SunBounds(window, day).start
         /\ day + 2 \in Days => SunBounds(window, day).end <= midnight[day + 2]
  <1> DEFINE start == sun[day][window.from] + window.from_offset
             end == sun[day][window.to] + window.to_offset
             next == sun[day + 1][window.to] + window.to_offset
  <1>1. /\ window.from \in {"sunrise", "sunset"} /\ window.to \in {"sunrise", "sunset"}
        /\ window.from_offset \in Int /\ window.to_offset \in Int
        /\ day \in Int /\ day \in Days /\ day + 1 \in Days
        /\ midnight[day] \in Int /\ midnight[day + 1] \in Int
    BY CalendarInForce DEF SunWindow, WholeDays
  <1>2. sun[day] # None
    BY DEF SunBounds
  <1>3. sun[day] \in SunTimes \ {None} /\ start \in Int /\ end \in Int
    BY <1>1, <1>2, SunIsNumber
  <1>4. ASSUME NEW t \in SunTimes \ {None}
        PROVE  /\ start >= 0
               /\ {day + 1, day + 2} \subseteq Days =>
                    IF end >= start THEN midnight[day] + end <= midnight[day + 2]
                    ELSE midnight[day + 1] + (t[window.to] + window.to_offset) <= midnight[day + 2]
    BY <1>1, <1>3 DEF KeepsTwoDays, DateInv
  <1>5. /\ SunEvent(day, window.from) + window.from_offset = midnight[day] + start
        /\ SunEvent(day, window.to) + window.to_offset = midnight[day] + end
    BY <1>1, <1>2, SunIsNumber DEF SunEvent
  <1>6. CASE end >= start
    <2>1. SunBounds(window, day) = [start |-> midnight[day] + start, end |-> midnight[day] + end]
      <3> HIDE DEF start, end
      <3> QED BY <1>1, <1>2, <1>3, <1>5, <1>6 DEF SunBounds
    <2>2. start >= 0 /\ (day + 2 \in Days => midnight[day] + end <= midnight[day + 2])
      BY <1>1, <1>3, <1>4, <1>6
    <2> HIDE DEF start, end
    <2> QED BY <1>1, <1>3, <2>1, <2>2
  <1>7. CASE ~(end >= start)
    <2>1. /\ sun[day + 1] # None
          /\ SunBounds(window, day) =
               [start |-> midnight[day] + start,
                end |-> SunEvent(day + 1, window.to) + window.to_offset]
      <3> HIDE DEF start, end
      <3> QED BY <1>1, <1>2, <1>3, <1>5, <1>7 DEF SunBounds
    <2>2. /\ sun[day + 1] \in SunTimes \ {None} /\ next \in Int
          /\ SunEvent(day + 1, window.to) + window.to_offset = midnight[day + 1] + next
      BY <1>1, <2>1, SunIsNumber DEF SunEvent
    <2>3. start >= 0 /\ (day + 2 \in Days => midnight[day + 1] + next <= midnight[day + 2])
      BY <1>1, <1>3, <1>4, <1>7, <2>2
    <2> HIDE DEF start, end, next
    <2> QED BY <1>1, <1>3, <2>1, <2>2, <2>3
  <1> QED BY <1>6, <1>7

LEMMA BoundsAreNear ==
  ASSUME DateInv, NEW day \in WholeDays, Bounds(window, day) # None
  PROVE  /\ Bounds(window, day).start \in Int /\ Bounds(window, day).end \in Int
         /\ midnight[day] <= Bounds(window, day).start
         /\ day + 2 \in Days => Bounds(window, day).end <= midnight[day + 2]
  <1>1. CASE window \in TimeWindow /\ HasItsTimes(window)
    <2>1. Bounds(window, day) = TimeBounds(window, day)
      BY <1>1 DEF Bounds, TimeWindow
    <2> QED BY <1>1, <2>1, TimeBoundsAreNear
  <1>2. CASE window \in SunWindow /\ KeepsTwoDays(window)
    <2>1. Bounds(window, day) = SunBounds(window, day)
      BY <1>2 DEF Bounds, SunWindow
    <2> QED BY <1>2, <2>1, SunBoundsAreNear
  <1> QED BY <1>1, <1>2, WindowsAssumption DEF DateInv

\* Inside a window it is its day or the day after.
LEMMA DayIsLookedAt ==
  ASSUME DateInv, NEW day \in WholeDays, Within(Bounds(window, day), time)
  PROVE  day = today \/ day = today - 1
  <1>1. /\ Bounds(window, day) # None
        /\ Bounds(window, day).start <= time /\ time < Bounds(window, day).end
    BY DEF Within
  <1>2. /\ Bounds(window, day).start \in Int /\ Bounds(window, day).end \in Int
        /\ midnight[day] <= Bounds(window, day).start
        /\ day + 2 \in Days => Bounds(window, day).end <= midnight[day + 2]
    BY <1>1, BoundsAreNear
  <1> DEFINE b == Bounds(window, day)
  <1> HIDE DEF b
  <1>3. /\ day \in Days /\ day \in Int /\ today \in Int /\ today \in Days /\ today + 1 \in Days
        /\ time \in Int /\ midnight[today] <= time /\ time < midnight[today + 1]
        /\ midnight[day] \in Int /\ midnight[today] \in Int /\ midnight[today + 1] \in Int
    BY CalendarInForce DEF DateInv, WholeDays
  <1>4. day < today + 1
    <2> SUFFICES ASSUME today + 1 <= day PROVE FALSE
      BY <1>3
    <2>1. midnight[today + 1] <= midnight[day]
      <3>1. CASE today + 1 = day
        BY <1>3, <3>1
      <3>2. CASE today + 1 < day
        BY <1>3, <3>2, CalendarInForce
      <3> QED BY <1>3, <3>1, <3>2
    <2> QED BY <1>1, <1>2, <1>3, <2>1
  <1>5. today < day + 2
    <2> SUFFICES ASSUME day + 2 <= today PROVE FALSE
      BY <1>3
    <2>1. day + 2 \in Days
      <3>1. day..today \subseteq Days
        BY <1>3, CalendarInForce
      <3> QED BY <1>3, <3>1
    <2>2. midnight[day + 2] \in Int /\ midnight[day + 2] <= midnight[today]
      <3>1. CASE day + 2 = today
        BY <1>3, <3>1
      <3>2. CASE day + 2 < today
        BY <1>3, <2>1, <3>2, CalendarInForce
      <3> QED BY <1>3, <3>1, <3>2
    <2> QED BY <1>1, <1>2, <1>3, <2>1, <2>2
  <1> QED BY <1>3, <1>4, <1>5

\* Yesterday's window of a whole day lasts until today's begins.
LEMMA WholeDaysMeet ==
  ASSUME DateInv
  PROVE  WholeDayHasNoGap
  <1> SUFFICES ASSUME window.type = "time_window", window.start = window.end,
                      window.weekdays = {}
               PROVE  Active(window, time, today)
    BY DEF WholeDayHasNoGap
  <1>1. window \in TimeWindow /\ HasItsTimes(window)
    BY WindowsAssumption DEF DateInv, SunWindow
  <1>2. /\ window.start \in Nat /\ today \in Int /\ time \in Int
        /\ today \in Days /\ today + 1 \in Days
        /\ midnight[today] <= time /\ time < midnight[today + 1]
        /\ midnight[today] \in Int /\ midnight[today + 1] \in Int
    BY <1>1, CalendarInForce DEF DateInv, WholeDays, TimeWindow
  <1>3. ASSUME NEW day \in WholeDays, midnight[day] \in Int, midnight[day + 1] \in Int,
               midnight[day] + window.start <= time, time < midnight[day + 1] + window.start
        PROVE  Within(Bounds(window, day), time) /\ Allows(window, day)
    <2>1. TimeBounds(window, day) = [start |-> midnight[day] + window.start,
                                     end |-> midnight[day + 1] + window.start]
      BY <1>2, <1>3 DEF TimeBounds
    <2>2. TimeBounds(window, day) \in [start : Int, end : Int]
      BY <1>2, <1>3, <2>1
    <2>3. TimeBounds(window, day) # None
      BY <2>2, WindowsAssumption
    <2>4. Bounds(window, day) = TimeBounds(window, day)
      BY DEF Bounds
    <2> QED BY <1>3, <2>1, <2>3, <2>4 DEF Within, Allows
  <1>4. CASE midnight[today] + window.start <= time
    <2>1. today \in WholeDays
      BY DEF DateInv
    <2> QED BY <1>2, <1>3, <1>4, <2>1 DEF Active
  <1>5. CASE time < midnight[today] + window.start
    <2>1. today - 1 \in Days /\ (today - 1) + 1 = today
      <3>1. (-1)..today \subseteq Days /\ today \in Nat
        BY <1>2, CalendarInForce DEF DateInv
      <3> QED BY <3>1
    <2>2. today - 1 \in WholeDays /\ midnight[today - 1] \in Int
      BY <1>2, <2>1, CalendarInForce DEF WholeDays
    <2>3. midnight[today - 1] + window.start < midnight[today]
      BY <1>1, <2>1, <2>2 DEF HasItsTimes, DateInv
    <2> QED BY <1>2, <1>3, <1>5, <2>1, <2>2, <2>3 DEF Active
  <1> QED BY <1>2, <1>4, <1>5

\* A window is met from its start to its end on its own day, and one of a whole day has no
\* gap, for every calendar, sun and window.
THEOREM WindowsProof == WindowsSpec => []WindowsKeepTheirDays
  <1>1. DateInv => WindowsKeepTheirDays
    <2> SUFFICES ASSUME DateInv PROVE WindowsKeepTheirDays
      OBVIOUS
    <2>1. MetFromStartToEnd
      BY DayIsLookedAt DEF MetFromStartToEnd, Active
    <2> QED BY <2>1, WholeDaysMeet DEF WindowsKeepTheirDays
  <1> QED BY <1>1, DateInitInv, DateStepInv, PTL DEF WindowsSpec

--------------------------------------------------------------------------
(***************************************************************************)
(* The parts together, as MCServices composes them.                         *)
(***************************************************************************)
ServicesInv == FeedInv /\ HistoryInv /\ BrowserInv /\ SampleInv

\* A step of one part is a step of it, or leaves it alone, for each of the parts.
LEMMA OnePartMoves ==
  ASSUME [Next]_<<part, feedVars, historyVars, browserVars, windowVars>>
  PROVE  [FeedNext]_feedVars /\ [HistoryNext]_historyVars /\ [BrowserNext]_browserVars
  BY DEF Next

\* Every part keeps its types, whichever of them runs: those that rest do so in a state of
\* their own specification.
THEOREM ServicesTypeInvariance == Spec => []TypeOK
  <1>1. Init => ServicesInv
    <2>1. Init => FeedInit /\ HistoryInit /\ BrowserInit
      BY DEF Init, HistoryRests, BrowserRests
    <2> QED BY <2>1, FeedInitInv, HistoryInitInv, BrowserInitInv, SampleInitInv DEF ServicesInv
  <1>2. ServicesInv /\ [Next]_<<part, feedVars, historyVars, browserVars, windowVars>> => ServicesInv'
    <2> SUFFICES ASSUME ServicesInv, [Next]_<<part, feedVars, historyVars, browserVars, windowVars>>
                 PROVE  ServicesInv'
      OBVIOUS
    <2> QED BY OnePartMoves, FeedStepInv, HistoryStepInv, BrowserStepInv, SampleStepInv DEF ServicesInv
  <1>3. ServicesInv => TypeOK
    BY SamplesAreTypes DEF ServicesInv, TypeOK, FeedInv, HistoryInv
  <1> QED BY <1>1, <1>2, <1>3, PTL DEF Spec
===============================================================================
