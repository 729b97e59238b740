------------------------------ MODULE RuleHistory ------------------------------
(***************************************************************************)
(* The trigger history of the automation service (class RuleHistory), and    *)
(* who uses it.  The scheduler's thread records what the engines fired       *)
(* (AutomationService._on_fired), the MQTT client's network thread records   *)
(* test runs (run_test_action) and applies a reload that switches            *)
(* history_persist or changes history_limit (reload_config).  No lock is     *)
(* held.  record() changes the list in memory and then writes the whole      *)
(* history to a temporary file, one rule after the other, which os.replace   *)
(* makes the history file; whatever goes wrong there is swallowed.           *)
(*                                                                         *)
(* Entries are numbered in the order they are inserted.  No list is ever      *)
(* empty (history_limit is at least 1), so an id without entries is an id     *)
(* the dict does not hold.  One list is written in one step here.            *)
(***************************************************************************)
EXTENDS Naturals, Sequences

CONSTANTS
  Rules,        \* ids of rules and scenarios that record
  Limits,       \* values of history_limit
  Persists,     \* values of history_persist
  Recorders,    \* the threads that record: the network thread does on a test run
  MaxEntries    \* bound on the entries ever recorded

Threads == {"scheduler", "network"}

ASSUME InputAssumption ==
  /\ Limits \subseteq Nat \ {0} /\ Limits # {}
  /\ Persists \subseteq BOOLEAN /\ Persists # {}
  /\ Recorders \subseteq Threads
  /\ MaxEntries \in Nat

VARIABLES
  settings,     \* [persist, limit] in force
  items,        \* RuleHistory._items: per id its entries, newest first
  file,         \* what the history file holds
  path,         \* RuleHistory.path is set
  thread,       \* per thread, where it is in record() and with what
  recorded,     \* number of entries recorded so far
  undisturbed   \* history: the last record was alone, and nothing kept it from the file

historyVars == <<settings, items, file, path, thread, recorded, undisturbed>>

Settings == [persist : Persists, limit : Limits]

Empty == [r \in Rules |-> <<>>]

Keys(history) == {r \in Rules : history[r] # <<>>}

\* `keys` are the ids the dump set out to write, `copy` what it has written.
Idle == [at |-> "idle", rule |-> "none", limit |-> 0, keys |-> {}, copy |-> Empty]

Alone(t) == \A u \in Threads \ {t} : thread[u] = Idle

Quiet == \A t \in Threads : thread[t] = Idle
-----------------------------------------------------------------------------
\* A new entry of rule r, under the limit in force when record() is called.
Insert(t, r) ==
  /\ thread[t] = Idle /\ recorded < MaxEntries
  /\ recorded' = recorded + 1
  /\ items' = [items EXCEPT ![r] = <<recorded + 1>> \o @]
  /\ thread' = [thread EXCEPT ![t] = [Idle EXCEPT !.at = "inserted", !.rule = r,
                                                  !.limit = settings.limit]]
  /\ undisturbed' = (Alone(t) /\ path)
  /\ UNCHANGED <<settings, file, path>>

Limited(list, limit) == SubSeq(list, 1, IF Len(list) < limit THEN Len(list) ELSE limit)

Trim(t) ==
  /\ thread[t].at = "inserted"
  /\ items' = [items EXCEPT ![thread[t].rule] = Limited(@, thread[t].limit)]
  /\ thread' = [thread EXCEPT ![t].at = "trimmed"]
  /\ UNCHANGED <<settings, file, path, recorded, undisturbed>>

\* _save: nothing to do without a path.
BeginDump(t) ==
  /\ thread[t].at = "trimmed"
  /\ thread' = [thread EXCEPT ![t] = IF path THEN [@ EXCEPT !.at = "dumping",
                                                            !.keys = Keys(items)]
                                             ELSE Idle]
  /\ UNCHANGED <<settings, items, file, path, recorded, undisturbed>>

\* json.dump walks a dict that another thread may extend: the walk then fails on its
\* next step, and the failure goes unreported.
WalkFails(t) ==
  /\ thread[t].at = "dumping" /\ Keys(items) # thread[t].keys
  /\ thread' = [thread EXCEPT ![t] = Idle]
  /\ UNCHANGED <<settings, items, file, path, recorded, undisturbed>>

DumpOne(t, r) ==
  /\ thread[t].at = "dumping" /\ Keys(items) = thread[t].keys
  /\ r \in thread[t].keys \ Keys(thread[t].copy)
  /\ thread' = [thread EXCEPT ![t].copy[r] = items[r]]
  /\ UNCHANGED <<settings, items, file, path, recorded, undisturbed>>

EndDump(t) ==
  /\ thread[t].at = "dumping" /\ Keys(items) = thread[t].keys
  /\ Keys(thread[t].copy) = thread[t].keys
  /\ thread' = [thread EXCEPT ![t].at = "replacing"]
  /\ UNCHANGED <<settings, items, file, path, recorded, undisturbed>>

\* os.replace, to the path read now: without one it fails.
Replace(t) ==
  /\ thread[t].at = "replacing"
  /\ file' = IF path THEN thread[t].copy ELSE file
  /\ thread' = [thread EXCEPT ![t] = Idle]
  /\ UNCHANGED <<settings, items, path, recorded, undisturbed>>

\* Mutant: a reload cuts the lists to the new limit, in memory only.
MutReload(s) ==
  /\ thread["network"] = Idle /\ s # settings
  /\ settings' = s
  /\ path' = s.persist
  /\ undisturbed' = (undisturbed /\ Quiet)
  /\ items' = [r \in Rules |-> Limited(items[r], s.limit)]
  /\ UNCHANGED <<file, thread, recorded>>

\* reload_config, on the network thread: only the path follows history_persist.
\* A file and a memory that agreed still do, unless the scheduler is recording.
Reload(s) ==
  /\ thread["network"] = Idle /\ s # settings
  /\ settings' = s
  /\ path' = s.persist
  /\ undisturbed' = (undisturbed /\ Quiet)
  /\ UNCHANGED <<items, file, thread, recorded>>

\* The process ends anywhere and starts again, with the settings then on the disk.
Restart(s) ==
  /\ settings' = s
  /\ path' = s.persist
  /\ items' = IF s.persist THEN file ELSE Empty
  /\ thread' = [t \in Threads |-> Idle]
  /\ undisturbed' = s.persist
  /\ UNCHANGED <<file, recorded>>

HistoryInit ==
  /\ settings \in Settings
  /\ path = settings.persist
  /\ items = Empty /\ file = Empty
  /\ thread = [t \in Threads |-> Idle]
  /\ recorded = 0
  /\ undisturbed = TRUE

HistoryNext ==
  \/ \E t \in Recorders, r \in Rules : Insert(t, r)
  \/ \E t \in Threads, r \in Rules : DumpOne(t, r)
  \/ \E t \in Threads :
       Trim(t) \/ BeginDump(t) \/ WalkFails(t) \/ EndDump(t) \/ Replace(t)
  \/ \E s \in Settings : Reload(s) \/ Restart(s)

HistorySpec == HistoryInit /\ [][HistoryNext]_historyVars
-----------------------------------------------------------------------------
(***************************************************************************)
(* Properties.                                                              *)
(***************************************************************************)
\* Every variable has its type, and a record under way is about a rule.
Histories == [Rules -> Seq(1..MaxEntries)]

Recording ==
  [at : {"idle", "inserted", "trimmed", "dumping", "replacing"},
   rule : Rules \cup {"none"}, limit : Nat, keys : SUBSET Rules, copy : Histories]

HistoryTypeOK ==
  /\ settings \in Settings /\ path \in BOOLEAN /\ undisturbed \in BOOLEAN
  /\ recorded \in 0..MaxEntries
  /\ items \in Histories /\ file \in Histories
  /\ thread \in [Threads -> Recording]
  /\ \A t \in Threads : thread[t].at = "inserted" => thread[t].rule \in Rules

\* With no record under way the file holds what memory holds, whatever was reloaded,
\* restarted and overwritten before, as long as the last record had no company: one
\* undisturbed record repairs what any race before it left behind.
FileIsCurrent == Quiet /\ undisturbed => file = items

\* What the class promises ("ueberlebt einen Dienst-Neustart"): with persistence on all
\* along, every entry the history holds survives a restart once no record is under way.
EntriesSurvive ==
  Quiet /\ path =>
    \A r \in Rules : items[r] # <<>> => file[r] = items[r]
===============================================================================
