-------------------------- MODULE OnboardingActions --------------------------
(***************************************************************************)
(* What a step of a tour opens before it points at its target              *)
(* (onboarding-actions.js): toggles, one tab of a tab list, one rule on    *)
(* the automations page.  A step keeps what it shares with the one before  *)
(* it, in the same order, and takes the rest back, the last first, unless  *)
(* the user has taken over (obActions.next, watchTakeover).                *)
(***************************************************************************)
EXTENDS Integers, Sequences, FiniteSets, SequencesExt

CONSTANTS Toggles,   \* entries that are open or closed
          Tabs,      \* entries that are tabs of one list
          RuleEdit,  \* the named entry that edits a rule, or makes one
          StepList,  \* the steps' entries: a set of sequences
          MaxSteps, MaxTouches, Absent

VARIABLES doors,     \* [open, tab, rule]: what the page shows; rule is Absent
                     \* or [editing, expanded]
          phase,     \* "idle", "opening" or "shown"
          step,      \* [entries, records, takenOver, edited]
          found,     \* doors when the tour began, Absent once the user moved one
          hands,     \* who moved a door last: "tour", "user" or, before the
                     \* step watched, "unnoticed"
          steps, touches

openVars == <<doors, phase, step, found, hands, steps, touches>>

NoStep == [entries |-> <<>>, records |-> <<>>, takenOver |-> FALSE, edited |-> FALSE]
Rules == [editing : BOOLEAN, expanded : BOOLEAN] \cup {Absent}

Init ==
    /\ \E open \in SUBSET Toggles, tab \in Tabs, rule \in Rules :
          doors = [open |-> open, tab |-> tab, rule |-> rule]
    /\ phase = "idle"
    /\ step = NoStep
    /\ found = doors
    /\ hands = [d \in Toggles \cup {"tab", RuleEdit} |-> "tour"]
    /\ steps = 0
    /\ touches = 0

Door(entry) == IF entry \in Tabs THEN "tab" ELSE entry
IsOpen(entry) == IF entry \in Tabs THEN doors.tab = entry ELSE entry \in doors.open

\* What ruleAction does to the page: the rule is read once it is open
EditRule(d) == [d EXCEPT !.rule = [editing |-> TRUE, expanded |-> TRUE]]

\* What it takes back: only a rule that still reads as it left it
RevertRule(d, before) ==
    IF d.rule = Absent \/ step.edited THEN d
    ELSE IF before = Absent THEN [d EXCEPT !.rule = Absent]
    ELSE [d EXCEPT !.rule.editing = @ /\ before.editing, !.rule.expanded = @ /\ before.expanded]

\* clickEntry: what is open already is left alone and not taken back
Record(entry) ==
    CASE entry = RuleEdit -> [entry |-> entry, revert |-> TRUE, before |-> doors.rule]
      [] entry \in Tabs -> [entry |-> entry, revert |-> ~IsOpen(entry), before |-> doors.tab]
      [] entry \in Toggles -> [entry |-> entry, revert |-> ~IsOpen(entry), before |-> Absent]

Opened(entry) ==
    CASE entry = RuleEdit -> EditRule(doors)
      [] entry \in Tabs -> [doors EXCEPT !.tab = entry]
      [] entry \in Toggles -> [doors EXCEPT !.open = @ \cup {entry}]

\* revert: only while the door stands as the tour left it
Reverted(d, record) ==
    CASE ~record.revert -> d
      [] record.revert /\ record.entry = RuleEdit -> RevertRule(d, record.before)
      [] record.revert /\ record.entry \in Tabs ->
            IF d.tab = record.entry THEN [d EXCEPT !.tab = record.before] ELSE d
      [] record.revert /\ record.entry \in Toggles -> [d EXCEPT !.open = @ \ {record.entry}]

SharedPrefix(a, b) ==
    LET same == {n \in 0..(IF Len(a) < Len(b) THEN Len(a) ELSE Len(b)) : SubSeq(a, 1, n) = SubSeq(b, 1, n)}
    IN  CHOOSE n \in same : \A m \in same : m <= n

\* The records that stay open for the next step
Kept(entries) == SharedPrefix(step.entries, entries)

\* The last opened is taken back first
TakenBack(records) == Reverse(records)

\* obActions.next
GoTo(entries) ==
    LET n == IF Kept(entries) < Len(step.records) THEN Kept(entries) ELSE Len(step.records)
        back == TakenBack(SubSeq(step.records, n + 1, Len(step.records)))
    IN  IF step.takenOver
        THEN UNCHANGED doors /\ step' = [NoStep EXCEPT !.entries = entries]
        ELSE /\ doors' = FoldLeft(Reverted, doors, back)
             /\ step' = [entries |-> entries, records |-> SubSeq(step.records, 1, n), takenOver |-> FALSE,
                        edited |-> FALSE]

\* show(): the next step is prepared
NextStep ==
    /\ steps < MaxSteps
    /\ steps' = steps + 1
    /\ \E entries \in StepList : GoTo(entries)
    /\ phase' = "opening"
    /\ found' = IF phase = "idle" THEN doors ELSE found
    /\ UNCHANGED <<hands, touches>>

Opening == phase = "opening" /\ Len(step.records) < Len(step.entries)
NextEntry == step.entries[Len(step.records) + 1]

\* runEntries: one entry after the other
OpenEntry ==
    /\ Opening
    /\ doors' = Opened(NextEntry)
    /\ step' = [step EXCEPT !.records = Append(@, Record(NextEntry))]
    /\ hands' = IF Record(NextEntry).revert THEN [hands EXCEPT ![Door(NextEntry)] = "tour"] ELSE hands
    /\ UNCHANGED <<phase, found, steps, touches>>

\* All are open, or one is not on the page: the step watches the user
Prepared ==
    /\ phase = "opening"
    /\ phase' = "shown"
    /\ UNCHANGED <<doors, step, found, hands, steps, touches>>

\* hideAll and the end of a tour
EndTour ==
    /\ phase # "idle"
    /\ GoTo(<<>>)
    /\ phase' = "idle"
    /\ UNCHANGED <<found, hands, steps, touches>>

\* watchTakeover hears every click and every input
Taken(entry) == TRUE

\* The user, in the page itself; only a step that is shown watches him
Touch(entry) ==
    /\ touches < MaxTouches
    /\ touches' = touches + 1
    /\ doors' = CASE entry = RuleEdit -> doors
                  [] entry \in Tabs -> [doors EXCEPT !.tab = entry]
                  [] entry \in Toggles -> [doors EXCEPT !.open = IF entry \in @ THEN @ \ {entry} ELSE @ \cup {entry}]
    /\ step' = [step EXCEPT !.takenOver = @ \/ (phase = "shown" /\ Taken(entry)),
                          !.edited = @ \/ entry = RuleEdit]
    /\ hands' = [hands EXCEPT ![Door(entry)] = IF phase = "opening" THEN "unnoticed" ELSE "user"]
    /\ found' = Absent
    /\ UNCHANGED <<phase, steps>>

Next ==
    \/ NextStep \/ OpenEntry \/ Prepared \/ EndTour
    \/ \E entry \in Toggles \cup Tabs : Touch(entry)
    \/ doors.rule # Absent /\ Touch(RuleEdit)

Spec == Init /\ [][Next]_openVars

-----------------------------------------------------------------------------
(* A tour the user only followed leaves the page as it found it, however   *)
(* its steps shared, reordered or missed what they open.                   *)
LeavesAsFound == phase = "idle" /\ found # Absent => doors = found

(* A step that found all its entries stands in front of what it names,     *)
(* also what it took over from the step before.                            *)
OpensWhatItNames ==
    phase = "shown" /\ found # Absent /\ Len(step.records) = Len(step.entries) =>
        \A e \in ToSet(step.entries) \ {RuleEdit} :
            IsOpen(e) \/ (e \in Tabs /\ \E other \in ToSet(step.entries) : IsOpen(other) /\ other \in Tabs)

(* What the user moved last, while a step was shown, is the user's: no     *)
(* later step and no end of the tour shuts it or puts it back.             *)
KeepsTheUsers ==
    NextStep \/ EndTour =>
          /\ \A t \in Toggles : hands[t] = "user" => (t \in doors'.open) = (t \in doors.open)
          /\ hands["tab"] = "user" => doors'.tab = doors.tab

(* A rule the user changes while the tour stands on it is never thrown     *)
(* away or shut, noticed or not.                                           *)
EditedRuleStays ==
    step.edited => doors'.rule # Absent /\ (doors.rule.editing => doors'.rule.editing)
=============================================================================
