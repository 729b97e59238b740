------------------------------ MODULE InstallPrefs ------------------------------
(***************************************************************************)
(* What the installer sets up on the finished dashboard (installer/webui/    *)
(* static/js/screen-dashboard.js): groups of settings that are untouched,    *)
(* set, or put off until later, and the first users.  The inputs belong to   *)
(* the shell and outlive the screen; the memory of what was put off does     *)
(* not.                                                                     *)
(***************************************************************************)
EXTENDS Naturals, FiniteSets, Sequences, SequencesExt

CONSTANTS
  Groups,    \* groups of settings besides the users
  Chips,     \* ids of a group of chips; every group here is one
  Standard,  \* those that are on until the group is touched
  Names,     \* names that may be typed, "admin" among them
  MaxUsers,  \* bound on users
  Absent

VARIABLES
  prefs,     \* per group: the chips that are on, or Absent when untouched
  users,     \* [name, password]: whether the password is long enough
  adminUser, \* "" stands for "admin"
  later,     \* groups put off, "users" among them
  before,    \* what a group held when it was put off
  prefsOpen, \* the screen is open
  runSent    \* users and settings of the run that was asked for, or Absent

prefsVars == <<prefs, users, adminUser, later, before, prefsOpen, runSent>>
AllGroups == Groups \cup {"users"}

Value(group) == IF group = "users" THEN users ELSE prefs[group]
Untouched(group) == IF group = "users" THEN <<>> ELSE Absent

IsSet(group) == Value(group) # Untouched(group)
GroupState(group) ==
  CASE group \in later -> "later" [] group \notin later /\ IsSet(group) -> "set" [] OTHER -> "default"

Put(group, value) ==
  IF group = "users" THEN users' = value /\ UNCHANGED prefs
  ELSE prefs' = [prefs EXCEPT ![group] = value] /\ UNCHANGED users

--------------------------------------------------------------------------

PutOff(group) ==
  /\ before' = [before EXCEPT ![group] = <<Value(group)>>]
  /\ Put(group, Untouched(group)) /\ later' = later \cup {group}

\* Mutant: back to the default.
MutTakeUp(group) ==
  /\ Put(group, Untouched(group))
  /\ before' = [before EXCEPT ![group] = Absent] /\ later' = later \ {group}

\* "Now after all": the state of before, or the default when the screen has forgotten it.
TakeUp(group) ==
  /\ Put(group, IF before[group] = Absent THEN Untouched(group) ELSE before[group][1])
  /\ before' = [before EXCEPT ![group] = Absent] /\ later' = later \ {group}

ToggleLater(group) ==
  /\ prefsOpen /\ (IF group \in later THEN TakeUp(group) ELSE PutOff(group))
  /\ UNCHANGED <<adminUser, prefsOpen, runSent>>

ChipOn(group, id) == id \in (IF prefs[group] = Absent THEN Standard ELSE prefs[group])

ToggleChip(group, id) ==
  /\ prefsOpen /\ group \in Groups \ later
  /\ prefs' = [prefs EXCEPT ![group] = {chip \in Chips : (chip = id) # ChipOn(group, chip)}]
  /\ UNCHANGED <<users, adminUser, later, before, prefsOpen, runSent>>

SetAllChips(group, on) ==
  /\ prefsOpen /\ group \in Groups \ later
  /\ prefs' = [prefs EXCEPT ![group] = IF on THEN Chips ELSE {}]
  /\ UNCHANGED <<users, adminUser, later, before, prefsOpen, runSent>>

--------------------------------------------------------------------------
(* The users.                                                               *)

EditUsers(list) ==
  /\ prefsOpen /\ "users" \notin later /\ users' = list
  /\ UNCHANGED <<prefs, adminUser, later, before, prefsOpen, runSent>>

AddUser == Len(users) < MaxUsers /\ EditUsers(Append(users, [name |-> "", password |-> FALSE]))
RemoveUser(k) == EditUsers(RemoveAt(users, k))
TypeUser(k, name, password) == EditUsers([users EXCEPT ![k] = [name |-> name, password |-> password]])

SetAdmin(name) ==
  /\ prefsOpen /\ adminUser' = name
  /\ UNCHANGED <<prefs, users, later, before, prefsOpen, runSent>>

AdminName == IF adminUser = "" THEN "admin" ELSE adminUser

UserValid(k) ==
  /\ users[k].name # "" /\ users[k].name # AdminName /\ users[k].password
  /\ \A other \in DOMAIN users \ {k} : users[other].name # users[k].name

\* The passwords leave with this one call.
Start ==
  /\ prefsOpen /\ \A k \in DOMAIN users : UserValid(k)
  /\ runSent' = [names |-> {users[k].name : k \in DOMAIN users}, count |-> Len(users), admin |-> adminUser,
                 set |-> {group \in AllGroups : IsSet(group)}, later |-> later]
  /\ users' = [k \in DOMAIN users |-> [users[k] EXCEPT !.password = FALSE]]
  /\ prefsOpen' = FALSE /\ before' = [group \in AllGroups |-> Absent]
  /\ UNCHANGED <<prefs, adminUser, later>>

\* Back to the configuration, or on to the run: the screen is gone, the inputs stay.
Leave ==
  /\ prefsOpen /\ prefsOpen' = FALSE /\ before' = [group \in AllGroups |-> Absent]
  /\ UNCHANGED <<prefs, users, adminUser, later, runSent>>

Open ==
  /\ ~prefsOpen /\ prefsOpen' = TRUE /\ runSent' = Absent
  /\ UNCHANGED <<prefs, users, adminUser, later, before>>

Init ==
  /\ prefs = [group \in Groups |-> Absent] /\ users = <<>> /\ adminUser = "" /\ later = {}
  /\ before = [group \in AllGroups |-> Absent] /\ prefsOpen = TRUE /\ runSent = Absent

Next ==
  \/ \E group \in AllGroups : ToggleLater(group)
  \/ \E group \in Groups : \/ \E id \in Chips : ToggleChip(group, id)
                           \/ \E on \in BOOLEAN : SetAllChips(group, on)
  \/ AddUser \/ \E k \in DOMAIN users : RemoveUser(k)
  \/ \E k \in DOMAIN users, name \in Names, password \in BOOLEAN : TypeUser(k, name, password)
  \/ \E name \in Names \cup {""} : SetAdmin(name)
  \/ Start \/ Leave \/ Open

Spec == Init /\ [][Next]_prefsVars

--------------------------------------------------------------------------
\* What was put off is not sent as set, in whichever order it was typed, put off and taken up.
LaterIsNotSent == runSent # Absent => runSent.set \cap runSent.later = {}

\* No two accounts of the new dashboard share a name, the administrator's default included.
AccountsDiffer ==
  runSent # Absent =>
    /\ Cardinality(runSent.names) = runSent.count
    /\ (IF runSent.admin = "" THEN "admin" ELSE runSent.admin) \notin runSent.names

\* Put off and taken up again while the screen stays open, a group is what it was.
LaterGivesBack ==
  \A group \in AllGroups :
       (group \in later /\ group \notin later' /\ before[group] # Absent)
         => Value(group)' = before[group][1]
==============================================================================
