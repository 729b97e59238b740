------------------------------ MODULE InstallFlow ------------------------------
(***************************************************************************)
(* The installer's screens around a run (installer/webui/static/js: app.js,  *)
(* services.js, screen-connect, -precheck, -configure, -preview, -result):   *)
(* which screen follows which, and what becomes of the selection of steps    *)
(* on the way to the node.                                                  *)
(*                                                                         *)
(* A request and its answer are one step, which the host may refuse.  The    *)
(* preparation of the package and the run itself are one step each; of the   *)
(* inputs of the configuration only the selection is kept apart, passwords   *)
(* are there or not.                                                        *)
(***************************************************************************)
EXTENDS Naturals, FiniteSets, Sequences, SequencesExt

CONSTANTS
  Optional,   \* ids of the optional steps
  Services,   \* those that bring a service
  Devices,    \* those of them shown as chips of one row
  Default,    \* steps the manifest switches on by default
  Needs,      \* the step a step requires, or Absent
  Absent

VARIABLES
  wirt,        \* the host: "installer" or "dashboard"
  flowScreen, entry, connected,
  fingerprint, \* a host key waits for its confirmation
  blocked,     \* the precheck's report has a row that forbids to go on
  sudoAsked,   \* the precheck asks for a password
  stored,      \* the selection on the node
  selection,   \* the selection as the page knows it
  selectionAtEntry,
  servicesOnly,
  draft,       \* the steps of the configuration screen
  passwords,   \* they are filled in
  installInput,\* [steps]: kept while the dashboard screen is open
  cameWith     \* history: the node's selection when the preview was opened from outside

shellVars == <<wirt, flowScreen, entry, connected>>
gateVars == <<fingerprint, blocked, sudoAsked>>
choiceVars == <<selection, selectionAtEntry, servicesOnly, draft, passwords, installInput>>
flowVars == <<shellVars, gateVars, choiceVars, stored, cameWith>>

Systems == Optional \ Services
Choice == [Optional -> {TRUE, FALSE, Absent}]

--------------------------------------------------------------------------
(* Steps and services.                                                      *)

\* A service without a key is off; a system step without one follows the manifest.
IsSelected(id, steps) ==
  IF steps[id] # Absent THEN steps[id] ELSE id \in Default /\ id \in Systems

RequiresMet(id, steps) == Needs[id] # Absent => IsSelected(Needs[id], steps)

\* No step of a manifest that is required requires another one itself.
DropUnmet(steps) ==
  [id \in Optional |-> IF steps[id] = TRUE /\ ~RequiresMet(id, steps) THEN FALSE ELSE steps[id]]

Row(ids, on) == [ids |-> ids, on |-> on]

\* A row for each service, one for all devices, one for each system step whose need is met.
Toggles(steps) ==
  {Row({id}, IsSelected(id, steps)) : id \in Services \ Devices}
  \cup (IF Devices = {} THEN {} ELSE {Row(Devices, \E id \in Devices : IsSelected(id, steps))})
  \cup {Row({id}, IsSelected(id, steps)) : id \in {id \in Systems : RequiresMet(id, steps)}}

Chips(steps) == {Row({id}, IsSelected(id, steps)) : id \in Devices}

--------------------------------------------------------------------------
(* The shell.                                                               *)

EntryPoints == IF wirt = "installer" THEN {"install", "redeploy", "diagnose"} ELSE {"redeploy", "diagnose"}
FirstScreen(name) == CASE name = "install" -> "precheck" [] name = "redeploy" -> "preview" [] OTHER -> "diagnose"
Harmless == {"connect", "precheck", "preview", "diagnose", "changelog"}

Flow(name) ==
  CASE name = "install" -> <<"connect", "prepare", "precheck", "configure", "dashboard", "run", "result">>
    [] name = "redeploy" -> <<"connect", "prepare", "preview", "run", "result">>
    [] OTHER -> <<>>

\* Stations of the stepper: how many are done, and how many there are; none off the way.
Stepper ==
  LET flow == SelectSeq(Flow(entry), LAMBDA name : name = "connect" => wirt = "installer")
      at == IF flowScreen = "configure" /\ entry = "redeploy" THEN "preview" ELSE flowScreen
      place == {k \in DOMAIN flow : flow[k] = at}
  IN IF place = {} THEN <<0, 0>> ELSE <<(CHOOSE k \in place : TRUE) - 1, Len(flow)>>

\* What a screen does by itself when it appears; the changelog's way back is not an arrival.
Appears(name) ==
  /\ flowScreen' = name
  /\ blocked' = FALSE /\ sudoAsked' = FALSE /\ fingerprint' = FALSE
  /\ IF name = "preview" /\ flowScreen \notin {"configure", "changelog"}
     THEN cameWith' = stored ELSE UNCHANGED cameWith

\* Loading the preview: the first selection since the memory was cleared is remembered.
Previewed(steps) ==
  /\ selection' = steps
  /\ selectionAtEntry' = IF selectionAtEntry = Absent THEN steps ELSE selectionAtEntry

\* Arriving somewhere; the preview reads the node's selection when it can.
Goes(name) ==
  /\ Appears(name)
  /\ IF name = "preview" THEN Previewed(stored) ELSE UNCHANGED <<selection, selectionAtEntry>>

GoesTo(name) == Goes(name) /\ UNCHANGED <<draft, passwords>>

SwitchEntry(name) ==
  /\ flowScreen \in Harmless \cup {"result"}
  /\ flowScreen = "result" => name = "diagnose"      \* its button
  /\ name \in EntryPoints \ {entry}
  /\ entry' = name /\ servicesOnly' = FALSE
  /\ GoesTo(IF connected THEN FirstScreen(name) ELSE "connect")
  /\ UNCHANGED <<wirt, connected, stored, installInput>>

--------------------------------------------------------------------------
(* Connecting, preparing, checking.                                         *)

\* A key that is not known must be confirmed first.
AskFingerprint ==
  /\ flowScreen = "connect" /\ ~fingerprint /\ fingerprint' = TRUE
  /\ UNCHANGED <<shellVars, blocked, sudoAsked, choiceVars, stored, cameWith>>

ConnectFails ==
  /\ flowScreen = "connect" /\ fingerprint /\ fingerprint' = FALSE
  /\ UNCHANGED <<shellVars, blocked, sudoAsked, choiceVars, stored, cameWith>>

Connected ==
  /\ flowScreen = "connect" /\ connected' = TRUE /\ GoesTo("prepare")
  /\ UNCHANGED <<wirt, entry, stored, servicesOnly, installInput>>

\* The package is on the node: manifest and selection belonged to the one before.
Prepared ==
  /\ flowScreen = "prepare" /\ Appears(FirstScreen(entry))
  /\ IF FirstScreen(entry) = "preview" THEN Previewed(stored)
     ELSE selection' = Absent /\ UNCHANGED selectionAtEntry
  /\ UNCHANGED <<wirt, entry, connected, stored, servicesOnly, draft, passwords, installInput>>

PrepareBack ==
  /\ flowScreen = "prepare" /\ wirt = "installer" /\ GoesTo("connect")
  /\ UNCHANGED <<wirt, entry, connected, stored, servicesOnly, installInput>>

Precheck(bad, sudo) ==
  /\ flowScreen = "precheck" /\ <<bad, sudo>> # <<blocked, sudoAsked>>
  /\ blocked' = bad /\ sudoAsked' = sudo
  /\ UNCHANGED <<shellVars, fingerprint, choiceVars, stored, cameWith>>

PrecheckBack ==
  /\ flowScreen = "precheck" /\ GoesTo("connect")
  /\ UNCHANGED <<wirt, entry, connected, stored, servicesOnly, installInput>>

--------------------------------------------------------------------------
(* The configuration.                                                       *)

\* The screen opens with the inputs of before, or with the selection, rid of unmet opt-ins.
OpenConfigure ==
  LET read == IF selection # Absent THEN selection ELSE stored
  IN /\ Appears("configure") /\ selection' = read
     /\ draft' = IF installInput # Absent THEN installInput.steps ELSE DropUnmet(read)
     /\ passwords' = (installInput # Absent)
     /\ UNCHANGED selectionAtEntry

Proceed ==
  /\ flowScreen = "precheck" /\ ~blocked /\ ~sudoAsked /\ OpenConfigure
  /\ UNCHANGED <<wirt, entry, connected, stored, servicesOnly, installInput>>

EditServices ==
  /\ flowScreen = "preview" /\ servicesOnly' = TRUE /\ OpenConfigure
  /\ UNCHANGED <<wirt, entry, connected, stored, installInput>>

Toggle(row) ==
  /\ flowScreen = "configure"
  /\ draft' = DropUnmet([id \in Optional |-> IF id \in row.ids THEN ~row.on ELSE draft[id]])
  /\ UNCHANGED <<shellVars, gateVars, selection, selectionAtEntry, servicesOnly, passwords,
                 installInput, stored, cameWith>>

TypePasswords ==
  /\ flowScreen = "configure" /\ ~servicesOnly /\ ~passwords /\ passwords' = TRUE
  /\ UNCHANGED <<shellVars, gateVars, selection, selectionAtEntry, servicesOnly, draft,
                 installInput, stored, cameWith>>

ConfigureStart ==
  /\ flowScreen = "configure" /\ ~servicesOnly /\ passwords
  /\ installInput' = [steps |-> draft] /\ draft' = Absent /\ passwords' = FALSE
  /\ Goes("dashboard") /\ UNCHANGED <<wirt, entry, connected, stored, servicesOnly>>

\* Services only: the selection is written at once.
ConfigureApply ==
  /\ flowScreen = "configure" /\ servicesOnly
  /\ stored' = draft /\ servicesOnly' = FALSE /\ Appears("preview")
  /\ selection' = draft /\ draft' = Absent
  /\ UNCHANGED <<wirt, entry, connected, selectionAtEntry, passwords, installInput>>

ConfigureBack ==
  /\ flowScreen = "configure" /\ installInput' = Absent /\ servicesOnly' = FALSE
  /\ draft' = Absent /\ passwords' = FALSE
  /\ Goes(IF servicesOnly THEN "preview" ELSE "precheck")
  /\ UNCHANGED <<wirt, entry, connected, stored>>

DashboardBack ==
  /\ flowScreen = "dashboard" /\ OpenConfigure
  /\ UNCHANGED <<wirt, entry, connected, stored, servicesOnly, installInput>>

\* The selection is written, then the run is asked for; the run may be refused.
DashboardStart(refused) ==
  /\ flowScreen = "dashboard" /\ stored' = installInput.steps /\ selection' = installInput.steps
  /\ IF refused THEN UNCHANGED <<flowScreen, blocked, sudoAsked, fingerprint, cameWith, installInput>>
     ELSE Appears("run") /\ installInput' = Absent
  /\ UNCHANGED <<wirt, entry, connected, selectionAtEntry, servicesOnly, draft, passwords>>

--------------------------------------------------------------------------
(* The preview.                                                             *)

On(steps) == {id \in Optional : steps[id] = TRUE}

\* What counts as a change: the keys that are switched on.
SelectionChanged ==
  selectionAtEntry # Absent /\ selection # Absent /\ On(selectionAtEntry) # On(selection)

PreviewStart ==
  /\ flowScreen = "preview" /\ selectionAtEntry' = Absent /\ Appears("run")
  /\ UNCHANGED <<wirt, entry, connected, stored, selection, servicesOnly, draft, passwords, installInput>>

\* A change is written back.
PutBack ==
  IF SelectionChanged THEN stored' = selectionAtEntry /\ selection' = selectionAtEntry
  ELSE UNCHANGED <<stored, selection>>

\* Back to the connection; in the dashboard the page is left, and opened anew some day.
PreviewCancel ==
  /\ flowScreen = "preview" /\ PutBack /\ selectionAtEntry' = Absent
  /\ Appears(IF wirt = "installer" THEN "connect" ELSE "prepare")
  /\ UNCHANGED <<wirt, entry, connected, servicesOnly, draft, passwords, installInput>>

OpenChangelog ==
  /\ flowScreen = "preview" /\ GoesTo("changelog")
  /\ UNCHANGED <<wirt, entry, connected, stored, servicesOnly, installInput>>

ChangelogBack ==
  /\ flowScreen = "changelog" /\ GoesTo("preview")
  /\ UNCHANGED <<wirt, entry, connected, stored, servicesOnly, installInput>>

--------------------------------------------------------------------------
(* After the run.                                                           *)

FinishRun ==
  /\ flowScreen = "run" /\ GoesTo("result")
  /\ UNCHANGED <<wirt, entry, connected, stored, servicesOnly, installInput>>

\* After a run that failed.
Retry ==
  /\ flowScreen = "result" /\ UNCHANGED <<wirt, entry, connected, stored, servicesOnly, installInput>>
  /\ IF entry = "install" THEN OpenConfigure
     ELSE GoesTo(IF entry = "redeploy" THEN "preview" ELSE "diagnose")

Repair ==
  /\ flowScreen = "diagnose" /\ GoesTo("run")
  /\ UNCHANGED <<wirt, entry, connected, stored, servicesOnly, installInput>>

Consistent(steps) == \A id \in Optional : steps[id] = TRUE => RequiresMet(id, steps)

Init ==
  /\ wirt \in {"installer", "dashboard"}
  /\ entry = IF wirt = "installer" THEN "install" ELSE "redeploy"
  /\ flowScreen = IF wirt = "installer" THEN "connect" ELSE "prepare"
  /\ connected = (wirt = "dashboard")
  /\ stored \in {steps \in Choice : Consistent(steps)}
  /\ fingerprint = FALSE /\ blocked = FALSE /\ sudoAsked = FALSE
  /\ selection = Absent /\ selectionAtEntry = Absent /\ servicesOnly = FALSE
  /\ draft = Absent /\ passwords = FALSE /\ installInput = Absent /\ cameWith = stored

Next ==
  \/ \E name \in {"install", "redeploy", "diagnose"} : SwitchEntry(name)
  \/ AskFingerprint \/ ConnectFails \/ Connected \/ Prepared \/ PrepareBack
  \/ \E bad, sudo \in BOOLEAN : Precheck(bad, sudo)
  \/ PrecheckBack \/ Proceed \/ EditServices
  \/ flowScreen = "configure" /\ \E row \in Toggles(draft) \cup Chips(draft) : Toggle(row)
  \/ TypePasswords \/ ConfigureStart \/ ConfigureApply \/ ConfigureBack \/ DashboardBack
  \/ \E flag \in BOOLEAN : DashboardStart(flag)
  \/ PreviewStart \/ PreviewCancel \/ OpenChangelog \/ ChangelogBack \/ FinishRun \/ Retry \/ Repair

Spec == Init /\ [][Next]_flowVars

--------------------------------------------------------------------------
\* No opt-in reaches the node without the step it is for, whatever was switched in whatever
\* order and however often the screens were left.
NoHiddenOptIn == Consistent(stored)

\* Leaving the preview by its cancel button.
Cancelled == flowScreen = "preview" /\ selectionAtEntry # Absent /\ selectionAtEntry' = Absent
               /\ flowScreen' # "run"

\* Cancelling puts back every service and every opt-in as it was when the page remembered them.
CancelRestores ==
  Cancelled => \A id \in Optional \ Default : IsSelected(id, stored') = IsSelected(id, selectionAtEntry)

\* The stepper knows every screen an installation or an update comes to, however it was
\* reached, but the changelog beside the way.
KnowsItsPlace ==
  Stepper = <<0, 0>> => entry = "diagnose" \/ flowScreen = "changelog"

==============================================================================
