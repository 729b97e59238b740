---------------------------- MODULE AutomationsPage ----------------------------
(***************************************************************************)
(* The automations page of the dashboard                                    *)
(* (dashboard/internal/webui/static/js: automations.page.js and             *)
(* config-status.js): what it shows, what it takes for saved, what the      *)
(* server stores and what the service runs.                                 *)
(*                                                                         *)
(* Rules and scenarios are entries [body, on] under an id; body 0 is what a *)
(* new entry has and no service would take.  Every await of a save or a     *)
(* test is a step of its own, and the user goes on meanwhile.               *)
(***************************************************************************)
EXTENDS Naturals, FiniteSets

CONSTANTS
  Ids,       \* entries that may exist (RULE_LIMIT)
  Bodies,    \* contents of an entry, 0 among them
  Absent,    \* no entry, no document
  MaxEdits   \* bound on what the user does

VARIABLES
  document,      \* what the page shows
  savedDocument, \* what it compares with
  storedDocument,\* what it takes for the server's file
  server,        \* the server's file
  service,       \* the service: [document, revision, rejected]
  saving,        \* where a save is
  sent,          \* the body of its request
  told,          \* the last outcome: [state, revision]
  editing, editSnapshot, newIds, undo,
  testing,       \* the rule whose actions are tested and how many are left
  asked,         \* the entry a test was last asked for
  mayEdit,       \* role automations; otherwise only operate_automations
  doubt,         \* history: the user changed something during a save, or an answer was lost
  edits

saveVars == <<savedDocument, storedDocument, server, saving, sent, told>>
editVars == <<editing, editSnapshot>>
newVars == <<newIds, undo>>
testVars == <<testing, asked>>
fixedVars == <<service, mayEdit>>
automationsVars == <<document, saveVars, service, editVars, newVars, testVars, mayEdit, doubt, edits>>

Entry(body, on) == [body |-> body, on |-> on]
Entries == [body : Bodies, on : BOOLEAN]
Shown == {id \in Ids : document[id] # Absent}

Dirty(id) == document[id] # savedDocument[id]

\* What the next save would change.
UnsavedCount == Cardinality({id \in Ids : Dirty(id)})

\* The user does something; during a save nobody knows whether it was sent.
Acts ==
  /\ edits < MaxEdits /\ edits' = edits + 1
  /\ doubt' = (doubt \/ saving \in {"catalog", "put"})

--------------------------------------------------------------------------
(* Editing.                                                                 *)

StartEditing(id) ==
  /\ mayEdit /\ id \in Shown /\ id \notin editing
  /\ editSnapshot' = [editSnapshot EXCEPT ![id] = document[id]]
  /\ editing' = editing \cup {id}
  /\ UNCHANGED <<document, saveVars, newVars, testVars, fixedVars, doubt, edits>>

\* Done, or the card is collapsed: the changes stay.
StopEditing(id) ==
  /\ id \in editing /\ editing' = editing \ {id}
  /\ UNCHANGED <<document, saveVars, editSnapshot, newVars, testVars, fixedVars, doubt, edits>>

\* Fields, conditions and actions of an entry.
Edit(id, body) ==
  /\ id \in editing /\ id \in Shown /\ body # document[id].body /\ Acts
  /\ document' = [document EXCEPT ![id].body = body]
  /\ UNCHANGED <<saveVars, editVars, newVars, testVars, fixedVars>>

DiscardEditing(id) ==
  /\ id \in editing /\ id \in Shown /\ Acts
  /\ document' = IF editSnapshot[id] = Absent THEN document
                 ELSE [document EXCEPT ![id] = editSnapshot[id]]
  /\ editing' = editing \ {id}
  /\ UNCHANGED <<saveVars, editSnapshot, newVars, testVars, fixedVars>>

ToggleEnabled(id) ==
  /\ id \in Shown /\ Acts
  /\ document' = [document EXCEPT ![id].on = ~@]
  /\ UNCHANGED <<saveVars, editVars, newVars, testVars, fixedVars>>

\* A new entry is open for editing, without a snapshot, and may be taken back for a while.
InsertEntry(id) ==
  /\ mayEdit /\ id \notin Shown /\ savedDocument[id] = Absent /\ server[id] = Absent /\ Acts
  /\ document' = [document EXCEPT ![id] = Entry(0, TRUE)]
  /\ editing' = editing \cup {id}
  /\ newIds' = newIds \cup {id} /\ undo' = id
  /\ UNCHANGED <<saveVars, editSnapshot, testVars, fixedVars>>

UndoInsert ==
  /\ undo # Absent /\ Acts
  /\ document' = [document EXCEPT ![undo] = Absent]
  /\ editing' = editing \ {undo} /\ newIds' = newIds \ {undo}
  /\ undo' = Absent
  /\ UNCHANGED <<saveVars, editSnapshot, testVars, fixedVars>>

UndoExpires ==
  /\ undo # Absent /\ undo' = Absent
  /\ UNCHANGED <<document, saveVars, editVars, newIds, testVars, fixedVars, doubt, edits>>

RemoveEntry(id) ==
  /\ mayEdit /\ id \in Shown /\ Acts
  /\ document' = [document EXCEPT ![id] = Absent]
  /\ UNCHANGED <<saveVars, editVars, newVars, testVars, fixedVars>>

--------------------------------------------------------------------------
(* Saving.                                                                  *)

\* With both roles the whole document is validated, then the catalogue is read.
Save ==
  /\ saving = "idle" /\ mayEdit
  /\ IF \E id \in Shown : document[id].body = 0
       THEN told' = [state |-> "invalid", revision |-> Absent] /\ UNCHANGED saving
       ELSE saving' = "catalog" /\ UNCHANGED told
  /\ UNCHANGED <<document, savedDocument, storedDocument, server, sent, editVars, newVars,
                 testVars, fixedVars, doubt, edits>>

\* The request carries what is shown after the catalogue was read; without one it fails.
SaveSends(catalog) ==
  /\ saving = "catalog"
  /\ IF catalog THEN saving' = "put" /\ sent' = document ELSE saving' = "idle" /\ UNCHANGED sent
  /\ UNCHANGED <<document, savedDocument, storedDocument, server, told, editVars, newVars,
                 testVars, fixedVars, doubt, edits>>

\* Who may only operate sends the stored document with the switches shown.
OperatePayload ==
  [id \in Ids |-> IF storedDocument[id] # Absent /\ document[id] # Absent
                    THEN [storedDocument[id] EXCEPT !.on = document[id].on]
                    ELSE storedDocument[id]]

SaveOperate ==
  /\ saving = "idle" /\ ~mayEdit
  /\ saving' = "put" /\ sent' = OperatePayload
  /\ UNCHANGED <<document, savedDocument, storedDocument, server, told, editVars, newVars,
                 testVars, fixedVars, doubt, edits>>

\* What is shown when the answer comes counts as saved.
PutOk ==
  /\ saving = "put" /\ \A id \in Ids : sent[id] # Absent => sent[id].body # 0
  /\ saving' = "status"
  /\ server' = sent /\ storedDocument' = sent
  /\ savedDocument' = IF mayEdit THEN document ELSE sent
  /\ IF mayEdit THEN newIds' = {} /\ undo' = Absent ELSE UNCHANGED newVars
  /\ UNCHANGED <<document, sent, told, editVars, testVars, fixedVars, doubt, edits>>

\* Refused, or the answer got lost after the document was stored.
PutFails(stored) ==
  /\ saving = "put" /\ saving' = "idle"
  /\ stored => \A id \in Ids : sent[id] # Absent => sent[id].body # 0
  /\ server' = IF stored THEN sent ELSE server
  /\ doubt' = (doubt \/ stored)
  /\ UNCHANGED <<document, savedDocument, storedDocument, sent, told, editVars, newVars,
                 testVars, fixedVars, edits>>

\* A status counts only for the file it names.
Classify(revision) ==
  IF service.revision # revision THEN "pending"
  ELSE IF service.rejected THEN "rejected" ELSE "applied"

\* Polled until it is no longer pending, or for 15 seconds.
WatchEnds(timeout) ==
  /\ saving = "status"
  /\ LET state == Classify(sent)
     IN /\ state # "pending" \/ timeout
        /\ told' = [state |-> IF state = "pending" THEN "no_response" ELSE state, revision |-> sent]
  /\ saving' = "idle"
  /\ UNCHANGED <<document, savedDocument, storedDocument, server, sent, editVars, newVars,
                 testVars, fixedVars, doubt, edits>>

\* The service reads the file some time after it was written, and takes it or not.
ServiceLoads(takes) ==
  /\ service.revision # server
  /\ service' = [document |-> IF takes THEN server ELSE service.document,
                 revision |-> server, rejected |-> ~takes]
  /\ UNCHANGED <<document, saveVars, editVars, newVars, testVars, mayEdit, doubt, edits>>

--------------------------------------------------------------------------
(* Testing a rule: its actions one after the other, each awaited.           *)

Permitted(id) == mayEdit /\ id \in Shown /\ ~Dirty(id)

TestRule(id) ==
  /\ testing = Absent /\ id \in Shown /\ mayEdit
  /\ testing' = [id |-> id, left |-> 2]
  /\ UNCHANGED <<document, saveVars, editVars, newVars, asked, fixedVars, doubt, edits>>

\* Mutant: permission is asked once for the whole rule.
MutTestAction ==
  /\ testing # Absent
  /\ LET asks == testing.left = 1 \/ Permitted(testing.id)
     IN /\ testing' = IF testing.left = 1 THEN Absent ELSE [testing EXCEPT !.left = @ - 1]
        /\ asked' = IF asks THEN [id |-> testing.id, shown |-> document[testing.id]] ELSE asked
  /\ UNCHANGED <<document, saveVars, editVars, newVars, fixedVars, doubt, edits>>

\* Each action asks for permission again; a refused one is left out.
TestAction ==
  /\ testing # Absent
  /\ testing' = IF testing.left = 1 THEN Absent ELSE [testing EXCEPT !.left = @ - 1]
  /\ asked' = IF Permitted(testing.id) THEN [id |-> testing.id, shown |-> document[testing.id]]
              ELSE asked
  /\ UNCHANGED <<document, saveVars, editVars, newVars, fixedVars, doubt, edits>>

--------------------------------------------------------------------------
Loaded == [id \in Ids |-> IF id = 1 THEN Entry(1, TRUE) ELSE Absent]

\* load(): what the server has is shown, and counts as saved.
Init ==
  /\ document = Loaded /\ savedDocument = Loaded /\ storedDocument = Loaded /\ server = Loaded
  /\ service = [document |-> Loaded, revision |-> Loaded, rejected |-> FALSE]
  /\ saving = "idle" /\ sent = Absent /\ told = [state |-> "none", revision |-> Absent]
  /\ editing = {} /\ editSnapshot = [id \in Ids |-> Absent] /\ newIds = {} /\ undo = Absent
  /\ testing = Absent /\ asked = Absent
  /\ mayEdit = TRUE
  /\ doubt = FALSE /\ edits = 0

\* The session tells which roles the user has.
Demoted ==
  /\ mayEdit /\ edits = 0 /\ saving = "idle" /\ testing = Absent /\ editing = {}
  /\ mayEdit' = FALSE
  /\ UNCHANGED <<document, saveVars, service, editVars, newVars, testVars, doubt, edits>>

Next ==
  \/ \E id \in Ids : \/ StartEditing(id) \/ StopEditing(id) \/ DiscardEditing(id)
                     \/ ToggleEnabled(id) \/ InsertEntry(id) \/ RemoveEntry(id) \/ TestRule(id)
                     \/ \E body \in Bodies : Edit(id, body)
  \/ UndoInsert \/ UndoExpires \/ Demoted
  \/ Save \/ SaveOperate \/ PutOk \/ TestAction
  \/ \E flag \in BOOLEAN : SaveSends(flag) \/ PutFails(flag) \/ WatchEnds(flag) \/ ServiceLoads(flag)

Spec == Init /\ [][Next]_automationsVars

--------------------------------------------------------------------------
\* What the page counts as saved is what the server has, as long as nothing was changed
\* while a save was under way and no answer was lost: the page that counts no unsaved
\* changes shows what the server has.
CountsWhatIsStored ==
  ~doubt => /\ savedDocument = server
            /\ UnsavedCount = 0 => document = server

\* A test is asked only for a rule the server has as it is shown, however long the
\* actions before it took and whatever was edited meanwhile.
TestsWhatIsStored ==
  asked' # asked => (doubt \/ asked'.shown = server[asked'.id])

\* "Applied" is told only when the service runs the very document that was saved.
AppliedIsLoaded ==
  (told' # told /\ told'.state = "applied") => service.document = told'.revision
==============================================================================
