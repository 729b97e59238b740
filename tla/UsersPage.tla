------------------------------ MODULE UsersPage ------------------------------
(***************************************************************************)
(* The user administration of the dashboard (users.page.js, users-model.js)*)
(* with the part of the node it talks to (auth/users.go): cards of local   *)
(* accounts, of a Home Assistant account, of the presets and of the        *)
(* account being created, each with a draft of its own; the password       *)
(* policy, the guest access and the pairing with Home Assistant.           *)
(* Other administrators and Home Assistant change the node meanwhile.  The *)
(* reads of the list overtake each other; writes go one after the other.   *)
(***************************************************************************)
EXTENDS Integers, Sequences, FiniteSets, SequencesExt

CONSTANTS Catalog,    \* role -> [category, requires, elevated, guest_allowed, ha_allowed]
          Names,      \* of local accounts
          Self,       \* who is signed in
          First,      \* what the node has at first
          Fresh,      \* the name of an account that can be created
          Policies,   \* minimal lengths of a password
          MaxEdits, MaxWrites, MaxChanges, MaxLoads,
          Absent

VARIABLES users,   \* the node: [accounts, ha, presets, guestAccess, policy, companion, code]
          listed,  \* what the page last read of it
          desk,    \* [drafts, creating, saving, policyDraft, guestAccess, edits]
          write,   \* the write under way, or Absent
          reads,   \* lists read and not yet applied
          pairing, \* [code, wasPaired, baseline, late]; late, history: lists asked for before the code was there
          others,  \* changes by others
          writes   \* writes so far

usersVars == <<users, listed, desk, write, reads, pairing, others, writes>>

-----------------------------------------------------------------------------
(* Roles. *)

Roles == DOMAIN Catalog
PresetIds == {"guest", "ha_admin", "ha_user"}
Ids == Names \cup {"ha", "new"} \cup PresetIds
AdminRole == "user_management"

\* kindOf
KindOf(id) == CASE id = "guest" -> "guest" [] id \in PresetIds \ {"guest"} -> "ha_set" [] id = "ha" -> "ha" [] OTHER -> "local"

\* available: what a kind of account may hold
Available(kind) == {r \in Roles : CASE kind = "guest" -> Catalog[r].guest_allowed
                                    [] kind \in {"ha", "ha_set"} -> Catalog[r].ha_allowed
                                    [] OTHER -> TRUE}

\* normalize: known ones whose requirement is held too
Normalize(roles) == {r \in roles \cap Roles : Catalog[r].requires \in roles \cup {""}}

\* locks: role -> reason; "active" stands for the switch of the account
Locks(account, held, context) ==
    LET Reason(r) ==
          IF account.kind = "ha" /\ ~account.custom /\ Catalog[r].ha_allowed THEN "preset"
          ELSE IF account.kind = "local" /\ r = AdminRole /\ r \in held /\ context.otherAdmins = 0 THEN "last_admin"
          ELSE IF Catalog[r].requires # "" /\ Catalog[r].requires \notin held THEN "requires" ELSE ""
    IN [x \in Roles \cup {"active"} |->
          IF x # "active" THEN Reason(x)
          ELSE IF context.self THEN "self"
          ELSE IF account.kind = "local" /\ AdminRole \in held /\ context.otherAdmins = 0 THEN "last_admin" ELSE ""]

InCategory(kind, c) == {r \in Available(kind) : Catalog[r].category = c}
GroupState(kind, c, roles) ==
    IF InCategory(kind, c) \cap roles = {} THEN "off"
    ELSE IF InCategory(kind, c) \subseteq roles THEN "on" ELSE "mixed"

\* One entry of a group
Switched(account, roles, context, entry, on) ==
    IF Locks(account, roles, context)[entry] # "" THEN roles
    ELSE Normalize(IF on THEN roles \cup {entry} ELSE roles \ {entry})

\* toggleGroup: off or mixed goes on, and off if that changes nothing
ToggledGroup(account, roles, c, context) ==
    LET entries  == SetToSeq(InCategory(account.kind, c))
        Apply(on) == FoldLeft(LAMBDA held, r : Switched(account, held, context, r, on), Normalize(roles), entries)
    IN IF GroupState(account.kind, c, Normalize(roles)) = "on" \/ Apply(TRUE) = Normalize(roles) THEN Apply(FALSE) ELSE Apply(TRUE)

NewlyElevated(before, after) == {r \in after \ before : Catalog[r].elevated}

-----------------------------------------------------------------------------
(* Cards and drafts. *)

HaPreset(list) == list.presets[IF list.ha.ha_admin THEN "ha_admin" ELSE "ha_user"]

\* savedSnapshot
SavedSnapshot(list, id) ==
    CASE id \in PresetIds -> [roles |-> list.presets[id], disabled |-> FALSE, custom |-> FALSE]
      [] id = "ha" -> [roles |-> IF list.ha.custom THEN list.ha.roles ELSE HaPreset(list),
                       disabled |-> list.ha.disabled, custom |-> list.ha.custom]
      [] id \in Names /\ list.accounts[id] # Absent ->
           [roles |-> list.accounts[id].roles, disabled |-> list.accounts[id].disabled, custom |-> FALSE]
      [] OTHER -> [roles |-> {}, disabled |-> FALSE, custom |-> FALSE]

DraftOf(id) == IF desk.drafts[id] # Absent THEN desk.drafts[id] ELSE SavedSnapshot(listed, id)
IsDirty(id) ==
    IF id = "new" THEN desk.creating # Absent
    ELSE desk.drafts[id] # Absent /\ desk.drafts[id] # SavedSnapshot(listed, id)

HasCard(id) == (id \in Names => listed.accounts[id] # Absent) /\ (id = "new" => desk.creating # Absent)

LockAccount(id) == [kind |-> KindOf(id), custom |-> DraftOf(id).custom]
LockContext(id) ==
    [self |-> id = Self,
     otherAdmins |-> Cardinality({n \in Names \ {id} : /\ listed.accounts[n] # Absent
                                                       /\ ~listed.accounts[n].disabled
                                                       /\ AdminRole \in listed.accounts[n].roles})]
LocksFor(id) == Locks(LockAccount(id), DraftOf(id).roles, LockContext(id))

PolicyDirty == desk.policyDraft # listed.policy

-----------------------------------------------------------------------------
(* The node: what auth/users.go does with a write. *)

Admins(accounts) == {n \in Names : /\ accounts[n] # Absent
                                   /\ ~accounts[n].disabled /\ AdminRole \in accounts[n].roles}

\* Mutant: the last administrator is not looked for.
MutAdminStays(before, after) == TRUE

\* checkLastAdmin
AdminStays(before, after) == Admins(before) = {} \/ Admins(after) # {}

After(list, w) ==
    [list.accounts EXCEPT ![w.id] = IF w.op = "remove" THEN Absent
                                    ELSE [roles |-> Normalize(w.draft.roles), disabled |-> w.draft.disabled]]

\* What UpdateUser, DeleteUser and CreateUser refuse
Accepts(list, w) ==
    CASE w.op = "create" -> list.accounts[Fresh] = Absent
      [] w.id \in Names -> /\ list.accounts[w.id] # Absent
                           /\ w.id = Self => w.op # "remove" /\ ~w.draft.disabled
                           /\ AdminStays(list.accounts, After(list, w))
      [] OTHER -> TRUE

Stored(list, w) ==
    IF ~Accepts(list, w) THEN list ELSE
    CASE w.op = "policy" -> [list EXCEPT !.policy = w.value]
      [] w.op = "guest" -> [list EXCEPT !.guestAccess = w.value]
      [] w.op = "code" -> [list EXCEPT !.code = TRUE]
      [] w.op = "drop" -> [list EXCEPT !.code = FALSE]
      [] w.op = "unpair" -> [list EXCEPT !.companion.paired = FALSE]
      [] w.op = "create" -> [list EXCEPT !.accounts[Fresh] = [roles |-> Normalize(w.draft.roles), disabled |-> FALSE]]
      [] w.id \in PresetIds -> [list EXCEPT !.presets[w.id] = Normalize(w.draft.roles)]
      [] w.id = "ha" -> [list EXCEPT !.ha = [@ EXCEPT !.roles = Normalize(w.draft.roles), !.disabled = w.draft.disabled, !.custom = w.draft.custom]]
      [] OTHER -> [list EXCEPT !.accounts = After(list, w)]

-----------------------------------------------------------------------------
Init ==
    /\ users = First
    /\ listed = First
    /\ desk = [drafts |-> [id \in Ids |-> Absent], creating |-> Absent, saving |-> "",
               policyDraft |-> First.policy, guestAccess |-> First.guestAccess, edits |-> 0]
    /\ write = Absent /\ reads = {} /\ others = 0 /\ writes = 0
    /\ pairing = [code |-> FALSE, wasPaired |-> FALSE, baseline |-> 0, late |-> {}]

Edited(id, draft) ==
    /\ desk' = [desk EXCEPT !.drafts[id] = draft, !.edits = @ + 1]
    /\ UNCHANGED <<users, listed, write, reads, pairing, others, writes>>

\* toggleRole: what is held may be let go of unless it is the last admin's;
\* what is locked is not taken
ToggleRole(id, r) ==
    LET held == r \in DraftOf(id).roles
        lock == LocksFor(id)[r]
    IN /\ HasCard(id) /\ r \in Available(KindOf(id)) /\ lock # "preset"
       /\ IF held THEN lock # "last_admin" ELSE lock = ""
       /\ Edited(id, [DraftOf(id) EXCEPT !.roles = Normalize(IF held THEN @ \ {r} ELSE @ \cup {r})])

ToggleGroup(id, c) ==
    /\ HasCard(id)
    /\ Edited(id, [DraftOf(id) EXCEPT !.roles = ToggledGroup(LockAccount(id), @, c, LockContext(id))])

SetActive(id) ==
    /\ HasCard(id) /\ id \in Names \cup {"ha"} /\ LocksFor(id)["active"] = ""
    /\ Edited(id, [DraftOf(id) EXCEPT !.disabled = ~@])

\* setCustom: a Home Assistant account of its own, or with the preset
SetCustom ==
    LET draft == DraftOf("ha") IN
    Edited("ha", [draft EXCEPT !.custom = ~@,
                               !.roles = IF draft.custom \/ draft.roles = {} THEN HaPreset(listed) ELSE @])

Discard(id) ==
    /\ desk.drafts[id] # Absent
    /\ desk' = [desk EXCEPT !.drafts[id] = Absent, !.creating = IF id = "new" THEN Absent ELSE @]
    /\ UNCHANGED <<users, listed, write, reads, pairing, others, writes>>

\* startCreate and what is typed: the name is free and the password long
\* enough, or not yet
StartCreate ==
    /\ desk.creating = Absent
    /\ \E valid \in BOOLEAN :
         desk' = [desk EXCEPT !.creating = valid, !.edits = @ + 1,
                              !.drafts["new"] = [roles |-> {}, disabled |-> FALSE, custom |-> FALSE]]
    /\ UNCHANGED <<users, listed, write, reads, pairing, others, writes>>

TypePolicy ==
    /\ \E p \in Policies : desk' = [desk EXCEPT !.policyDraft = p, !.edits = @ + 1]
    /\ UNCHANGED <<users, listed, write, reads, pairing, others, writes>>

Sent(w) ==
    /\ write = Absent
    /\ writes < MaxWrites /\ writes' = writes + 1
    /\ write' = w
    /\ UNCHANGED <<users, listed, reads, pairing, others>>

\* save and createAccount: granting an elevated role is asked for first, and
\* only then the page is busy
Save(id) ==
    LET draft == [DraftOf(id) EXCEPT !.roles = Normalize(@)]
        asks  == NewlyElevated(SavedSnapshot(listed, id).roles, draft.roles) # {}
    IN /\ desk.saving = "" /\ HasCard(id) /\ IsDirty(id)
       /\ id = "new" => desk.creating = TRUE /\ listed.accounts[Fresh] = Absent
       /\ Sent([op |-> IF id = "new" THEN "create" ELSE "save", id |-> id, draft |-> draft, value |-> Absent,
                phase |-> IF asks THEN "confirm" ELSE "put"])
       /\ desk' = [desk EXCEPT !.saving = IF asks THEN "" ELSE id]

Confirm ==
    /\ write # Absent
    /\ write.phase = "confirm"
    /\ \/ /\ write' = [write EXCEPT !.phase = "put"]
          /\ desk' = [desk EXCEPT !.saving = IF write.op \in {"save", "create"} THEN write.id ELSE @]
          /\ pairing' = IF write.op = "unpair" THEN [pairing EXCEPT !.code = FALSE] ELSE pairing
       \/ write' = Absent /\ UNCHANGED <<desk, pairing>>
    /\ UNCHANGED <<users, listed, reads, others, writes>>

SavePolicy == /\ PolicyDirty
              /\ Sent([op |-> "policy", id |-> "", draft |-> Absent, value |-> desk.policyDraft, phase |-> "put"])
              /\ UNCHANGED desk

\* saveGuestAccess: shown at once
SaveGuestAccess ==
    /\ desk.saving = ""
    /\ Sent([op |-> "guest", id |-> "", draft |-> Absent, value |-> ~desk.guestAccess, phase |-> "put"])
    /\ desk' = [desk EXCEPT !.guestAccess = ~@, !.saving = "guest"]

RemoveUser(id) ==
    /\ desk.saving = "" /\ id \in Names \ {Self} /\ HasCard(id)
    /\ Sent([op |-> "remove", id |-> id, draft |-> Absent, value |-> Absent, phase |-> "confirm"])
    /\ UNCHANGED desk

CreatePairingCode == /\ desk.saving = "" /\ ~pairing.code
                     /\ Sent([op |-> "code", id |-> "", draft |-> Absent, value |-> Absent, phase |-> "put"])
                     /\ UNCHANGED desk

\* dropPairingCode takes the code away before the node answers
DropPairingCode ==
    /\ pairing.code /\ desk.saving = "" /\ write = Absent
    /\ writes < MaxWrites /\ writes' = writes + 1
    /\ write' = [op |-> "drop", id |-> "", draft |-> Absent, value |-> Absent, phase |-> "put"]
    /\ pairing' = [pairing EXCEPT !.code = FALSE]
    /\ UNCHANGED <<users, listed, desk, reads, others>>

Unpair == /\ listed.companion.paired /\ ~pairing.code /\ desk.saving = ""
          /\ Sent([op |-> "unpair", id |-> "", draft |-> Absent, value |-> Absent, phase |-> "confirm"])
          /\ UNCHANGED desk

\* The node answers: what it stored it stored, and the page reads the list
\* again; a new code is shown with what is known of the pairing by then
Answered ==
    /\ write # Absent
    /\ write.phase = "put"
    /\ users' = Stored(users, write)
    /\ IF Accepts(users, write) /\ write.op \notin {"code", "drop"}
       THEN write' = [write EXCEPT !.phase = "load"] /\ UNCHANGED <<desk, pairing>>
       ELSE /\ write' = Absent
            /\ desk' = [desk EXCEPT !.saving = ""]
            /\ pairing' = IF write.op = "code"
                          THEN [code |-> TRUE, wasPaired |-> listed.companion.paired, baseline |-> listed.companion.at, late |-> reads]
                          ELSE pairing
    /\ UNCHANGED <<listed, reads, others, writes>>

\* The request fails on the way there
Failed ==
    /\ write # Absent
    /\ write.phase = "put"
    /\ write' = Absent
    /\ desk' = [desk EXCEPT !.saving = "", !.guestAccess = IF write.op = "guest" THEN ~@ ELSE @]
    /\ UNCHANGED <<users, listed, reads, pairing, others, writes>>

-----------------------------------------------------------------------------
(* Reading the list. *)

\* The field follows the node unless something is typed into it
PolicyAfter(list) == IF PolicyDirty THEN desk.policyDraft ELSE list.policy

\* A pairing is done if there was none, or there is a newer one
PairingDone(list) == list.companion.paired /\ (~pairing.wasPaired \/ list.companion.at # pairing.baseline)

\* load: the list as read
Shown(list) ==
    /\ listed' = list
    /\ pairing' = [pairing EXCEPT !.code = @ /\ ~PairingDone(list)]

\* The reload that ends a write; its draft goes after the list is there, and
\* it goes as well if the list could not be read
Reloaded ==
    /\ write # Absent
    /\ write.phase = "load"
    /\ LET gone == IF write.op = "create" THEN "new" ELSE write.id
           after(typed, guest) == [drafts |-> [id \in Ids |-> IF id = gone THEN Absent ELSE desk.drafts[id]],
                                   creating |-> IF write.op = "create" THEN Absent ELSE desk.creating,
                                   saving |-> "", policyDraft |-> typed, guestAccess |-> guest, edits |-> desk.edits]
       IN \/ Shown(users) /\ desk' = after(PolicyAfter(users), users.guestAccess)
          \/ UNCHANGED <<listed, pairing>> /\ desk' = after(desk.policyDraft, desk.guestAccess)
    /\ write' = Absent
    /\ UNCHANGED <<users, reads, others, writes>>

\* pairingTick: every few seconds while a code is shown
PairingTick ==
    /\ pairing.code /\ Cardinality(reads) < MaxLoads
    /\ reads' = reads \cup {users}
    /\ UNCHANGED <<users, listed, desk, write, pairing, others, writes>>

TickRead ==
    \E list \in reads :
      /\ reads' = reads \ {list}
      /\ Shown(list)
      /\ desk' = [desk EXCEPT !.policyDraft = PolicyAfter(list), !.guestAccess = list.guestAccess]
      /\ UNCHANGED <<users, write, others, writes>>

CodeExpires ==
    /\ pairing.code
    /\ pairing' = [pairing EXCEPT !.code = FALSE]
    /\ users' = [users EXCEPT !.code = FALSE]
    /\ UNCHANGED <<listed, desk, write, reads, others, writes>>

\* Home Assistant uses the code
CompanionPairs ==
    /\ users.code /\ others < MaxChanges
    /\ users' = [users EXCEPT !.code = FALSE, !.companion = [paired |-> TRUE, at |-> @.at + 1]]
    /\ others' = others + 1
    /\ UNCHANGED <<listed, desk, write, reads, pairing, writes>>

\* Another administrator changes an account
OtherAdmin ==
    /\ others < MaxChanges
    /\ \E n \in Names, roles \in {{}, Roles} :
         /\ users.accounts[n] # Absent
         /\ users' = Stored(users, [op |-> "save", id |-> n, value |-> Absent,
                                    draft |-> [roles |-> roles, disabled |-> FALSE, custom |-> FALSE]])
    /\ users' # users
    /\ others' = others + 1
    /\ UNCHANGED <<listed, desk, write, reads, pairing, writes>>

\* What is drafted; MaxEdits bounds it
Drafting ==
    /\ desk.edits < MaxEdits
    /\ \/ \E id \in Ids, r \in Roles : ToggleRole(id, r)
       \/ \E id \in Ids, c \in {Catalog[r].category : r \in Roles} : ToggleGroup(id, c)
       \/ \E id \in Ids : SetActive(id)
       \/ SetCustom \/ StartCreate \/ TypePolicy

Next ==
    \/ Drafting
    \/ \E id \in Ids : Discard(id) \/ Save(id) \/ RemoveUser(id)
    \/ Confirm \/ SavePolicy \/ SaveGuestAccess
    \/ CreatePairingCode \/ DropPairingCode \/ Unpair \/ Answered \/ Failed \/ Reloaded
    \/ PairingTick \/ TickRead \/ CodeExpires \/ CompanionPairs \/ OtherAdmin

Spec == Init /\ [][Next]_usersVars

-----------------------------------------------------------------------------
\* Two drafts may each take the administration from one of two accounts, and
\* the page lets both be saved; whatever is saved in whatever order, somebody
\* active can still administer the users (locks, save, checkLastAdmin).
AdminRemains == Admins(users.accounts) # {}

\* However roles and groups are switched, a draft holds only roles its kind
\* of account may hold, each with the role it requires, and nobody's draft
\* bars himself (toggleRole, toggleGroup, setActive).
DraftsAreAllowed ==
    \A id \in Ids : desk.drafts[id] # Absent =>
      /\ desk.drafts[id].roles \subseteq Available(KindOf(id)) \cup SavedSnapshot(listed, id).roles
      /\ \A r \in desk.drafts[id].roles : Catalog[r].requires \in desk.drafts[id].roles \cup {""}
      /\ id = Self => ~desk.drafts[id].disabled

\* The last administrator the page knows of keeps the role in his draft,
\* whatever group is switched: no step takes it from him while no other
\* account has it (locks).
LastAdminIsLocked ==
    \A id \in Names :
         /\ desk'.drafts[id] # Absent
         /\ listed.accounts[id] # Absent /\ LockContext(id).otherAdmins = 0 /\ AdminRole \in DraftOf(id).roles
         => AdminRole \in desk'.drafts[id].roles

\* What is typed as the policy stays while the list is read again, which
\* happens every few seconds while a code is shown (load).
PolicyDraftStays ==
    PolicyDirty /\ listed' # listed => desk'.policyDraft = desk.policyDraft

\* A code for pairing once more stays until the node has a pairing the page
\* did not know when the code was made (load: a re-pair keeps the code), unless
\* a list asked for before the code was there comes late.
CodeStaysUntilPaired ==
    pairing.code /\ ~pairing'.code /\ (\E list \in reads \ pairing.late : reads' = reads \ {list})
         => listed'.companion.paired /\ (~pairing.wasPaired \/ listed'.companion.at > pairing.baseline)
=============================================================================
