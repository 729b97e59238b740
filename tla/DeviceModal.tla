----------------------------- MODULE DeviceModal -----------------------------
(***************************************************************************)
(* The dialog of one device (device-modal.js): its detail is loaded when   *)
(* it opens and again on every push, its activity after each detail, and   *)
(* its favourites and its icon are saved at once, shown before the answer  *)
(* and taken back when it fails.  detailRequestToken tells which answers   *)
(* still count: a request is live until the token moves on.  The writes    *)
(* wait for one another (appearanceQueue).                                 *)
(*                                                                         *)
(* A failed write is one the server refused; a lost answer is not          *)
(* modelled.  Sub-devices share the page but not this state.               *)
(***************************************************************************)
EXTENDS Integers, Sequences, FiniteSets, SequencesExt

CONSTANTS Devices, Refs, Icons, FavoriteLimit, MaxGestures, MaxPushes, Absent

VARIABLES stored,    \* device -> [icon, favorite_refs] on the server
          selected,  \* selectedDeviceId
          detail,    \* deviceDetail: [device, look], or Absent
          log,       \* the devices the rows of activityLog are of
          flights,   \* requests under way: [for, device, live, read]
          jobs,      \* appearanceQueue: the head is at work
          work,      \* the head's [stage, field, before, next, doubt], or Absent
          undo,      \* the action of the last toast: a job, or Absent
          doubt,     \* history: the look shown may be one that was never confirmed
          gestures, pushes

modalVars == <<stored, selected, detail, log, flights, jobs, work, undo, doubt, gestures, pushes>>

Init ==
    /\ stored = [d \in Devices |-> [icon |-> "", favorite_refs |-> {}]]
    /\ selected = Absent
    /\ detail = Absent
    /\ log = {}
    /\ flights = {}
    /\ jobs = <<>>
    /\ work = Absent
    /\ undo = Absent
    /\ doubt = FALSE
    /\ gestures = 0
    /\ pushes = 0

Gesture == gestures < MaxGestures /\ gestures' = gestures + 1

\* The token moves on: what is under way no longer counts
Outdated == {[f EXCEPT !.live = FALSE] : f \in flights}
Request(purpose, d) == [for |-> purpose, device |-> d, live |-> TRUE, read |-> Absent]

\* applyAppearance: only while the dialog still shows that device
Applied(d, look) ==
    detail' = IF selected = d /\ detail # Absent THEN [detail EXCEPT !.look = look] ELSE detail

-----------------------------------------------------------------------------
(* Opening, refreshing, closing. *)

OpenDevice(d) ==
    /\ selected = Absent
    /\ Gesture
    /\ selected' = d
    /\ doubt' = FALSE
    /\ detail' = Absent
    /\ log' = {}
    /\ flights' = Outdated \cup {Request("detail", d)}
    /\ UNCHANGED <<stored, jobs, work, undo, pushes>>

\* refreshSelectedDevice, on every push
RefreshSelectedDevice ==
    /\ selected # Absent
    /\ pushes < MaxPushes
    /\ pushes' = pushes + 1
    /\ flights' = Outdated \cup {Request("detail", selected)}
    /\ UNCHANGED <<stored, selected, detail, log, jobs, work, undo, gestures, doubt>>

CloseDeviceDetail ==
    /\ selected # Absent
    /\ selected' = Absent
    /\ detail' = Absent
    /\ log' = {}
    /\ flights' = Outdated
    /\ UNCHANGED <<stored, jobs, work, undo, gestures, pushes, doubt>>

\* The server reads what it answers
Read(f) ==
    /\ f.read = Absent
    /\ flights' = (flights \ {f}) \cup {[f EXCEPT !.read = stored[f.device]]}
    /\ UNCHANGED <<stored, selected, detail, log, jobs, work, undo, gestures, pushes, doubt>>

Counts(f) == f.live /\ selected = f.device

\* The dialog has not heard back from a load that still counts
Waits == \E f \in flights : Counts(f) /\ f.for # "activity"

\* loadActivity: whether the rows are still wanted
RowsCount(f) == Counts(f)

\* The job ends; a write that may be taken back leaves its undo
JobEnds == jobs' = Tail(jobs) /\ work' = Absent
Reloaded(f) ==
    IF f.for = "reload"
    THEN JobEnds /\ undo' = IF Head(jobs).undoable
                            THEN [device |-> f.device, field |-> work.field,
                                  value |-> work.before[work.field], undoable |-> FALSE]
                            ELSE Absent
    ELSE UNCHANGED <<jobs, work, undo>>

\* loadDeviceDetail: the detail, then the activity under the same token
DetailArrives(f) ==
    /\ f.for \in {"detail", "reload"}
    /\ f.read # Absent
    /\ IF Counts(f)
       THEN /\ detail' = [device |-> f.device, look |-> f.read]
            /\ flights' = (flights \ {f}) \cup {Request("activity", f.device)}
       ELSE flights' = flights \ {f} /\ UNCHANGED detail
    /\ doubt' = (doubt /\ ~Counts(f))
    /\ Reloaded(f)
    /\ UNCHANGED <<stored, selected, log, gestures, pushes>>

\* loadActivity and mergeActivity
ActivityArrives(f) ==
    /\ f.for = "activity"
    /\ f.read # Absent
    /\ flights' = flights \ {f}
    /\ log' = IF RowsCount(f) THEN log \cup {f.device} ELSE log
    /\ UNCHANGED <<stored, selected, detail, jobs, work, undo, gestures, pushes, doubt>>

\* A request fails: what is shown stays
RequestFails(f) ==
    /\ pushes < MaxPushes
    /\ flights' = flights \ {f}
    /\ pushes' = pushes + 1
    /\ doubt' = (doubt \/ (Counts(f) /\ f.for # "activity"))
    /\ Reloaded(f)
    /\ UNCHANGED <<stored, selected, detail, log, gestures>>

-----------------------------------------------------------------------------
(* Favourites and icon. *)

Enqueue(job) == jobs' = Append(jobs, job)

ToggleFavorite(ref) ==
    /\ detail # Absent
    /\ Gesture
    /\ Enqueue([device |-> selected, field |-> "favorite_refs", value |-> ref, undoable |-> TRUE])
    /\ UNCHANGED <<stored, selected, detail, log, flights, work, undo, pushes, doubt>>

SaveIcon(icon) ==
    /\ detail # Absent
    /\ Gesture
    /\ Enqueue([device |-> selected, field |-> "icon", value |-> icon, undoable |-> TRUE])
    /\ UNCHANGED <<stored, selected, detail, log, flights, work, undo, pushes, doubt>>

\* The toast's action writes back the whole value the field had
TakeBack ==
    /\ undo # Absent
    /\ Gesture
    /\ Enqueue(undo)
    /\ undo' = Absent
    /\ UNCHANGED <<stored, selected, detail, log, flights, work, pushes, doubt>>

\* A favourite beyond the limit is only reported
Refused(look, job) ==
    /\ job.undoable
    /\ job.field = "favorite_refs"
    /\ job.value \notin look.favorite_refs
    /\ Cardinality(look.favorite_refs) >= FavoriteLimit

\* What the field becomes: a star is turned over, the others are set
NewValue(look, job) ==
    IF job.field = "favorite_refs" /\ job.undoable
    THEN SymDiff(look.favorite_refs, {job.value})
    ELSE job.value

\* The turn of a job: it starts from what the dialog shows, or from the
\* server when the dialog shows another device by now (appearanceFor)
StartJob ==
    /\ jobs # <<>>
    /\ work = Absent
    /\ LET job    == Head(jobs)
           before == IF selected = job.device /\ detail # Absent THEN detail.look ELSE stored[job.device]
           next   == [before EXCEPT ![job.field] = NewValue(before, job)]
          unsure == selected = job.device /\ detail # Absent /\ (doubt \/ Waits)
       IN IF Refused(before, job)
          THEN jobs' = Tail(jobs) /\ UNCHANGED <<work, flights, detail>>
          ELSE /\ work' = [stage |-> "sent", field |-> job.field, before |-> before, next |-> next,
                          doubt |-> unsure]
               /\ flights' = IF selected = job.device THEN Outdated ELSE flights
               /\ Applied(job.device, next)
               /\ UNCHANGED jobs
    /\ UNCHANGED <<stored, selected, log, undo, gestures, pushes, doubt>>

PutStored ==
    /\ work # Absent
    /\ work.stage = "sent"
    /\ stored' = [stored EXCEPT ![Head(jobs).device] = work.next]
    /\ work' = [work EXCEPT !.stage = "stored"]
    /\ UNCHANGED <<selected, detail, log, flights, jobs, undo, gestures, pushes, doubt>>

\* The token moves on a second time once the write is confirmed
AfterWrite(d) == IF selected = d THEN Outdated ELSE flights

PutConfirmed ==
    /\ work # Absent
    /\ work.stage = "stored"
    /\ work' = [work EXCEPT !.stage = "reload"]
    /\ flights' = AfterWrite(Head(jobs).device) \cup {Request("reload", Head(jobs).device)}
    /\ UNCHANGED <<stored, selected, detail, log, jobs, undo, gestures, pushes, doubt>>

PutRefused ==
    /\ work # Absent
    /\ work.stage = "sent"
    /\ pushes < MaxPushes
    /\ pushes' = pushes + 1
    /\ Applied(Head(jobs).device, work.before)
    /\ doubt' = IF selected = Head(jobs).device /\ detail # Absent THEN work.doubt ELSE doubt
    /\ JobEnds
    /\ UNCHANGED <<stored, selected, log, flights, undo, gestures>>

Next ==
    \/ \E d \in Devices : OpenDevice(d)
    \/ RefreshSelectedDevice
    \/ CloseDeviceDetail
    \/ \E f \in flights : Read(f)
    \/ \E f \in flights : DetailArrives(f)
    \/ \E f \in flights : ActivityArrives(f)
    \/ \E f \in flights : RequestFails(f)
    \/ \E r \in Refs : ToggleFavorite(r)
    \/ \E i \in Icons : SaveIcon(i)
    \/ TakeBack
    \/ StartJob
    \/ PutStored
    \/ PutConfirmed
    \/ PutRefused

Spec == Init /\ [][Next]_modalVars

-----------------------------------------------------------------------------

\* When nothing is under way, an open dialog shows the favourites and the icon
\* the server has, unless its last load failed or a write that was refused had
\* started while a load was still to be answered: no answer read before a
\* write outlives it, and a refused write is taken back (writeAppearanceField,
\* device-modal.js:178-199).
ShowsWhatIsStored ==
    (flights = {} /\ jobs = <<>> /\ ~doubt /\ detail # Absent) => detail.look = stored[selected]

\* No sequence of stars, undone stars and pushes stores more favourites than
\* a device may have (toggleFavorite: the limit is checked when the turn of
\* the write comes, not when the star is clicked).
FavouritesAreFew == \A d \in Devices : Cardinality(stored[d].favorite_refs) <= FavoriteLimit

\* What the dialog shows is of the device it is open for: detail and activity
\* of a device closed meanwhile are dropped (detailRequestToken).
ShowsTheDevice ==
    /\ detail # Absent => detail.device = selected
    /\ log \subseteq {selected}

=============================================================================
