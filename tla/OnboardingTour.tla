---------------------------- MODULE OnboardingTour ----------------------------
(***************************************************************************)
(* The guided tours of the dashboard (onboarding.js with                   *)
(* onboarding-model.js): the setup of an administrator, the news of a      *)
(* release ("explore"), the welcome and the change of one setup step.      *)
(* A run survives a reload: its mode, its first step and its index are     *)
(* written to the account, with the tours that still wait.  The checklist  *)
(* (onboarding-checklist.js) starts tours of its own.                      *)
(*                                                                         *)
(* A write reaches the account when it is sent; writes that fail or        *)
(* overtake one another are not modelled.  The 600 ms before a reloaded    *)
(* page takes its run up again are: nobody uses the checklist in them.     *)
(***************************************************************************)
EXTENDS Integers, Sequences, FiniteSets, SequencesExt

CONSTANTS
    Setup,     \* the setup steps: [id, need, device, check]
    Explore,   \* the versions, the current one first: sequences of
               \* [id, stale, details, instead, steps] with [need, device]
    Welcome,   \* the welcome steps: [id, need, device, check]
    Users,     \* who may sign in: [role, rights, welcome]
    MaxLoads, MaxActs, Absent

VARIABLES user, device,
          kept,   \* the account: [done, status, seen, welcomed, run, queue]
          tour,   \* the store of the page
          timers, \* queued tours about to be started by close()
          stood,  \* the step shown when the page was reloaded, "" if none
          loads, acts

tourVars == <<user, device, kept, tour, timers, stood, loads, acts>>

Devices == {"phone", "desktop"}
News == "@news"
SetupIntro == [id |-> "setup-intro", need |-> Absent, device |-> "any", check |-> "intro"]
NewsIntro == [SetupIntro EXCEPT !.id = "explore-intro", !.check = "news"]
IsIntro(step) == step.check \in {"intro", "news"}
NoRun == Absent
Items == ToSet(FlattenSeq(Explore))
StepIds == {s.id : s \in ToSet(Setup)}

-----------------------------------------------------------------------------
(* The steps of a run (obModel). *)

DeviceFits(step, d) == step.device \in {"any", d}
RightsFit(step) == step.need = Absent \/ step.need \in user.rights
StepAllowed(step) == DeviceFits(step, device) /\ RightsFit(step)
StepsFrom(item) == SelectSeq(item.steps, StepAllowed)

StateOf(t, id) == IF id \in DOMAIN t.status THEN t.status[id] ELSE "open"

IndexOf(steps, id) == SelectInSeq(steps, LAMBDA s : s.id = id)

SetupSteps(t, from, all) ==
    LET Wanted(s) == StepAllowed(s) /\ (all \/ StateOf(t, s.id) \notin {"done", "installer"} \/ s.id = from)
        open == SelectSeq(Setup, Wanted)
        rest == SubSeq(open, IF IndexOf(open, from) = 0 THEN 1 ELSE IndexOf(open, from), Len(open))
    IN  IF user.role # "admin" THEN <<>>
        ELSE IF from = "" /\ SetupIntro.id \notin t.seen /\ rest # <<>>
        THEN <<SetupIntro>> \o rest ELSE rest

ChangeSteps(from) == SelectSeq(Setup, LAMBDA s : s.id = from /\ StepAllowed(s))

\* The version a run is about: that of its first item, else the current one
VersionOf(from) ==
    LET v == SelectInSeq(Explore, LAMBDA items : \E i \in ToSet(items) : i.id = from)
    IN  IF from \in {"", News} THEN Explore[1] ELSE IF v = 0 THEN <<>> ELSE Explore[v]

ItemSteps(item) ==
    [i \in 1..Len(StepsFrom(item)) |->
        [id |-> item.id, need |-> StepsFrom(item)[i].need, device |-> StepsFrom(item)[i].device, check |-> "leave"]]

ExploreSteps(t, from, every) ==
    LET all == every /\ from # News
        Wanted(i) == ~i.stale /\ IF from \notin {"", News} /\ ~all THEN i.id = from ELSE all \/ i.id \notin t.seen
        steps == FlattenSeq([n \in 1..Len(SelectSeq(VersionOf(from), Wanted)) |->
                                ItemSteps(SelectSeq(VersionOf(from), Wanted)[n])])
    IN  IF from = News /\ steps # <<>> THEN <<NewsIntro>> \o steps ELSE steps

BuildSteps(t, mode, from, all) ==
    CASE mode = "setup" -> SetupSteps(t, from, all)
      [] mode = "change" -> ChangeSteps(from)
      [] mode = "explore" -> ExploreSteps(t, from, all)
      [] mode = "welcome" -> SelectSeq(Welcome, StepAllowed)

HasTour(item) == ~item.stale /\ StepsFrom(item) # <<>>
UnseenCount(t) == Cardinality({i \in ToSet(Explore[1]) : HasTour(i) /\ i.id \notin t.seen})

\* newsOfferWanted
NewsWanted(t) ==
    /\ ~t.active /\ t.run = NoRun /\ t.finished = Absent
    /\ user.role = "admin" => t.done
    /\ UnseenCount(t) > 0
    /\ t.dismissed < UnseenCount(t)

\* The first step from `index` that this device shows, 0 if none does
NextAfterResize(t, d) ==
    LET fit == {i \in t.index..Len(t.steps) : DeviceFits(t.steps[i], d)}
    IN  IF fit = {} THEN 0 ELSE Min(fit)

Step(t) == t.steps[t.index]
HasStep(t) == t.index \in 1..Len(t.steps)
Mode(t) == IF t.run = NoRun THEN "none" ELSE t.run.mode
IsLast(t) == t.index >= Len(t.steps)

-----------------------------------------------------------------------------
(* What the store does.  Each operator gives the store with the account   *)
(* under "kept"; a guest has no account.                                   *)

Write(t, field, value) == IF user.role = "guest" THEN t ELSE [t EXCEPT !.kept[field] = value]

RunToKeep(t) ==
    IF t.run = NoRun THEN NoRun
    ELSE [t.run EXCEPT !.from = IF Mode(t) = "setup" /\ t.index > 1 /\ HasStep(t) THEN Step(t).id ELSE @]

PersistRun(t) ==
    LET now == IF t.run = NoRun THEN t ELSE [t EXCEPT !.run.index = t.index]
    IN  Write(now, "run", RunToKeep(now))

PersistQueue(t) == Write(t, "queue", SelectSeq(t.queue, LAMBDA m : m # "news"))

\* show() of a step: whether it is ticked off already
Shown(t) == [t EXCEPT !.ticked = Mode(t) = "setup" /\ HasStep(t) /\ StateOf(t, Step(t).id) = "done"]

Begin(t, mode, from, index, all) ==
    LET steps == BuildSteps(t, mode, from, all)
        i == IF index < Len(steps) THEN index ELSE Len(steps)
    IN  Shown(PersistRun([t EXCEPT !.steps = steps, !.index = i, !.active = TRUE, !.finished = Absent,
                                   !.run = [mode |-> mode, from |-> from, index |-> i, all |-> all]]))

ModeOf(queued) == IF queued = "news" THEN "explore" ELSE queued
FromOf(queued) == IF queued = "news" THEN News ELSE ""

\* The first queued tour that has steps starts; those before it have none
AdvanceQueue(t) ==
    LET n == SelectInSeq(t.queue, LAMBDA m : BuildSteps(t, ModeOf(m), FromOf(m), FALSE) # <<>>)
        emptied == [t EXCEPT !.queue = <<>>]
    IN  CASE t.queue = <<>> -> PersistQueue(t)
          [] t.queue # <<>> /\ n = 0 -> PersistQueue(Write([emptied EXCEPT !.run = NoRun], "run", NoRun))
          [] n > 0 -> PersistQueue(Begin([t EXCEPT !.queue = SubSeq(@, n + 1, Len(@))],
                                         ModeOf(t.queue[n]), FromOf(t.queue[n]), 1, FALSE))

Start(t, mode, from, index, all) ==
    IF BuildSteps(t, mode, from, all) = <<>>
    THEN AdvanceQueue(Write([t EXCEPT !.run = NoRun], "run", NoRun))
    ELSE Begin(t, mode, from, index, all)

SeeItem(t, id) ==
    LET seen == [t EXCEPT !.seen = @ \cup {id}] IN Write(seen, "seen", seen.kept.seen \cup {id})

MarkStep(t, state) ==
    LET id == Step(t).id
        marked == [t EXCEPT !.status = (id :> state) @@ @]
    IN  CASE ~HasStep(t) -> t
          [] HasStep(t) /\ Step(t).check = "news" -> t
          [] HasStep(t) /\ Step(t).check = "intro" -> SeeItem(t, id)
          [] HasStep(t) /\ ~IsIntro(Step(t)) /\ Mode(t) \in {"setup", "change"} ->
                IF user.role # "admin" \/ (StateOf(t, id) = "done" /\ state # "done") THEN t
                ELSE Write(marked, "status", (id :> state) @@ marked.kept.status)
          [] OTHER -> IF state = "done" THEN SeeItem(t, id) ELSE t

Closed(t) == Write([t EXCEPT !.active = FALSE, !.run = NoRun, !.finished = Absent, !.steps = <<>>], "run", NoRun)

\* Only an administrator has a setup
CompleteSetup(t) == Write([t EXCEPT !.done = TRUE], "done", TRUE)

\* markWelcomed: a guest remembers it in the session
Welcomed(t) == Write([t EXCEPT !.welcomed = TRUE, !.here = user.role = "guest" \/ @], "welcomed", TRUE)

Finished(t) ==
    LET ended == CASE Mode(t) = "setup" -> CompleteSetup([t EXCEPT !.finished = "setup"])
                   [] Mode(t) = "explore" -> [t EXCEPT !.finished = "explore"]
                   [] Mode(t) = "welcome" -> Welcomed([t EXCEPT !.finished = "welcome"])
    IN  PersistRun([ended EXCEPT !.run = NoRun])

\* A step on: the watch on the index shows it and writes the run
At(t, index) == Shown(PersistRun([t EXCEPT !.index = index]))

-----------------------------------------------------------------------------
(* Loading the page. *)

FreshKept == [done |-> FALSE, status |-> <<>>, seen |-> {}, welcomed |-> FALSE, run |-> NoRun, queue |-> <<>>]

\* onboardingSessionQueue
Offered(k) ==
    (IF user.role = "admin" /\ ~k.done THEN {"setup"} ELSE {})
    \cup (IF user.welcome /\ ~k.welcomed THEN {"welcome"} ELSE {"explore"})

WithQueued(t, mode, offered) ==
    IF offered /\ t.run = NoRun /\ mode \notin ToSet(t.queue)
    THEN PersistQueue([t EXCEPT !.queue = Append(@, mode)]) ELSE t

\* The welcome of a guest is remembered by the session only
WelcomeWanted(here) == ~(user.role = "guest" /\ here)

Loaded(k, dismissed, here) ==
    LET fresh == [done |-> k.done, status |-> k.status, seen |-> k.seen, welcomed |-> k.welcomed,
                  run |-> k.run, queue |-> k.queue, active |-> FALSE, steps |-> <<>>, index |-> 1,
                  finished |-> Absent, dismissed |-> dismissed, here |-> here, ticked |-> FALSE,
                  resume |-> FALSE, kept |-> k]
        queued == WithQueued(WithQueued(fresh, "setup", "setup" \in Offered(k)),
                             "welcome", "welcome" \in Offered(k) /\ WelcomeWanted(here))
        offer == IF queued.queue = <<>> /\ NewsWanted(queued) THEN [queued EXCEPT !.queue = <<"news">>] ELSE queued
    IN  [offer EXCEPT !.resume = offer.run # NoRun \/ offer.queue # <<>>]

\* The store without the account, and the account
Keep(t) == tour' = [t EXCEPT !.kept = Absent] /\ kept' = t.kept
Store == [tour EXCEPT !.kept = kept]

Init ==
    /\ user \in Users
    /\ device \in Devices
    /\ LET t == Loaded(FreshKept, 0, FALSE)
       IN  kept = t.kept /\ tour = [t EXCEPT !.kept = Absent]
    /\ timers = 0
    /\ stood = ""
    /\ loads = 0
    /\ acts = 0

\* A reload keeps only the account and the session's own notes
Reload ==
    /\ loads < MaxLoads
    /\ loads' = loads + 1
    /\ Keep(Loaded(kept, tour.dismissed, tour.here))
    /\ timers' = 0
    /\ stood' = IF tour.active /\ HasStep(tour) THEN Step(tour).id ELSE ""
    /\ UNCHANGED <<user, device, acts>>

\* Where a kept run goes on: a setup begins with its kept step already
TakenUp(run) == IF run.mode = "setup" /\ run.from # "" THEN 1 ELSE run.index

\* The timer of obBar.init
Resume ==
    /\ tour.resume
    /\ LET t == [Store EXCEPT !.resume = FALSE]
       IN  Keep(IF t.run # NoRun THEN Start(t, t.run.mode, t.run.from, TakenUp(t.run), t.run.all)
                ELSE AdvanceQueue(t))
    /\ UNCHANGED <<user, device, timers, stood, loads, acts>>

-----------------------------------------------------------------------------
(* The bar. *)

Act == /\ ~tour.resume
       /\ acts < MaxActs
       /\ acts' = acts + 1
       /\ UNCHANGED <<user, stood, loads>>

Close(t) == Keep(Closed(t)) /\ timers' = timers + 1
End(t) == IF Mode(t) \in {"setup", "explore", "welcome"} THEN Keep(Finished(t)) /\ UNCHANGED timers ELSE Close(t)
Onward(t) == IF IsLast(t) THEN End(t) ELSE Keep(At(t, t.index + 1)) /\ UNCHANGED timers
Dismissed(t) == [t EXCEPT !.dismissed = UnseenCount(t)]

NextStep ==
    /\ tour.active /\ Act
    /\ IF tour.finished # Absent THEN Close(Store) ELSE Onward(MarkStep(Store, "done"))
    /\ UNCHANGED device

OnStep == tour.active /\ tour.finished = Absent /\ HasStep(tour)

\* skip(): the news offer is only noted, a setup is done with
Skip(t) ==
    IF HasStep(t) /\ Step(t).check = "news" THEN Close(Dismissed(t))
    ELSE Close(IF Mode(t) = "setup" THEN CompleteSetup(t) ELSE t)

Later ==
    /\ OnStep /\ ~tour.ticked /\ ~IsIntro(Step(tour)) /\ Act
    /\ IF Mode(tour) \in {"explore", "welcome"}
       THEN IF IsLast(tour) THEN Skip(Store) ELSE Onward(Store)
       ELSE Onward(MarkStep(Store, "later"))
    /\ UNCHANGED device

SkipTour == OnStep /\ Act /\ Skip(Store) /\ UNCHANGED device

\* nextTime: the news are noted; any other run stays at the account
NextTime ==
    /\ OnStep /\ IsIntro(Step(tour)) /\ Act
    /\ IF Step(tour).check = "news" THEN Close(Dismissed(Store))
       ELSE Keep([Store EXCEPT !.active = FALSE, !.steps = <<>>]) /\ UNCHANGED timers
    /\ UNCHANGED device

\* show() finds no target and goes on
Lost ==
    /\ OnStep /\ ~IsIntro(Step(tour)) /\ Act
    /\ Onward(Store)
    /\ UNCHANGED device

\* watchDone: the user changed what the step is about
Changed ==
    /\ OnStep /\ Step(tour).check = "change" /\ ~tour.ticked /\ Act
    /\ Keep([MarkStep(Store, "done") EXCEPT !.ticked = TRUE])
    /\ UNCHANGED <<device, timers>>

\* The bar's way to the checklist closes a finished tour
ToChecklist ==
    /\ tour.active /\ tour.finished # Absent /\ Act
    /\ Close(Store)
    /\ UNCHANGED device

Rotate ==
    /\ Act
    /\ device' \in Devices \ {device}
    /\ LET n == NextAfterResize(tour, device')
       IN  IF ~tour.active \/ tour.steps = <<>> \/ n = tour.index THEN UNCHANGED <<kept, tour, timers>>
           ELSE IF n = 0 THEN End(Store)
           ELSE Keep(At(Store, n)) /\ UNCHANGED timers

Timer ==
    /\ timers > 0
    /\ timers' = timers - 1
    /\ Keep(AdvanceQueue(Store))
    /\ UNCHANGED <<user, device, stood, loads, acts>>

-----------------------------------------------------------------------------
(* The checklist. *)

\* Mutant: the tours that wait stay queued.
MutUnqueued(t) == t

\* run(): what waits is dropped
Unqueued(t) == [t EXCEPT !.queue = <<>>]

Run(mode, from, index, all) ==
    /\ Act
    /\ Keep(Start(Unqueued(Store), mode, from, index, all))
    /\ UNCHANGED <<device, timers>>

ActOnSetup(id) ==
    /\ user.role = "admin"
    /\ Run(IF StateOf(tour, id) \in {"open", "later"} THEN "setup" ELSE "change", id, 1, FALSE)

\* exploreState
NewsState(item) ==
    LET seen == IF item.id \in tour.seen THEN "seen" ELSE "new"
        byRights == SelectSeq(item.steps, RightsFit)
    IN  CASE item.steps = <<>> -> IF seen = "seen" THEN "seen" ELSE "text"
          [] item.steps # <<>> /\ byRights = <<>> -> "text"
          [] byRights # <<>> /\ StepsFrom(item) = <<>> -> "other-device"
          [] StepsFrom(item) # <<>> -> IF item.stale THEN "stale" ELSE seen

ReadItem(item) ==
    /\ NewsState(item) = "text"
    /\ Act
    /\ Keep(SeeItem(Store, item.id))
    /\ UNCHANGED <<device, timers>>

\* replacementStart: the item that took the tour over, at one of its steps
RunInstead(item) ==
    /\ NewsState(item) = "stale" /\ item.instead # Absent
    /\ Run("explore", item.instead, 1, FALSE)

RunItem(item) ==
    /\ NewsState(item) \in {"seen", "new"} /\ item.steps # <<>>
    /\ Run("explore", item.id, 1, FALSE)

ExploreStart ==
    /\ \E i \in ToSet(Explore[1]) : HasTour(i)
    /\ Run("explore", "", 1, UnseenCount(tour) = 0)

\* catchUp: every tour of an older version
CatchUp(v) ==
    /\ v > 1
    /\ LET i == SelectInSeq(Explore[v], HasTour)
       IN  i # 0 /\ Run("explore", Explore[v][i].id, 1, TRUE)

Checklist ==
    \/ \E id \in StepIds : ActOnSetup(id)
    \/ \E item \in Items : RunInstead(item) \/ RunItem(item)
    \/ ExploreStart
    \/ \E v \in DOMAIN Explore : CatchUp(v)

Next ==
    \/ Reload \/ Resume \/ Timer
    \/ NextStep \/ Later \/ SkipTour \/ NextTime \/ Lost \/ Changed \/ ToChecklist \/ Rotate
    \/ Checklist
    \/ \E item \in Items : ReadItem(item)

Spec == Init /\ [][Next]_tourVars

-----------------------------------------------------------------------------
(* Never two bars at once: a tour that runs is replaced only by one that   *)
(* the user starts from the checklist; the queue and the timers of close() *)
(* wait for it to end.                                                     *)
OneTourAtATime == tour.active /\ (Timer \/ Resume) => tour'.run = tour.run /\ tour'.steps = tour.steps

(* What the account keeps of the run is where the run stands, whatever     *)
(* ended, postponed, turned or replaced it: a reload never starts a tour   *)
(* that is over and never forgets one that is not.                         *)
KeptIsTheRun ==
    user # Absent /\ user.role # "guest" =>
        /\ (kept.run = NoRun) = (tour.run = NoRun)
        /\ tour.run # NoRun => kept.run.mode = tour.run.mode /\ kept.run.all = tour.run.all
        /\ tour.active /\ tour.run # NoRun => kept.run.index = tour.index

(* A welcome that came to its end does not start again, for an account     *)
(* or for a guest, who only has the session.                               *)
WelcomedOnce ==
    tour.welcomed \/ tour.here => (Mode(tour') = "welcome" => Mode(tour) = "welcome")

(* "Nach Neuladen oder Login: beim selben Schritt weiter"                  *)
(* (onboarding.js:623): a setup that a reload interrupted goes on at the   *)
(* step that was shown, as long as the run still has that step.            *)
SetupGoesOn ==
    Resume /\ tour.run # NoRun /\ Mode(tour) = "setup" /\ stood # "" /\ tour'.active /\ Mode(tour') = "setup"
           /\ stood \in {s.id : s \in ToSet(tour'.steps)}
       => tour'.steps[tour'.index].id = stood
=============================================================================
