------------------------------ MODULE InstallRun ------------------------------
(***************************************************************************)
(* A run as the installer's page follows it (installer/webui/static/js:      *)
(* events.js, run-model.js, screen-run.js, the runs of app.js): the host     *)
(* numbers the events of its bus and keeps them; the page reads them from    *)
(* the last number it knows, over a stream that breaks, is cut by a host     *)
(* whose buffer is full, or comes back with another bus after a restart.     *)
(*                                                                         *)
(* An event is a record; its number is its place in the host's log.  Times   *)
(* and texts are left out.                                                   *)
(* The proof that the result is the run's own stands at the end.             *)
(***************************************************************************)
EXTENDS Integers, Sequences, SequencesExt, FiniteSets, SequenceTheorems, TLAPS

CONSTANTS
  Steps,        \* ids of the manifest's steps, in their order
  Attached,     \* steps shown under the one before them (services.js RUN_GROUP_OF)
  Absent,
  Buffer,       \* events the host holds for one reader
  MaxRuns,      \* bound on runs of the host
  MaxRestarts   \* bound on restarts of the host

VARIABLES
  bus,          \* number of the host's bus: one more after each restart
  events,       \* its events
  host,         \* its last run: [id, running, next, came, states, login]
  source,       \* the page's stream: "none", "down", "up"
  greeting,     \* the hello under way
  pipe,         \* numbers of the events under way
  dropped,      \* the host has closed this reader's channel
  lastSeq, busId,
  cut,          \* history: a backlog longer than the buffer was cut
  runScreen,    \* "start", "run", "result"
  mutating,     \* the shell's lock on its switches
  ownRun, runModel, lastRun

hostVars == <<bus, events, host>>
streamVars == <<source, greeting, pipe, dropped, lastSeq, busId, cut>>
screenVars == <<runScreen, mutating, ownRun, runModel, lastRun>>
installVars == <<hostVars, streamVars, screenVars>>

Ids == ToSet(Steps)

--------------------------------------------------------------------------
(* The model of a run, fed with events.                                     *)

Create(run) ==
  [run |-> run, started |-> FALSE, finished |-> FALSE, ok |-> FALSE, failedStep |-> Absent,
   steps |-> [id \in Ids |-> "wait"], order |-> [id \in Ids |-> 0], markers |-> 0, login |-> FALSE]

RunStarted(model, e) == [model EXCEPT !.started = TRUE]

Stepped(model, e) ==
  LET new == model.order[e.id] = 0
  IN [model EXCEPT
        !.markers = IF new THEN @ + 1 ELSE @,
        !.order[e.id] = IF new THEN model.markers + 1 ELSE @,
        !.steps[e.id] = IF e.state = "begin" THEN "run" ELSE e.state,
        !.login = @ \/ e.why = "login"]

RunFinished(model, e) ==
  [model EXCEPT !.finished = TRUE, !.ok = e.ok, !.failedStep = e.id]

Own(model, e) == e.run = model.run

\* The bus carries older runs too: only what follows our own start counts.
Accepts(model, e) ==
  CASE e.type = "run-started" -> ~model.started /\ Own(model, e)
    [] e.type = "step" -> model.started /\ ~model.finished
    [] e.type = "run-finished" -> model.started /\ ~model.finished /\ Own(model, e)

Apply(model, e) ==
  IF ~Accepts(model, e) THEN model
  ELSE CASE e.type = "run-started" -> RunStarted(model, e)
         [] e.type = "step" -> Stepped(model, e)
         [] e.type = "run-finished" -> RunFinished(model, e)

--------------------------------------------------------------------------
(* The stations the screen shows.                                           *)

RunGroups ==
  LET heads == SelectSeq(Steps, LAMBDA id : id \notin Attached)
      under(id) == {other \in Attached : \E k \in 2..Len(Steps) : Steps[k] = other /\ Steps[k - 1] = id}
  IN [k \in DOMAIN heads |-> [head |-> heads[k], ids |-> {heads[k]} \cup under(heads[k])]]

\* An attached step without a marker is passed over once a later station began.
PassedOver(model, group, id) ==
  /\ id # group.head /\ model.steps[id] = "wait"
  /\ \/ model.finished
     \/ /\ model.order[group.head] > 0
        /\ \E other \in Ids \ group.ids : model.order[other] > model.order[group.head]

GroupState(model, group) ==
  LET states == {model.steps[id] : id \in {id \in group.ids : ~PassedOver(model, group, id)}}
  IN CASE "fail" \in states -> "fail"
       [] "fail" \notin states /\ "run" \in states -> "run"
       [] states = {"skip"} -> "skip"
       [] states \subseteq {"ok", "skip"} /\ "ok" \in states -> "ok"
       [] OTHER -> "wait"

Largest(set) == IF set = {} THEN 0 ELSE CHOOSE k \in set : \A other \in set : other <= k

\* The running station, or the one after the last that ended.
Current(model) ==
  LET state == [k \in DOMAIN RunGroups |-> GroupState(model, RunGroups[k])]
      running == {k \in DOMAIN RunGroups : state[k] = "run"}
      last == Largest({k \in DOMAIN RunGroups : state[k] # "wait"})
  IN IF running # {} THEN CHOOSE k \in running : \A other \in running : k <= other
     ELSE IF model.finished THEN (IF last = 0 THEN 1 ELSE last)
     ELSE IF last = Len(RunGroups) THEN last ELSE last + 1

Halves(state) == CASE state = "wait" -> 0 [] state = "run" -> 1 [] OTHER -> 2

\* In halves of a station, of twice their number.
Progress(model) ==
  IF model.finished /\ model.ok THEN 2 * Len(RunGroups)
  ELSE FoldLeft(LAMBDA sum, group : sum + Halves(GroupState(model, group)), 0, RunGroups)

Outcome(model) ==
  [run |-> model.run, ok |-> model.ok, steps |-> model.steps, failedStep |-> model.failedStep,
   login |-> model.login]

--------------------------------------------------------------------------
(* The host.                                                                *)

Publish(e) ==
  /\ events' = Append(events, e)
  /\ IF source # "up" \/ dropped THEN UNCHANGED <<pipe, dropped>>
     ELSE IF Len(pipe) < Buffer THEN pipe' = Append(pipe, Len(events) + 1) /\ UNCHANGED dropped
     ELSE dropped' = TRUE /\ UNCHANGED pipe
  /\ UNCHANGED <<bus, source, greeting, lastSeq, busId, cut>>

StartedBy(id) == [type |-> "run-started", run |-> id]
Idle == [id |-> 0, running |-> FALSE, next |-> 1, came |-> "nothing",
         states |-> [id \in Ids |-> "wait"], login |-> FALSE]
Failed == {id \in Ids : host.states[id] = "fail"}
FailedStep == IF Failed = {} THEN Absent ELSE CHOOSE id \in Failed : TRUE

\* POST /api/run: the host refuses a second run.
BeginRun(id, first) ==
  /\ ~host.running /\ id <= MaxRuns
  /\ host' = [Idle EXCEPT !.id = id, !.running = TRUE, !.next = first]
  /\ Publish(StartedBy(id))

Mark(state, why) ==
  LET id == Steps[host.next]
  IN /\ host' = [host EXCEPT !.states[id] = IF state = "begin" THEN "run" ELSE state,
                             !.login = @ \/ why = "login",
                             !.next = IF state \in {"ok", "skip"} THEN @ + 1 ELSE @]
     /\ Publish([type |-> "step", id |-> id, state |-> state, why |-> why])

HostSteps ==
  /\ host.running /\ Failed = {} /\ host.next <= Len(Steps) /\ UNCHANGED screenVars
  /\ IF host.states[Steps[host.next]] = "run"
     THEN \/ Mark("ok", "") \/ Mark("fail", "")
          \/ Mark("skip", IF Steps[host.next] \in Attached THEN "" ELSE "login")
     ELSE \/ Mark("begin", "")
          \/ /\ Steps[host.next] \in Attached   \* the updater leaves it out
             /\ host' = [host EXCEPT !.next = @ + 1]
             /\ UNCHANGED <<bus, events, streamVars>>

\* At the end of the steps, after a failure, or cancelled.
HostFinishes(ok) ==
  /\ host.running /\ (ok <=> host.next > Len(Steps))
  /\ host' = [host EXCEPT !.running = FALSE, !.came = IF ok THEN "ok" ELSE "failed"]
  /\ Publish([type |-> "run-finished", run |-> host.id, ok |-> ok, id |-> FailedStep])
  /\ UNCHANGED screenVars

\* An earlier run, of another window: the repair of one step, the last.
OtherRun == host.id = 0 /\ BeginRun(host.id + 1, Len(Steps)) /\ UNCHANGED screenVars

\* The log of the job, replayed under the run's id, or under a fresh one.
Replayed(id) ==
  LET began == SelectInSeq(events, LAMBDA e : e = StartedBy(host.id))
  IN <<StartedBy(id)>> \o SubSeq(events, began + 1, Len(events))

Quiet == greeting' = Absent /\ pipe' = <<>> /\ dropped' = FALSE

HostRestarts(resumed) ==
  /\ bus <= MaxRestarts /\ bus' = bus + 1 /\ (resumed => host.running)
  /\ IF resumed
     THEN \E id \in {host.id, host.id + 1} :
            id <= MaxRuns /\ events' = Replayed(id) /\ host' = [host EXCEPT !.id = id]
     ELSE events' = <<>> /\ host' = [Idle EXCEPT !.id = host.id]
  /\ source' = IF source = "up" THEN "down" ELSE source
  /\ Quiet
  /\ UNCHANGED <<lastSeq, busId, cut, screenVars>>

--------------------------------------------------------------------------
(* The stream.                                                              *)

OpenStream == source' = "down" /\ lastSeq' = 0 /\ busId' = Absent /\ cut' = FALSE /\ Quiet
CloseStream == source' = "none" /\ lastSeq' = 0 /\ busId' = Absent /\ UNCHANGED cut /\ Quiet

\* At once, or after the delay of a broken stream; the host fills the channel from lastSeq on.
Connect ==
  /\ source = "down" /\ source' = "up"
  /\ greeting' = [bus |-> bus, run |-> IF host.id = 0 THEN Absent ELSE host.id, running |-> host.running]
  /\ LET since == [k \in 1..(Len(events) - lastSeq) |-> lastSeq + k]
         missed == IF lastSeq >= Len(events) THEN <<>> ELSE since
     IN /\ pipe' = SubSeq(missed, 1, IF Len(missed) < Buffer THEN Len(missed) ELSE Buffer)
        /\ cut' = (cut \/ Len(missed) > Buffer)
  /\ dropped' = FALSE /\ UNCHANGED <<hostVars, lastSeq, busId, screenVars>>

Breaks ==
  /\ source = "up" /\ source' = "down"
  /\ Quiet
  /\ UNCHANGED <<hostVars, lastSeq, busId, cut, screenVars>>

\* What the channel still held is delivered before it ends.
Ends ==
  /\ source = "up" /\ dropped /\ pipe = <<>> /\ greeting = Absent /\ source' = "down"
  /\ dropped' = FALSE /\ UNCHANGED <<hostVars, greeting, pipe, lastSeq, busId, cut, screenVars>>

\* Mutant: the place in the old bus is kept.
MutRestarted(hello) ==
  /\ busId' = hello.bus /\ source' = "down" /\ Quiet /\ UNCHANGED <<lastSeq, cut>>

\* Another bus counts from 1 again.
Restarted(hello) ==
  /\ busId' = hello.bus /\ source' = "down" /\ Quiet /\ lastSeq' = 0 /\ cut' = FALSE

\* The run goes on under the id that hello names.
OnRestart(hello) ==
  /\ ownRun' = IF hello.run # Absent THEN hello.run ELSE ownRun
  /\ runModel' = Create(ownRun')
  /\ UNCHANGED <<runScreen, mutating, lastRun>>

ReceiveHello ==
  /\ source = "up" /\ greeting # Absent /\ UNCHANGED hostVars
  /\ IF busId # Absent /\ busId # greeting.bus
     THEN Restarted(greeting) /\ OnRestart(greeting)
     ELSE /\ busId' = greeting.bus /\ greeting' = Absent
          /\ UNCHANGED <<source, pipe, dropped, lastSeq, cut, screenVars>>

--------------------------------------------------------------------------
(* The screens.                                                             *)

\* One event; a number already seen is a repetition.
ReceiveEvent ==
  /\ source = "up" /\ greeting = Absent /\ pipe # <<>> /\ UNCHANGED <<hostVars, ownRun>>
  /\ LET seq == Head(pipe)
         model == IF seq <= lastSeq THEN runModel ELSE Apply(runModel, events[seq])
     IN /\ runModel' = model
        /\ IF model.finished
           THEN /\ CloseStream
                /\ mutating' = FALSE /\ lastRun' = Outcome(model) /\ runScreen' = "result"
           ELSE /\ lastSeq' = (IF seq <= lastSeq THEN lastSeq ELSE seq) /\ pipe' = Tail(pipe)
                /\ UNCHANGED <<source, greeting, dropped, busId, cut, mutating, lastRun, runScreen>>

--------------------------------------------------------------------------
(* The screens.                                                             *)

ShowRun(run) ==
  /\ mutating' = TRUE /\ lastRun' = Absent /\ ownRun' = run /\ runScreen' = "run"
  /\ runModel' = Create(run)

\* The answer to POST /api/run leads to the screen of the run.
StartRun ==
  /\ runScreen \in {"start", "result"} /\ BeginRun(host.id + 1, 1) /\ ShowRun(host.id + 1)

\* Manifest and selection are there, or failed: the stream opens from the beginning.
ScreenRunInit ==
  /\ runScreen = "run" /\ source = "none" /\ OpenStream /\ UNCHANGED <<hostVars, screenVars>>

\* The window is loaded again: nothing is left of what it knew.
Reload ==
  /\ runScreen \in {"run", "result"} /\ CloseStream /\ UNCHANGED hostVars
  /\ runScreen' = "loading" /\ mutating' = FALSE /\ ownRun' = Absent /\ lastRun' = Absent
  /\ runModel' = Absent

\* A run under way is taken up again.
ShellInit ==
  /\ runScreen = "loading" /\ UNCHANGED <<hostVars, streamVars>>
  /\ IF host.running THEN ShowRun(host.id)
     ELSE runScreen' = "start" /\ UNCHANGED <<mutating, ownRun, runModel, lastRun>>

Init ==
  /\ bus = 1 /\ events = <<>> /\ host = Idle
  /\ source = "none" /\ greeting = Absent /\ pipe = <<>> /\ dropped = FALSE
  /\ lastSeq = 0 /\ busId = Absent /\ cut = FALSE
  /\ runScreen = "loading" /\ mutating = FALSE /\ ownRun = Absent /\ runModel = Absent
  /\ lastRun = Absent

Next ==
  \/ HostSteps \/ OtherRun \/ \E flag \in BOOLEAN : HostFinishes(flag) \/ HostRestarts(flag)
  \/ Connect \/ Breaks \/ Ends \/ ReceiveHello \/ ReceiveEvent
  \/ StartRun \/ ScreenRunInit \/ Reload \/ ShellInit

Spec == Init /\ [][Next]_installVars

--------------------------------------------------------------------------
CaughtUp == runScreen = "run" /\ source = "up" /\ greeting = Absent /\ pipe = <<>> /\ ~dropped

Replay == FoldLeft(Apply, Create(ownRun), events)

\* However often the stream broke and the host restarted, a screen that has read everything
\* shows what the host's log says of its run, unless a backlog was cut; and its bar is full
\* only when no station is left.
ShowsTheRun ==
  (CaughtUp /\ ~cut) =>
    /\ runModel = Replay
    /\ Progress(runModel) = 2 * Len(RunGroups) =>
         \A k \in DOMAIN RunGroups : GroupState(runModel, RunGroups[k]) \in {"ok", "skip", "fail"}

\* The result is that of the run that was started or taken up, step by step.
ResultIsOwn ==
  (runScreen = "result" /\ ~cut /\ host.id = lastRun.run /\ host.came # "nothing")
    => lastRun = [run |-> host.id, ok |-> host.came = "ok", steps |-> host.states,
                  failedStep |-> FailedStep, login |-> host.login]

\* While its run goes on, the screen never goes back to an earlier station, an attached
\* step left out or not.
StationNeverGoesBack ==
  (/\ ~cut /\ runModel # Absent /\ runModel' # Absent /\ ~runModel'.finished
      /\ 0 < runModel.markers /\ runModel.markers <= runModel'.markers)
       => Current(runModel) <= Current(runModel')

--------------------------------------------------------------------------
(* The proof of ResultIsOwn.                                                *)

\* The manifest has steps, and no value stands for none.
RunConstants ==
  /\ Steps \in Seq(Ids) /\ Steps # <<>>
  /\ Buffer \in Nat
  /\ Absent \notin Nat \cup [bus : Nat, run : Nat \cup {Absent}, running : BOOLEAN]

StepStates == {"wait", "run", "ok", "skip", "fail"}
Hosts == [id : Nat, running : BOOLEAN, next : Nat \ {0}, came : {"nothing", "ok", "failed"},
          states : [Ids -> StepStates], login : BOOLEAN]
Reasons == {"", "login"}
Starts == [type : {"run-started"}, run : Nat]
Marks == [type : {"step"}, id : Ids, state : {"begin", "ok", "skip", "fail"}, why : Reasons]
Finishes == [type : {"run-finished"}, run : Nat, ok : BOOLEAN, id : Ids \cup {Absent}]
RunEvents == Starts \cup Marks \cup Finishes
RunModels == [run : Nat, started : BOOLEAN, finished : BOOLEAN, ok : BOOLEAN, failedStep : Ids \cup {Absent},
              steps : [Ids -> StepStates], order : [Ids -> Nat], markers : Nat, login : BOOLEAN]

\* What a page that reads the log of a run from its beginning has after each event.
Follows(seen, log, id) ==
  /\ seen \in [0 .. Len(log) -> RunModels]
  /\ seen[0] = Create(id)
  /\ \A k \in 1 .. Len(log) : seen[k] = Apply(seen[k - 1], log[k])

\* It waits for the start of its run, and nothing comes after the end of it.
Waits(seen, log, id) ==
  \A k \in 0 .. Len(log) :
    /\ seen[k].run = id
    /\ ~seen[k].started => seen[k] = Create(id)
    /\ seen[k].started <=> \E q \in 1 .. k : log[q] = StartedBy(id)
    /\ k < Len(log) => ~seen[k].finished

\* A log that one more event was appended to.
Longer(seen, log, e) ==
  [k \in 0 .. Len(log) + 1 |-> IF k <= Len(log) THEN seen[k] ELSE Apply(seen[Len(log)], e)]

\* A fresh model is one.
LEMMA CreateIsAModel == ASSUME NEW id \in Nat PROVE Create(id) \in RunModels
BY DEF Create, RunModels, StepStates

\* A model is what its fields are.
LEMMA ModelsAreTheirFields ==
  ASSUME NEW m \in RunModels, NEW other \in RunModels,
         m.run = other.run, m.started = other.started, m.finished = other.finished, m.ok = other.ok,
         m.failedStep = other.failedStep, m.steps = other.steps, m.order = other.order,
         m.markers = other.markers, m.login = other.login
  PROVE  m = other
<1>1. \A a \in RunModels :
        a = [run |-> a.run, started |-> a.started, finished |-> a.finished, ok |-> a.ok, failedStep |-> a.failedStep,
             steps |-> a.steps, order |-> a.order, markers |-> a.markers, login |-> a.login]
  BY DEF RunModels
<1> QED BY <1>1

\* An event is of one kind.
LEMMA EventKinds ==
  ASSUME NEW e \in RunEvents
  PROVE  /\ e.type \in {"run-started", "step", "run-finished"}
         /\ e.type = "run-started" => e \in Starts
         /\ e.type = "step" => e \in Marks
         /\ e.type = "run-finished" => e \in Finishes
BY DEF RunEvents, Starts, Marks, Finishes

\* What an event makes of a model: it keeps its run; a model that waits starts with its own start only, and is kept by
\* everything else.
LEMMA ApplyKeeps ==
  ASSUME NEW m \in RunModels, NEW e \in RunEvents
  PROVE  /\ Apply(m, e) \in RunModels
         /\ Apply(m, e).run = m.run
         /\ m.started => Apply(m, e).started
         /\ e = StartedBy(m.run) /\ ~m.started => Apply(m, e) = RunStarted(m, e) /\ Apply(m, e).started
         /\ e # StartedBy(m.run) /\ ~m.started => Apply(m, e) = m
         /\ Apply(m, e).finished => m.finished \/ e.type = "run-finished"
<1>0. /\ m.run \in Nat /\ m.started \in BOOLEAN /\ m.finished \in BOOLEAN /\ m.login \in BOOLEAN
      /\ m.steps \in [Ids -> StepStates] /\ m.order \in [Ids -> Nat] /\ m.markers \in Nat
  BY DEF RunModels
<1>1. CASE e.type = "run-started"
  <2>1. e \in Starts
    BY <1>1, EventKinds
  <2>2. e = [type |-> "run-started", run |-> e.run]
    BY <2>1 DEF Starts
  <2>3. Accepts(m, e) <=> ~m.started /\ e.run = m.run
    BY <1>1 DEF Accepts, Own
  <2>4. e = StartedBy(m.run) <=> e.run = m.run
    BY <2>2 DEF StartedBy
  <2>5. CASE Accepts(m, e)
    <3>1. Apply(m, e) = RunStarted(m, e)
      BY <1>1, <2>5 DEF Apply
    <3>2. RunStarted(m, e) = [m EXCEPT !.started = TRUE]
      BY DEF RunStarted
    <3>3. /\ RunStarted(m, e) \in RunModels /\ RunStarted(m, e).run = m.run
          /\ RunStarted(m, e).started /\ RunStarted(m, e).finished = m.finished
      BY <3>2 DEF RunModels
    <3> QED BY <2>3, <2>4, <2>5, <3>1, <3>3
  <2>6. CASE ~Accepts(m, e)
    <3>1. Apply(m, e) = m
      BY <2>6, <1>1 DEF Apply
    <3> QED BY <2>3, <2>4, <2>6, <3>1
  <2> QED BY <2>5, <2>6
<1>2. CASE e.type = "step"
  <2>1. e \in Marks
    BY <1>2, EventKinds
  <2>2. Accepts(m, e) <=> m.started /\ ~m.finished
    BY <1>2 DEF Accepts
  <2>3. e # StartedBy(m.run)
    <3>1. StartedBy(m.run).type = "run-started"
      BY DEF StartedBy
    <3> QED BY <1>2, <3>1
  <2>4. CASE Accepts(m, e)
    <3>1. Apply(m, e) = Stepped(m, e)
      BY <1>2, <2>4 DEF Apply
    <3>2. e.id \in Ids /\ e.state \in {"begin", "ok", "skip", "fail"}
      BY <2>1 DEF Marks
    <3>3. (IF e.state = "begin" THEN "run" ELSE e.state) \in StepStates
      BY <3>2 DEF StepStates
    <3>4. m.order[e.id] \in Nat
      BY <1>0, <3>2
    <3>5. Stepped(m, e) \in RunModels /\ Stepped(m, e).run = m.run
          /\ Stepped(m, e).started = m.started /\ Stepped(m, e).finished = m.finished
      <4> DEFINE state == IF e.state = "begin" THEN "run" ELSE e.state
                 new == m.order[e.id] = 0
                 steps == [m.steps EXCEPT ![e.id] = state]
                 order == [m.order EXCEPT ![e.id] = IF new THEN m.markers + 1 ELSE @]
                 markers == IF new THEN m.markers + 1 ELSE m.markers
                 login == m.login \/ e.why = "login"
      <4>1. Stepped(m, e) = [m EXCEPT !.markers = markers, !.order = order, !.steps = steps, !.login = login]
        BY DEF Stepped, RunModels
      <4>2. steps \in [Ids -> StepStates]
        BY <1>0, <3>3
      <4>3. order \in [Ids -> Nat] /\ markers \in Nat
        <5>1. markers \in Nat /\ (IF new THEN m.markers + 1 ELSE m.order[e.id]) \in Nat
          BY <1>0, <3>4
        <5> QED BY <1>0, <5>1
      <4>4. login \in BOOLEAN
        BY Zenon
      <4> HIDE DEF steps, order, markers, login
      <4> QED BY <4>1, <4>2, <4>3, <4>4 DEF RunModels
    <3> QED BY <2>2, <2>3, <2>4, <3>1, <3>5
  <2>5. CASE ~Accepts(m, e)
    <3>1. Apply(m, e) = m
      BY <2>5, <1>2 DEF Apply
    <3> QED BY <2>3, <3>1
  <2> QED BY <2>4, <2>5
<1>3. CASE e.type = "run-finished"
  <2>1. e \in Finishes
    BY <1>3, EventKinds
  <2>2. Accepts(m, e) <=> m.started /\ ~m.finished /\ e.run = m.run
    BY <1>3 DEF Accepts, Own
  <2>3. e # StartedBy(m.run)
    <3>1. StartedBy(m.run).type = "run-started"
      BY DEF StartedBy
    <3> QED BY <1>3, <3>1
  <2>4. CASE Accepts(m, e)
    <3>1. Apply(m, e) = RunFinished(m, e)
      BY <1>3, <2>4 DEF Apply
    <3>2. e.ok \in BOOLEAN /\ e.id \in Ids \cup {Absent}
      BY <2>1 DEF Finishes
    <3>3. RunFinished(m, e) \in RunModels /\ RunFinished(m, e).run = m.run
          /\ RunFinished(m, e).started = m.started
      BY <3>2 DEF RunFinished, RunModels
    <3> QED BY <1>3, <2>2, <2>3, <2>4, <3>1, <3>3
  <2>5. CASE ~Accepts(m, e)
    <3>1. Apply(m, e) = m
      BY <2>5, <1>3 DEF Apply
    <3> QED BY <2>3, <3>1
  <2> QED BY <2>4, <2>5
<1> QED BY <1>1, <1>2, <1>3, EventKinds

\* Of a run that has not started in a log, nothing is seen.
LEMMA NothingIsSeen ==
  ASSUME NEW log \in Seq(RunEvents), NEW id \in Nat, \A k \in 1 .. Len(log) : log[k] # StartedBy(id)
  PROVE  LET seen == [k \in 0 .. Len(log) |-> Create(id)]
         IN Follows(seen, log, id) /\ Waits(seen, log, id)
<1> DEFINE seen == [k \in 0 .. Len(log) |-> Create(id)]
<1>0. Len(log) \in Nat /\ \A k \in 1 .. Len(log) : log[k] \in RunEvents
  OBVIOUS
<1>1. Create(id) \in RunModels /\ Create(id).run = id /\ ~Create(id).started /\ ~Create(id).finished
  BY CreateIsAModel DEF Create
<1>2. \A k \in 0 .. Len(log) : seen[k] = Create(id)
  OBVIOUS
<1>3. ASSUME NEW k \in 1 .. Len(log) PROVE seen[k] = Apply(seen[k - 1], log[k])
  <2>1. k - 1 \in 0 .. Len(log) /\ k \in 0 .. Len(log)
    BY <1>0
  <2>2. Apply(Create(id), log[k]) = Create(id)
    BY <1>0, <1>1, ApplyKeeps
  <2> QED BY <1>2, <2>1, <2>2
<1>4. Follows(seen, log, id)
  <2>1. seen \in [0 .. Len(log) -> RunModels]
    BY <1>1
  <2>2. seen[0] = Create(id)
    BY <1>0, <1>2
  <2> QED BY <1>3, <2>1, <2>2 DEF Follows
<1>5. Waits(seen, log, id)
  <2> SUFFICES ASSUME NEW k \in 0 .. Len(log)
               PROVE  /\ seen[k].run = id
                      /\ ~seen[k].started => seen[k] = Create(id)
                      /\ seen[k].started <=> \E q \in 1 .. k : log[q] = StartedBy(id)
                      /\ k < Len(log) => ~seen[k].finished
    BY DEF Waits
  <2>1. \A q \in 1 .. k : q \in 1 .. Len(log)
    BY <1>0
  <2> QED BY <1>1, <1>2, <2>1
<1> QED BY <1>4, <1>5

\* One more event is seen as it is published.
LEMMA OneMoreIsSeen ==
  ASSUME NEW log \in Seq(RunEvents), NEW id \in Nat, NEW seen, NEW e \in RunEvents,
         Follows(seen, log, id), Waits(seen, log, id), ~seen[Len(log)].finished
  PROVE  /\ Follows(Longer(seen, log, e), Append(log, e), id)
         /\ Waits(Longer(seen, log, e), Append(log, e), id)
         /\ \A k \in 0 .. Len(log) : Longer(seen, log, e)[k] = seen[k]
         /\ Longer(seen, log, e)[Len(log) + 1] = Apply(seen[Len(log)], e)
<1> DEFINE n == Len(log)
           more == Longer(seen, log, e)
<1>0. n \in Nat /\ n + 1 \in Nat
  OBVIOUS
<1>1. /\ Append(log, e) \in Seq(RunEvents) /\ Len(Append(log, e)) = n + 1
      /\ \A k \in 1 .. n : Append(log, e)[k] = log[k]
      /\ Append(log, e)[n + 1] = e
  BY AppendProperties
<1>2. /\ \A k \in 0 .. n : more[k] = seen[k]
      /\ more[n + 1] = Apply(seen[n], e)
  BY <1>0 DEF Longer
<1>3. seen \in [0 .. n -> RunModels] /\ seen[n] \in RunModels /\ seen[n].run = id
  BY <1>0 DEF Follows, Waits
<1>4. /\ Apply(seen[n], e) \in RunModels
      /\ Apply(seen[n], e).run = id
      /\ seen[n].started => Apply(seen[n], e).started
      /\ e = StartedBy(id) /\ ~seen[n].started => Apply(seen[n], e).started
      /\ e # StartedBy(id) /\ ~seen[n].started => Apply(seen[n], e) = seen[n]
  BY <1>3, ApplyKeeps
<1>5. Follows(more, Append(log, e), id)
  <2>1. more \in [0 .. n + 1 -> RunModels]
    <3>1. \A k \in 0 .. n + 1 : (IF k <= n THEN seen[k] ELSE Apply(seen[n], e)) \in RunModels
      BY <1>0, <1>3, <1>4
    <3> QED BY <3>1 DEF Longer
  <2>2. more[0] = Create(id)
    BY <1>0, <1>2 DEF Follows
  <2>3. ASSUME NEW k \in 1 .. n + 1 PROVE more[k] = Apply(more[k - 1], Append(log, e)[k])
    <3>1. CASE k = n + 1
      <4>1. k - 1 = n /\ n \in 0 .. n
        BY <1>0, <3>1
      <4> QED BY <1>1, <1>2, <3>1, <4>1
    <3>2. CASE k # n + 1
      <4>1. k \in 1 .. n /\ k \in 0 .. n /\ k - 1 \in 0 .. n
        BY <1>0, <3>2
      <4>2. seen[k] = Apply(seen[k - 1], log[k])
        BY <4>1 DEF Follows
      <4> QED BY <1>1, <1>2, <4>1, <4>2
    <3> QED BY <3>1, <3>2
  <2> QED BY <1>1, <2>1, <2>2, <2>3 DEF Follows
<1>6. Waits(more, Append(log, e), id)
  <2> SUFFICES ASSUME NEW k \in 0 .. n + 1
               PROVE  /\ more[k].run = id
                      /\ ~more[k].started => more[k] = Create(id)
                      /\ more[k].started <=> \E q \in 1 .. k : Append(log, e)[q] = StartedBy(id)
                      /\ k < n + 1 => ~more[k].finished
    BY <1>1 DEF Waits
  <2>1. CASE k = n + 1
    <3>1. seen[n].started <=> \E q \in 1 .. n : log[q] = StartedBy(id)
      BY <1>0 DEF Waits
    <3>2. ~seen[n].started => seen[n] = Create(id)
      BY <1>0 DEF Waits
    <3>3. (\E q \in 1 .. k : Append(log, e)[q] = StartedBy(id))
            <=> (\E q \in 1 .. n : log[q] = StartedBy(id)) \/ e = StartedBy(id)
      BY <1>0, <1>1, <2>1
    <3>4. more[k].started <=> seen[n].started \/ e = StartedBy(id)
      BY <1>2, <1>4, <2>1
    <3>5. ~more[k].started => more[k] = Create(id)
      BY <1>2, <1>4, <2>1, <3>2
    <3> QED BY <1>0, <1>2, <1>4, <2>1, <3>1, <3>3, <3>4, <3>5
  <2>2. CASE k # n + 1
    <3>1. k \in 0 .. n
      BY <1>0, <2>2
    <3>2. \A q \in 1 .. k : q \in 1 .. n
      BY <1>0, <3>1
    <3>3. /\ seen[k].run = id
          /\ ~seen[k].started => seen[k] = Create(id)
          /\ seen[k].started <=> \E q \in 1 .. k : log[q] = StartedBy(id)
          /\ k < n => ~seen[k].finished
      BY <3>1 DEF Waits
    <3>4. ~seen[k].finished
      BY <1>0, <3>1, <3>3
    <3> QED BY <1>1, <1>2, <3>1, <3>2, <3>3, <3>4
  <2> QED BY <2>1, <2>2
<1> QED BY <1>2, <1>5, <1>6

\* A step event means the same to a run under another id.
LEMMA StepsAreAnybodys ==
  ASSUME NEW m \in RunModels, NEW e \in RunEvents, NEW id \in Nat, e.type = "step", m.started, ~m.finished
  PROVE  Apply([m EXCEPT !.run = id], e) = [Apply(m, e) EXCEPT !.run = id]
<1> DEFINE other == [m EXCEPT !.run = id]
<1>1. other.started /\ ~other.finished /\ other.order = m.order /\ other.markers = m.markers
      /\ other.steps = m.steps /\ other.login = m.login
  BY DEF RunModels
<1>2. Apply(m, e) = Stepped(m, e) /\ Apply(other, e) = Stepped(other, e)
  BY <1>1 DEF Apply, Accepts
<1>3. Stepped(other, e) = [Stepped(m, e) EXCEPT !.run = id]
  BY DEF Stepped, RunModels
<1> QED BY <1>2, <1>3

\* A run at work: it started once, and only its steps follow.
Works(seen, log, id, p) ==
  /\ log[p] = StartedBy(id)
  /\ \A q \in 1 .. Len(log) : log[q] = StartedBy(id) => q = p
  /\ \A k \in 1 .. Len(log) : seen[k - 1].started => log[k].type = "step"

\* Its log from the start on, under another id, and what is seen of that.
ReplayOf(log, p, new) == <<StartedBy(new)>> \o SubSeq(log, p + 1, Len(log))
Again(seen, log, p, new) ==
  [k \in 0 .. Len(log) - p + 1 |-> IF k = 0 THEN Create(new) ELSE [seen[p + k - 1] EXCEPT !.run = new]]

\* What is seen of it starts at once, goes on as before, and comes to the same.
ComesToTheSame(seen, log, p, new) ==
  LET l == Len(log) - p + 1
  IN /\ ReplayOf(log, p, new) \in Seq(RunEvents) /\ Len(ReplayOf(log, p, new)) = l
     /\ ReplayOf(log, p, new)[1] = StartedBy(new)
     /\ \A k \in 2 .. l : ReplayOf(log, p, new)[k].type = "step"
     /\ Follows(Again(seen, log, p, new), ReplayOf(log, p, new), new)
     /\ Again(seen, log, p, new)[l] = [seen[Len(log)] EXCEPT !.run = new]
     /\ \A k \in 1 .. l : /\ Again(seen, log, p, new)[k].started
                          /\ Again(seen, log, p, new)[k].run = new
                          /\ k < l => ~Again(seen, log, p, new)[k].finished

\* A run at work is replayed as it went.
LEMMA ReplayIsSeen ==
  ASSUME NEW log \in Seq(RunEvents), NEW id \in Nat, NEW new \in Nat, NEW seen, NEW p \in 1 .. Len(log),
         Follows(seen, log, id), Waits(seen, log, id), Works(seen, log, id, p)
  PROVE  ComesToTheSame(seen, log, p, new)
<1> DEFINE n == Len(log)
           l == Len(log) - p + 1
           replay == ReplayOf(log, p, new)
           again == Again(seen, log, p, new)
<1>0. n \in Nat /\ p \in Nat /\ p >= 1 /\ p <= n /\ l \in Nat /\ p + l = n + 1 /\ l >= 1 /\ n - p = l - 1
  OBVIOUS
<1>1. StartedBy(new) \in RunEvents
  BY DEF StartedBy, RunEvents, Starts
<1>2. /\ SubSeq(log, p + 1, n) \in Seq(RunEvents) /\ Len(SubSeq(log, p + 1, n)) = n - p
      /\ \A k \in 1 .. n - p : SubSeq(log, p + 1, n)[k] = log[p + k]
  OBVIOUS
<1>3. /\ replay \in Seq(RunEvents) /\ Len(replay) = l
      /\ replay[1] = StartedBy(new)
      /\ \A k \in 1 .. n - p : replay[k + 1] = log[p + k]
  <2> DEFINE rest == SubSeq(log, p + 1, n)
             head == <<StartedBy(new)>>
  <2>1. replay = head \o rest
    BY DEF ReplayOf
  <2>2. rest \in Seq(RunEvents) /\ Len(rest) = n - p /\ \A k \in 1 .. n - p : rest[k] = log[p + k]
    BY <1>2
  <2>3. head \in Seq(RunEvents) /\ Len(head) = 1 /\ head[1] = StartedBy(new)
    BY <1>1
  <2> HIDE DEF rest, head, replay, n, l
  <2>0. head \in Seq(RunEvents) /\ rest \in Seq(RunEvents)
    BY <2>2, <2>3
  <2>4. /\ replay \in Seq(RunEvents) /\ Len(replay) = 1 + Len(rest)
        /\ \A k \in 1 .. Len(head) + Len(rest) : replay[k] = IF k <= Len(head) THEN head[k] ELSE rest[k - Len(head)]
    <3>1. /\ head \o rest \in Seq(RunEvents) /\ Len(head \o rest) = Len(head) + Len(rest)
          /\ \A k \in 1 .. Len(head) + Len(rest) :
               (head \o rest)[k] = IF k <= Len(head) THEN head[k] ELSE rest[k - Len(head)]
      BY ONLY <2>0, ConcatProperties
    <3> QED BY <2>1, <2>3, <3>1
  <2>5. ASSUME NEW k \in 1 .. n - p PROVE replay[k + 1] = log[p + k]
    <3>1. k + 1 \in 1 .. Len(head) + Len(rest) /\ ~(k + 1 <= Len(head)) /\ (k + 1) - Len(head) = k
      BY <1>0, <2>2, <2>3
    <3> QED BY <2>2, <2>4, <3>1
  <2> QED BY <1>0, <2>2, <2>3, <2>4, <2>5
<1>4. seen \in [0 .. n -> RunModels]
  BY DEF Follows
<1>5. ASSUME NEW k \in p .. n PROVE seen[k].started
  <2>1. k \in 0 .. n /\ p \in 1 .. k
    BY <1>0
  <2> QED BY <2>1 DEF Waits, Works
<1>6. ASSUME NEW k \in 0 .. n, ~seen[k].started PROVE seen[k] = Create(id)
  BY <1>6 DEF Waits
<1>7. ASSUME NEW k \in 0 .. n, k < n PROVE ~seen[k].finished
  BY <1>7 DEF Waits
<1>8. ~seen[p - 1].started
  <2>1. p - 1 \in 0 .. n /\ \A q \in 1 .. p - 1 : q \in 1 .. n /\ q # p
    BY <1>0
  <2> QED BY <2>1 DEF Waits, Works
<1>9. ASSUME NEW k \in 1 .. n PROVE seen[k] = Apply(seen[k - 1], log[k])
  BY DEF Follows
<1>10. ASSUME NEW k \in 1 .. n, seen[k - 1].started PROVE log[k].type = "step"
  BY <1>10 DEF Works
<1>11. \A m \in RunModels : /\ [m EXCEPT !.run = new] \in RunModels
                            /\ [m EXCEPT !.run = new].run = new
                            /\ [m EXCEPT !.run = new].started = m.started
                            /\ [m EXCEPT !.run = new].finished = m.finished
  BY DEF RunModels
<1>12. again = [k \in 0 .. l |-> IF k = 0 THEN Create(new) ELSE [seen[p + k - 1] EXCEPT !.run = new]]
  BY DEF Again
<1> HIDE DEF n, l, replay, again
<1>13. again[0] = Create(new) /\ \A k \in 1 .. l : again[k] = [seen[p + k - 1] EXCEPT !.run = new]
  BY ONLY <1>0, <1>12
<1>14. ASSUME NEW k \in 1 .. l
       PROVE  seen[p + k - 1] \in RunModels /\ p + k - 1 \in p .. n /\ p + k - 1 \in 0 .. n /\ (k < l => p + k - 1 < n)
  <2>1. p + k - 1 \in p .. n /\ p + k - 1 \in 0 .. n /\ (k < l => p + k - 1 < n)
    BY ONLY <1>0, k \in 1 .. l
  <2> QED BY <1>4, <2>1
<1>15. again[1] = Apply(again[0], replay[1])
  <2>1. p - 1 \in 0 .. n /\ p \in 1 .. n /\ 1 \in 1 .. l /\ p + 1 - 1 = p
    BY ONLY <1>0
  <2>2. seen[p] = Apply(Create(id), StartedBy(id))
    BY <1>6, <1>8, <1>9, <2>1 DEF Works
  <2>3. ASSUME NEW i \in Nat
        PROVE  Apply(Create(i), StartedBy(i)) = [Create(i) EXCEPT !.started = TRUE]
    <3>1. StartedBy(i) \in RunEvents
      BY DEF StartedBy, RunEvents, Starts
    <3>2. Create(i).run = i /\ ~Create(i).started /\ Create(i) \in RunModels
      BY CreateIsAModel DEF Create
    <3> QED BY <3>1, <3>2, ApplyKeeps DEF RunStarted
  <2>4. [[Create(id) EXCEPT !.started = TRUE] EXCEPT !.run = new] = [Create(new) EXCEPT !.started = TRUE]
    <3> DEFINE begun(i) == [Create(i) EXCEPT !.started = TRUE]
               waiting == [k \in Ids |-> "wait"]
               nowhere == [k \in Ids |-> 0]
               Fresh(m, i) == /\ m \in RunModels
                              /\ m.run = i /\ m.started = TRUE /\ m.finished = FALSE /\ m.ok = FALSE
                              /\ m.failedStep = Absent /\ m.steps = waiting /\ m.order = nowhere
                              /\ m.markers = 0 /\ m.login = FALSE
    <3>1. ASSUME NEW i \in Nat PROVE Fresh(begun(i), i)
      BY DEF Create, RunModels, StepStates
    <3> HIDE DEF waiting, nowhere
    <3>2. ASSUME NEW m, Fresh(m, id) PROVE Fresh([m EXCEPT !.run = new], new)
      BY <3>2 DEF RunModels
    <3>3. ASSUME NEW m, NEW o, Fresh(m, new), Fresh(o, new) PROVE m = o
      BY <3>3, ModelsAreTheirFields
    <3> HIDE DEF Fresh
    <3> QED BY <3>1, <3>2, <3>3
  <2>5. again[1] = [seen[p] EXCEPT !.run = new]
    BY ONLY <1>13, <2>1
  <2> QED BY <1>3, <1>13, <2>2, <2>3, <2>4, <2>5
<1>16. ASSUME NEW k \in 1 .. n - p
       PROVE  again[k + 1] = Apply(again[k], replay[k + 1]) /\ replay[k + 1].type = "step"
  <2>1. /\ k \in 1 .. l /\ k + 1 \in 1 .. l /\ p + k \in 1 .. n /\ p + k - 1 \in 0 .. n /\ p + k - 1 \in p .. n
        /\ p + (k + 1) - 1 = p + k /\ (p + k) - 1 = p + k - 1 /\ p + k - 1 < n
    BY ONLY <1>0, k \in 1 .. n - p
  <2>2. seen[p + k] = Apply(seen[p + k - 1], log[p + k])
    BY <1>9, <2>1
  <2>3. seen[p + k - 1].started /\ ~seen[p + k - 1].finished /\ seen[p + k - 1] \in RunModels
    BY <1>4, <1>5, <1>7, <2>1
  <2>4. log[p + k].type = "step"
    BY <1>10, <2>1, <2>3
  <2>5. log[p + k] \in RunEvents
    BY <2>1 DEF n
  <2>6. again[k] = [seen[p + k - 1] EXCEPT !.run = new] /\ again[k + 1] = [seen[p + k] EXCEPT !.run = new]
    BY <1>13, <2>1
  <2>7. replay[k + 1] = log[p + k]
    BY <1>3
  <2>8. Apply([seen[p + k - 1] EXCEPT !.run = new], log[p + k])
          = [Apply(seen[p + k - 1], log[p + k]) EXCEPT !.run = new]
    BY <2>3, <2>4, <2>5, StepsAreAnybodys
  <2> QED BY <2>2, <2>4, <2>6, <2>7, <2>8
<1>17. \A k \in 1 .. l : k = 1 \/ \E j \in 1 .. n - p : k = j + 1
  <2> SUFFICES ASSUME NEW k \in 1 .. l, k # 1 PROVE \E j \in 1 .. n - p : k = j + 1
    OBVIOUS
  <2>1. k - 1 \in 1 .. n - p /\ k = (k - 1) + 1
    BY ONLY <1>0, k \in 1 .. l, k # 1
  <2> QED BY <2>1
<1>18. Follows(again, replay, new)
  <2>1. again \in [0 .. l -> RunModels]
    <3>1. ASSUME NEW k \in 0 .. l
          PROVE  (IF k = 0 THEN Create(new) ELSE [seen[p + k - 1] EXCEPT !.run = new]) \in RunModels
      <4>1. k # 0 => k \in 1 .. l
        BY ONLY <1>0, k \in 0 .. l
      <4> QED BY <1>11, <1>14, <4>1, CreateIsAModel
    <3> QED BY <1>12, <3>1
  <2>2. ASSUME NEW k \in 1 .. l PROVE again[k] = Apply(again[k - 1], replay[k])
    <3>1. CASE k = 1
      <4>1. k - 1 = 0
        BY ONLY <3>1
      <4> QED BY <1>15, <3>1, <4>1
    <3>2. ASSUME NEW j \in 1 .. n - p, k = j + 1 PROVE again[k] = Apply(again[k - 1], replay[k])
      <4>1. k - 1 = j
        BY ONLY <1>0, <3>2, j \in 1 .. n - p
      <4> QED BY <1>16, <3>2, <4>1
    <3> QED BY <1>17, <3>1, <3>2
  <2> QED BY <1>3, <1>13, <2>1, <2>2 DEF Follows
<1>19. again[l] = [seen[n] EXCEPT !.run = new]
  <2>1. l \in 1 .. l /\ p + l - 1 = n
    BY ONLY <1>0
  <2> QED BY <1>13, <2>1
<1>20. ASSUME NEW k \in 1 .. l PROVE again[k].started /\ again[k].run = new /\ (k < l => ~again[k].finished)
  <2> DEFINE m == seen[p + k - 1]
  <2>1. m \in RunModels /\ m.started /\ (k < l => ~m.finished)
    BY <1>5, <1>7, <1>14
  <2>2. again[k] = [m EXCEPT !.run = new]
    BY <1>13
  <2> HIDE DEF m
  <2> QED BY <1>11, <2>1, <2>2
<1>21. ASSUME NEW k \in 2 .. l PROVE replay[k].type = "step"
  <2>1. k \in 1 .. l /\ k # 1
    BY ONLY <1>0, k \in 2 .. l
  <2> QED BY <1>16, <1>17, <2>1
<1> QED BY <1>3, <1>18, <1>19, <1>20, <1>21 DEF n, l, replay, again, ComesToTheSame

Failing(states) ==
  LET failed == {id \in Ids : states[id] = "fail"}
  IN IF failed = {} THEN Absent ELSE CHOOSE id \in failed : TRUE

\* What is seen at the end of the log is what the host knows of its run.
Matches(m, h) ==
  /\ m.steps = h.states /\ m.login = h.login
  /\ m.finished <=> ~h.running /\ h.came # "nothing"
  /\ m.finished => m.ok = (h.came = "ok") /\ m.failedStep = Failing(h.states)

\* A host's log is about its last run, and older ones.
StartsOnce(log, id) ==
  /\ \A p, q \in 1 .. Len(log) : log[p] = StartedBy(id) /\ log[q] = StartedBy(id) => p = q
  /\ \A k \in 1 .. Len(log) : log[k].type = "run-started" => log[k].run <= id
AtWork(seen, log) ==
  /\ seen[Len(log)].started
  /\ \A k \in 1 .. Len(log) : seen[k - 1].started => log[k].type = "step"
Tells(seen, log, h) ==
  /\ Follows(seen, log, h.id) /\ Waits(seen, log, h.id) /\ StartsOnce(log, h.id)
  /\ h.running => AtWork(seen, log)
  /\ Matches(seen[Len(log)], h)

\* A run at work takes another step.
LEMMA StepTells ==
  ASSUME NEW log \in Seq(RunEvents), NEW seen, NEW h \in Hosts, NEW h2 \in Hosts, NEW e \in Marks, Tells(seen, log, h),
         h.running, h2.running, h2.id = h.id,
         h2.states = [h.states EXCEPT ![e.id] = IF e.state = "begin" THEN "run" ELSE e.state],
         h2.login = (h.login \/ e.why = "login")
  PROVE  Tells(Longer(seen, log, e), Append(log, e), h2)
<1> DEFINE n == Len(log)
           more == Longer(seen, log, e)
           longer == Append(log, e)
           m == seen[n]
<1>0. n \in Nat /\ h.id \in Nat /\ e \in RunEvents /\ e.type = "step" /\ e.id \in Ids
  <2>1. n \in Nat /\ e \in RunEvents
    BY DEF RunEvents
  <2>2. h.id \in Nat
    BY DEF Hosts
  <2> QED BY <2>1, <2>2 DEF Marks
<1>1. /\ Follows(seen, log, h.id) /\ Waits(seen, log, h.id) /\ StartsOnce(log, h.id) /\ AtWork(seen, log)
      /\ m.steps = h.states /\ m.login = h.login /\ ~m.finished /\ m.started
  BY DEF Tells, Matches, AtWork
<1>2. m \in RunModels
  BY <1>0, <1>1 DEF Follows
<1>3. /\ Follows(more, longer, h.id) /\ Waits(more, longer, h.id)
      /\ \A k \in 0 .. n : more[k] = seen[k]
      /\ more[n + 1] = Apply(m, e)
  BY <1>0, <1>1, OneMoreIsSeen
<1>4. Len(longer) = n + 1 /\ longer[n + 1] = e /\ \A k \in 1 .. n : longer[k] = log[k]
  BY AppendProperties, <1>0
<1>5. e # StartedBy(h.id)
  <2>1. StartedBy(h.id).type = "run-started"
    BY DEF StartedBy
  <2> QED BY <1>0, <2>1
<1>6. Apply(m, e) = Stepped(m, e)
  BY <1>0, <1>1 DEF Apply, Accepts
<1>7. /\ Stepped(m, e).started = m.started /\ Stepped(m, e).finished = m.finished
      /\ Stepped(m, e).steps = [m.steps EXCEPT ![e.id] = IF e.state = "begin" THEN "run" ELSE e.state]
      /\ Stepped(m, e).login = (m.login \/ e.why = "login")
  BY <1>2 DEF Stepped, RunModels
<1> HIDE DEF n, more, longer, m
<1>8. \A k \in 1 .. n + 1 : k = n + 1 \/ k \in 1 .. n
  BY <1>0
<1>9. StartsOnce(longer, h.id)
  <2>1. \A k \in 1 .. n + 1 : longer[k] = StartedBy(h.id) => k \in 1 .. n /\ log[k] = StartedBy(h.id)
    BY <1>4, <1>5, <1>8
  <2>2. \A p, q \in 1 .. n : log[p] = StartedBy(h.id) /\ log[q] = StartedBy(h.id) => p = q
    BY <1>1 DEF StartsOnce, n
  <2>3. \A k \in 1 .. n : log[k].type = "run-started" => log[k].run <= h.id
    BY <1>1 DEF StartsOnce, n
  <2> QED BY <1>0, <1>4, <1>8, <2>1, <2>2, <2>3 DEF StartsOnce
<1>10. AtWork(more, longer)
  <2>1. more[n + 1].started
    BY <1>1, <1>3, <1>6, <1>7
  <2>2. ASSUME NEW k \in 1 .. n, more[k - 1].started PROVE longer[k].type = "step"
    <3>1. k - 1 \in 0 .. n
      BY <1>0
    <3> QED BY <1>1, <1>3, <1>4, <2>2, <3>1 DEF AtWork, n
  <2> QED BY <1>0, <1>4, <1>8, <2>1, <2>2 DEF AtWork
<1>11. Matches(more[n + 1], h2)
  BY <1>1, <1>3, <1>6, <1>7 DEF Matches
<1> QED BY <1>3, <1>4, <1>9, <1>10, <1>11 DEF Tells, longer, more

\* A run at work ends.
LEMMA EndTells ==
  ASSUME NEW log \in Seq(RunEvents), NEW seen, NEW h \in Hosts, NEW h2 \in Hosts, NEW e \in Finishes, Tells(seen, log, h),
         h.running, ~h2.running, h2.came # "nothing", h2.id = h.id, h2.states = h.states, h2.login = h.login,
         e.run = h.id, e.ok = (h2.came = "ok"), e.id = Failing(h.states)
  PROVE  Tells(Longer(seen, log, e), Append(log, e), h2)
<1> DEFINE n == Len(log)
           more == Longer(seen, log, e)
           longer == Append(log, e)
           m == seen[n]
<1>0. n \in Nat /\ h.id \in Nat /\ e \in RunEvents /\ e.type = "run-finished"
  BY DEF Hosts, Finishes, RunEvents
<1>1. /\ Follows(seen, log, h.id) /\ Waits(seen, log, h.id) /\ StartsOnce(log, h.id)
      /\ m.steps = h.states /\ m.login = h.login /\ ~m.finished /\ m.started
  BY DEF Tells, Matches, AtWork
<1>2. m \in RunModels /\ m.run = h.id
  BY <1>0, <1>1 DEF Follows, Waits
<1>3. /\ Follows(more, longer, h.id) /\ Waits(more, longer, h.id)
      /\ more[n + 1] = Apply(m, e)
  BY <1>0, <1>1, OneMoreIsSeen
<1>4. Len(longer) = n + 1 /\ longer[n + 1] = e /\ \A k \in 1 .. n : longer[k] = log[k]
  BY AppendProperties, <1>0
<1>5. e # StartedBy(h.id)
  <2>1. StartedBy(h.id).type = "run-started"
    BY DEF StartedBy
  <2> QED BY <1>0, <2>1
<1>6. Apply(m, e) = RunFinished(m, e)
  BY <1>0, <1>1, <1>2 DEF Apply, Accepts, Own
<1>7. /\ RunFinished(m, e).finished /\ RunFinished(m, e).ok = e.ok /\ RunFinished(m, e).failedStep = e.id
      /\ RunFinished(m, e).steps = m.steps /\ RunFinished(m, e).login = m.login
  BY <1>2 DEF RunFinished, RunModels
<1> HIDE DEF n, more, longer, m
<1>8. \A k \in 1 .. n + 1 : k = n + 1 \/ k \in 1 .. n
  BY <1>0
<1>9. StartsOnce(longer, h.id)
  <2>1. \A k \in 1 .. n + 1 : longer[k] = StartedBy(h.id) => k \in 1 .. n /\ log[k] = StartedBy(h.id)
    BY <1>4, <1>5, <1>8
  <2>2. \A p, q \in 1 .. n : log[p] = StartedBy(h.id) /\ log[q] = StartedBy(h.id) => p = q
    BY <1>1 DEF StartsOnce, n
  <2>3. \A k \in 1 .. n : log[k].type = "run-started" => log[k].run <= h.id
    BY <1>1 DEF StartsOnce, n
  <2> QED BY <1>0, <1>4, <1>8, <2>1, <2>2, <2>3 DEF StartsOnce
<1>10. Matches(more[n + 1], h2)
  BY <1>1, <1>3, <1>6, <1>7 DEF Matches
<1> QED BY <1>3, <1>4, <1>9, <1>10 DEF Tells, longer, more

\* A run begins under an id no earlier one had.
LEMMA BeginTells ==
  ASSUME NEW log \in Seq(RunEvents), NEW old \in Nat, NEW h2 \in Hosts, StartsOnce(log, old), old < h2.id,
         h2.running, h2.states = [id \in Ids |-> "wait"], ~h2.login
  PROVE  \E more : Tells(more, Append(log, StartedBy(h2.id)), h2)
<1> DEFINE n == Len(log)
           id == h2.id
           e == StartedBy(id)
           seen == [k \in 0 .. n |-> Create(id)]
           more == Longer(seen, log, e)
           longer == Append(log, e)
<1>0. n \in Nat /\ id \in Nat
  BY DEF Hosts
<1>1. e \in RunEvents /\ e.type = "run-started" /\ e.run = id
  BY <1>0 DEF StartedBy, RunEvents, Starts
<1>2. ASSUME NEW k \in 1 .. n PROVE log[k] # e
  BY <1>0, <1>1 DEF StartsOnce
<1>3. Follows(seen, log, id) /\ Waits(seen, log, id)
  BY <1>0, <1>2, NothingIsSeen
<1>4. seen[n] = Create(id) /\ ~seen[n].finished
  <2>1. n \in 0 .. n /\ ~Create(id).finished
    BY <1>0 DEF Create
  <2> QED BY <2>1
<1>5. Create(id) \in RunModels /\ Create(id).run = id /\ ~Create(id).started
  BY <1>0, CreateIsAModel DEF Create
<1> HIDE DEF seen
<1>6. /\ Follows(more, longer, id) /\ Waits(more, longer, id)
      /\ \A k \in 0 .. n : more[k] = seen[k]
      /\ more[n + 1] = Apply(Create(id), e)
  BY <1>0, <1>1, <1>3, <1>4, OneMoreIsSeen
<1>7. Len(longer) = n + 1 /\ longer[n + 1] = e /\ \A k \in 1 .. n : longer[k] = log[k]
  BY AppendProperties, <1>1
<1>8. Apply(Create(id), e) = RunStarted(Create(id), e)
  BY <1>1, <1>5, ApplyKeeps
<1>9. /\ RunStarted(Create(id), e).started /\ ~RunStarted(Create(id), e).finished
      /\ RunStarted(Create(id), e).steps = h2.states /\ RunStarted(Create(id), e).login = FALSE
  BY DEF RunStarted, Create
<1>10. \A k \in 1 .. n : ~more[k - 1].started
  <2> SUFFICES ASSUME NEW k \in 1 .. n PROVE ~more[k - 1].started
    OBVIOUS
  <2>1. k - 1 \in 0 .. n /\ \A q \in 1 .. k - 1 : q \in 1 .. n
    BY <1>0
  <2>2. ~seen[k - 1].started
    BY <1>2, <1>3, <2>1 DEF Waits
  <2> QED BY <1>6, <2>1, <2>2
<1> HIDE DEF n, more, longer, e
<1>11. \A k \in 1 .. n + 1 : k = n + 1 \/ k \in 1 .. n
  BY <1>0
<1>12. StartsOnce(longer, id)
  <2>1. ASSUME NEW k \in 1 .. n + 1, longer[k] = StartedBy(id) PROVE k = n + 1
    BY <1>2, <1>7, <1>11, <2>1 DEF e
  <2>2. ASSUME NEW k \in 1 .. n, longer[k].type = "run-started" PROVE longer[k].run <= id
    <3>1. log[k].run \in Nat
      <4>1. log[k] \in RunEvents
        BY DEF n
      <4> QED BY <1>7, <2>2, <4>1, EventKinds DEF Starts
    <3>2. log[k].run <= old
      BY <1>7, <2>2 DEF StartsOnce, n
    <3> QED BY <1>0, <1>7, <3>1, <3>2
  <2> QED BY <1>0, <1>1, <1>7, <1>11, <2>1, <2>2 DEF StartsOnce
<1>13. AtWork(more, longer)
  <2>1. ASSUME NEW k \in 1 .. n + 1 PROVE ~more[k - 1].started
    <3>1. n + 1 - 1 = n /\ n \in 0 .. n
      BY <1>0
    <3> QED BY <1>4, <1>5, <1>6, <1>10, <1>11, <3>1
  <2> QED BY <1>6, <1>7, <1>8, <1>9, <2>1 DEF AtWork
<1>14. Matches(more[n + 1], h2)
  <2>1. h2.login = FALSE
    BY DEF Hosts
  <2> QED BY <1>6, <1>8, <1>9, <2>1 DEF Matches
<1>15. Tells(more, longer, h2)
  BY <1>6, <1>7, <1>12, <1>13, <1>14 DEF Tells
<1> QED BY <1>15 DEF longer, e

\* An empty log tells of no run.
LEMMA EmptyTells ==
  ASSUME NEW h2 \in Hosts, ~h2.running, h2.came = "nothing", h2.states = [id \in Ids |-> "wait"], ~h2.login
  PROVE  \E seen : Tells(seen, <<>>, h2)
<1> DEFINE seen == [k \in 0 .. Len(<<>>) |-> Create(h2.id)]
<1>0. h2.id \in Nat /\ <<>> \in Seq(RunEvents) /\ Len(<<>>) = 0 /\ h2.login = FALSE
  BY DEF Hosts
<1>1. \A k \in 1 .. Len(<<>>) : FALSE
  BY <1>0
<1>2. Follows(seen, <<>>, h2.id) /\ Waits(seen, <<>>, h2.id)
  BY <1>0, <1>1, NothingIsSeen
<1>3. seen[Len(<<>>)] = Create(h2.id)
  BY <1>0
<1>4. Create(h2.id).steps = h2.states /\ Create(h2.id).login = FALSE /\ ~Create(h2.id).finished
  BY DEF Create
<1>5. StartsOnce(<<>>, h2.id)
  BY <1>1 DEF StartsOnce
<1>6. Matches(seen[Len(<<>>)], h2)
  BY <1>0, <1>3, <1>4 DEF Matches
<1> HIDE DEF seen
<1> QED BY <1>2, <1>5, <1>6 DEF Tells

\* A run at work goes on after a restart, under its id or a later one.
LEMMA ReplayTells ==
  ASSUME NEW log \in Seq(RunEvents), NEW seen, NEW h \in Hosts, NEW h2 \in Hosts, Tells(seen, log, h),
         h.running, h2.running, h2.states = h.states, h2.login = h.login
  PROVE  \E p \in 1 .. Len(log) : /\ log[p] = StartedBy(h.id)
                                  /\ \A q \in 1 .. Len(log) : log[q] = StartedBy(h.id) => q = p
                                  /\ ReplayOf(log, p, h2.id) \in Seq(RunEvents)
                                  /\ Tells(Again(seen, log, p, h2.id), ReplayOf(log, p, h2.id), h2)
<1> DEFINE n == Len(log)
           id == h.id
           new == h2.id
<1>0. n \in Nat /\ id \in Nat /\ new \in Nat
  BY DEF Hosts
<1>1. Follows(seen, log, id) /\ Waits(seen, log, id) /\ StartsOnce(log, id) /\ AtWork(seen, log) /\ Matches(seen[n], h)
  BY DEF Tells
<1>2. PICK p \in 1 .. n : log[p] = StartedBy(id)
  <2>1. n \in 0 .. n /\ seen[n].started
    BY <1>0, <1>1 DEF AtWork
  <2> QED BY <1>1, <2>1 DEF Waits
<1>3. \A q \in 1 .. n : log[q] = StartedBy(id) => q = p
  BY <1>1, <1>2 DEF StartsOnce
<1>4. Works(seen, log, id, p)
  BY <1>1, <1>2, <1>3 DEF Works, AtWork
<1> DEFINE l == n - p + 1
           replay == ReplayOf(log, p, new)
           again == Again(seen, log, p, new)
<1>5. l \in Nat /\ l >= 1
  BY <1>0
<1>6. /\ replay \in Seq(RunEvents) /\ Len(replay) = l
      /\ replay[1] = StartedBy(new)
      /\ \A k \in 2 .. l : replay[k].type = "step"
      /\ Follows(again, replay, new)
      /\ again[l] = [seen[n] EXCEPT !.run = new]
      /\ \A k \in 1 .. l : again[k].started /\ again[k].run = new /\ (k < l => ~again[k].finished)
  <2>1. ComesToTheSame(seen, log, p, new)
    BY <1>0, <1>1, <1>4, ReplayIsSeen
  <2> QED BY ONLY <2>1 DEF ComesToTheSame
<1>7. seen[n] \in RunModels
  BY <1>0, <1>1 DEF Follows
<1> HIDE DEF l, replay, again, n
<1>8. again[0] = Create(new)
  BY <1>6 DEF Follows
<1>9. \A k \in 0 .. l : k = 0 \/ k \in 1 .. l
  BY <1>5
<1>10. \A k \in 1 .. l : k = 1 \/ k \in 2 .. l
  BY <1>5
<1>11. StartedBy(new).type = "run-started" /\ StartedBy(new).run = new
  BY DEF StartedBy
<1>12. Waits(again, replay, new)
  <2> SUFFICES ASSUME NEW k \in 0 .. l
               PROVE  /\ again[k].run = new
                      /\ ~again[k].started => again[k] = Create(new)
                      /\ again[k].started <=> \E q \in 1 .. k : replay[q] = StartedBy(new)
                      /\ k < l => ~again[k].finished
    BY <1>6 DEF Waits
  <2>1. CASE k = 0
    <3>1. Create(new).run = new /\ ~Create(new).started /\ ~Create(new).finished
      BY DEF Create
    <3>2. \A q \in 1 .. k : FALSE
      BY <2>1
    <3> QED BY <1>8, <2>1, <3>1, <3>2
  <2>2. CASE k \in 1 .. l
    <3>1. 1 \in 1 .. k
      BY <2>2
    <3> QED BY <1>6, <2>2, <3>1
  <2> QED BY <1>9, <2>1, <2>2
<1>13. StartsOnce(replay, new)
  <2>1. ASSUME NEW k \in 1 .. l, replay[k].type = "run-started" PROVE k = 1
    BY <1>6, <1>10, <2>1
  <2>2. ASSUME NEW k \in 1 .. l, replay[k] = StartedBy(new) PROVE k = 1
    BY <1>11, <2>1, <2>2
  <2> QED BY <1>0, <1>6, <1>11, <2>1, <2>2 DEF StartsOnce
<1>14. AtWork(again, replay)
  <2>1. again[l].started /\ ~again[0].started
    <3>1. l \in 1 .. l /\ ~Create(new).started
      BY <1>5 DEF Create
    <3> QED BY <1>6, <1>8, <3>1
  <2>2. ASSUME NEW k \in 1 .. l, again[k - 1].started PROVE replay[k].type = "step"
    <3>1. k = 1 => k - 1 = 0
      OBVIOUS
    <3> QED BY <1>6, <1>10, <2>1, <2>2, <3>1
  <2> QED BY <1>6, <2>1, <2>2 DEF AtWork
<1>15. Matches(again[l], h2)
  <2>1. /\ again[l].steps = seen[n].steps /\ again[l].login = seen[n].login /\ again[l].finished = seen[n].finished
    BY <1>6, <1>7 DEF RunModels
  <2> QED BY <1>1, <2>1 DEF Matches
<1>16. Tells(again, replay, h2)
  BY <1>6, <1>12, <1>13, <1>14, <1>15 DEF Tells
<1> QED BY <1>2, <1>3, <1>6, <1>16 DEF n, replay, again

Greetings == [bus : Nat, run : Nat \cup {Absent}, running : BOOLEAN]
StreamTypes ==
  /\ bus \in Nat /\ events \in Seq(RunEvents)
  /\ source \in {"none", "down", "up"} /\ greeting \in Greetings \cup {Absent}
  /\ pipe \in Seq(Nat) /\ \A k \in 1 .. Len(pipe) : pipe[k] \in 1 .. Len(events)
  /\ dropped \in BOOLEAN /\ lastSeq \in Nat /\ busId \in Nat \cup {Absent} /\ cut \in BOOLEAN

\* Only a run on the screen has a stream; a page that was greeted by this bus knows a place in its log, and what is
\* under way to it is what follows, up to the end unless the host has closed the channel.
StreamInv ==
  /\ runScreen # "run" => source = "none"
  /\ source = "none" => busId = Absent
  /\ busId = Absent => lastSeq = 0
  /\ busId # Absent => busId <= bus
  /\ source # "up" => greeting = Absent /\ pipe = <<>>
  /\ greeting # Absent => greeting.bus = bus /\ (greeting.run # Absent => greeting.run <= host.id)
  /\ source = "up" /\ greeting = Absent => busId = bus
  /\ busId = bus => lastSeq <= Len(events)
  /\ source = "up" /\ ~cut /\ busId \in {bus, Absent} =>
       /\ \A k \in 1 .. Len(pipe) : pipe[k] = lastSeq + k
       /\ lastSeq + Len(pipe) <= Len(events)
       /\ ~dropped => lastSeq + Len(pipe) = Len(events)

Ended(h) ==
  [run |-> h.id, ok |-> h.came = "ok", steps |-> h.states, failedStep |-> Failing(h.states), login |-> h.login]

\* The screen follows a run the host knows, which it has not seen the end of; a result that is of the host's last run
\* is of a run that ended, unless the host was restarted since.
ScreenInv ==
  /\ runScreen \in {"loading", "start", "run", "result"}
  /\ runScreen = "run" =>
       /\ ownRun \in Nat /\ ownRun <= host.id
       /\ runModel \in RunModels /\ runModel.run = ownRun /\ ~runModel.finished
       /\ busId = Absent => runModel = Create(ownRun)
  /\ runScreen = "result" =>
       /\ lastRun.run \in Nat /\ lastRun.run <= host.id
       /\ ~cut /\ lastRun.run = host.id => ~host.running /\ (host.came # "nothing" => lastRun = Ended(host))

\* What the host tells, and the page has of it what it has read.
PageReads(seen) == runScreen = "run" /\ ownRun = host.id /\ ~cut /\ busId = bus => runModel = seen[lastSeq]
LogInv == host \in Hosts /\ \E seen : Tells(seen, events, host) /\ PageReads(seen)

RunInv == StreamTypes /\ StreamInv /\ ScreenInv /\ LogInv

\* An idle host is one.
LEMMA IdleIsAHost ==
  ASSUME NEW id \in Nat, NEW running \in BOOLEAN, NEW first \in Nat \ {0}
  PROVE  LET h == [Idle EXCEPT !.id = id, !.running = running, !.next = first]
         IN /\ h \in Hosts /\ h.id = id /\ h.running = running /\ h.came = "nothing" /\ ~h.login
            /\ h.states = [k \in Ids |-> "wait"]
BY DEF Idle, Hosts, StepStates

\* A host that was restarted is one.
LEMMA RestartedIsAHost ==
  ASSUME NEW id \in Nat
  PROVE  LET h == [Idle EXCEPT !.id = id]
         IN /\ h \in Hosts /\ h.id = id /\ ~h.running /\ h.came = "nothing" /\ ~h.login
            /\ h.states = [k \in Ids |-> "wait"]
<1>1. /\ Idle \in Hosts /\ ~Idle.running /\ Idle.came = "nothing" /\ ~Idle.login
      /\ Idle.states = [k \in Ids |-> "wait"]
  BY DEF Idle, Hosts, StepStates
<1> QED BY <1>1 DEF Hosts

\* At first nothing is there.
LEMMA RunInitHolds == ASSUME RunConstants, Init PROVE RunInv
<1>1. StreamTypes /\ StreamInv /\ ScreenInv
  <2>1. /\ bus = 1 /\ events = <<>> /\ source = "none" /\ greeting = Absent /\ pipe = <<>> /\ dropped = FALSE
        /\ lastSeq = 0 /\ busId = Absent /\ cut = FALSE /\ runScreen = "loading"
    BY DEF Init
  <2>2. \A k \in 1 .. Len(pipe) : FALSE
    BY <2>1
  <2>3. pipe \in Seq(Nat) /\ events \in Seq(RunEvents) /\ Absent \notin Nat
    BY <2>1 DEF RunConstants
  <2>4. StreamTypes
    BY <2>1, <2>2, <2>3 DEF StreamTypes
  <2>5. busId # bus
    BY <2>1, <2>3
  <2>6. StreamInv
    BY <2>1, <2>5 DEF StreamInv
  <2>7. ScreenInv
    BY <2>1 DEF ScreenInv
  <2> QED BY <2>4, <2>6, <2>7
<1>2. host \in Hosts /\ ~host.running /\ host.came = "nothing" /\ host.states = [id \in Ids |-> "wait"] /\ ~host.login
  BY DEF Init, Idle, Hosts, StepStates
<1>3. \E seen : Tells(seen, events, host)
  BY <1>2, EmptyTells DEF Init
<1>4. \A seen : PageReads(seen)
  BY DEF PageReads, Init
<1> QED BY <1>1, <1>2, <1>3, <1>4 DEF RunInv, LogInv

\* An event the host publishes is sent, or the channel of a page that lags is closed.
LEMMA PublishKeepsTheStream ==
  ASSUME RunConstants, StreamTypes, StreamInv, NEW e \in RunEvents, Publish(e),
         host.id \in Nat, host'.id \in Nat, host.id <= host'.id, runScreen' = runScreen \/ runScreen' = "run"
  PROVE  /\ StreamTypes' /\ StreamInv'
         /\ events' = Append(events, e) /\ UNCHANGED <<bus, source, greeting, lastSeq, busId, cut>>
<1> DEFINE n == Len(events)
<1>1. events' = Append(events, e) /\ UNCHANGED <<bus, source, greeting, lastSeq, busId, cut>>
  BY DEF Publish
<1>2. n \in Nat /\ events \in Seq(RunEvents) /\ pipe \in Seq(Nat) /\ Len(pipe) \in Nat /\ Buffer \in Nat
      /\ lastSeq \in Nat /\ bus \in Nat /\ busId \in Nat \cup {Absent} /\ Absent \notin Nat
  BY DEF StreamTypes, RunConstants
<1>3. events' \in Seq(RunEvents) /\ Len(events') = n + 1
  BY <1>1, <1>2, AppendProperties
<1>4. CASE UNCHANGED pipe
  <2>1. ((source # "up" \/ dropped) /\ UNCHANGED dropped) \/ dropped'
    BY <1>4 DEF Publish
  <2>2. dropped' \in BOOLEAN
    BY <2>1 DEF StreamTypes, Publish
  <2>3. StreamTypes'
    <3>1. \A k \in 1 .. Len(pipe) : pipe[k] \in 1 .. n + 1
      BY <1>2 DEF StreamTypes
    <3> QED BY <1>1, <1>3, <1>4, <2>2, <3>1 DEF StreamTypes
  <2>4. (greeting # Absent /\ greeting.run # Absent => greeting.run <= host'.id)
    <3>1. greeting # Absent /\ greeting.run # Absent => greeting.run \in Nat
      BY DEF StreamTypes, Greetings
    <3> QED BY <3>1 DEF StreamInv
  <2>5. ~dropped' => ~dropped /\ source # "up"
    BY <1>4, <2>1
  <2>6. StreamInv'
    BY <1>1, <1>2, <1>3, <1>4, <2>4, <2>5 DEF StreamInv
  <2> QED BY <1>1, <2>3, <2>6
<1>5. CASE source = "up" /\ ~dropped /\ pipe' = Append(pipe, n + 1) /\ UNCHANGED dropped
  <2>1. /\ pipe' \in Seq(Nat) /\ Len(pipe') = Len(pipe) + 1
        /\ \A k \in 1 .. Len(pipe) : pipe'[k] = pipe[k]
        /\ pipe'[Len(pipe) + 1] = n + 1
    <3>1. n + 1 \in Nat
      BY <1>2
    <3> QED BY <1>2, <1>5, <3>1, AppendProperties
  <2>2. \A k \in 1 .. Len(pipe) + 1 : k = Len(pipe) + 1 \/ k \in 1 .. Len(pipe)
    BY <1>2
  <2>3. StreamTypes'
    <3>1. \A k \in 1 .. Len(pipe) + 1 : pipe'[k] \in 1 .. n + 1
      <4>1. \A k \in 1 .. Len(pipe) : pipe[k] \in 1 .. n
        BY DEF StreamTypes
      <4>2. 1 .. n \subseteq 1 .. n + 1 /\ n + 1 \in 1 .. n + 1
        BY <1>2
      <4> HIDE DEF n
      <4> QED BY <2>1, <2>2, <4>1, <4>2
    <3> QED BY <1>1, <1>3, <1>5, <2>1, <3>1 DEF StreamTypes
  <2>4. greeting # Absent /\ greeting.run # Absent => greeting.run <= host'.id
    <3>1. greeting # Absent /\ greeting.run # Absent => greeting.run \in Nat
      BY DEF StreamTypes, Greetings
    <3> QED BY <3>1 DEF StreamInv
  <2>5. ASSUME ~cut, busId \in {bus, Absent}
        PROVE  /\ \A k \in 1 .. Len(pipe) + 1 : pipe'[k] = lastSeq + k
               /\ lastSeq + (Len(pipe) + 1) = n + 1
    <3>1. lastSeq + Len(pipe) = n /\ \A k \in 1 .. Len(pipe) : pipe[k] = lastSeq + k
      BY <1>5, <2>5 DEF StreamInv
    <3> QED BY <1>2, <2>1, <2>2, <3>1
  <2>6. busId = bus => lastSeq <= n + 1
    BY <1>2 DEF StreamInv
  <2>7. (source' = "up" /\ ~cut' /\ busId' \in {bus', Absent}) =>
           /\ \A k \in 1 .. Len(pipe') : pipe'[k] = lastSeq' + k
           /\ lastSeq' + Len(pipe') <= Len(events')
           /\ ~dropped' => lastSeq' + Len(pipe') = Len(events')
    BY <1>1, <1>2, <1>3, <2>1, <2>5
  <2>8. StreamInv'
    BY <1>1, <1>3, <1>5, <2>4, <2>6, <2>7 DEF StreamInv
  <2> QED BY <1>1, <2>3, <2>8
<1>6. UNCHANGED pipe \/ (source = "up" /\ ~dropped /\ pipe' = Append(pipe, n + 1) /\ UNCHANGED dropped)
  BY DEF Publish
<1> QED BY <1>4, <1>5, <1>6

\* What the host publishes of a run at work keeps the invariant, when its log goes on telling of it.
LEMMA PublishedKeeps ==
  ASSUME RunConstants, RunInv, NEW e \in RunEvents, Publish(e), UNCHANGED screenVars,
         host.running, host' \in Hosts, host'.id = host.id,
         \A seen : Tells(seen, events, host) => Tells(Longer(seen, events, e), Append(events, e), host')
  PROVE  RunInv'
<1>1. StreamTypes /\ StreamInv /\ ScreenInv /\ host \in Hosts
  BY DEF RunInv, LogInv
<1>2. UNCHANGED <<runScreen, ownRun, runModel, lastRun>>
  BY DEF screenVars
<1>3. host.id \in Nat
  BY <1>1 DEF Hosts
<1>4. /\ StreamTypes' /\ StreamInv'
      /\ events' = Append(events, e) /\ UNCHANGED <<bus, source, greeting, lastSeq, busId, cut>>
  BY <1>1, <1>2, <1>3, PublishKeepsTheStream
<1>5. ScreenInv'
  BY <1>1, <1>2, <1>4 DEF ScreenInv
<1>6. PICK seen : Tells(seen, events, host) /\ PageReads(seen)
  BY DEF RunInv, LogInv
<1>7. PICK more : more = Longer(seen, events, e)
  OBVIOUS
<1>8. Tells(more, events', host')
  BY <1>4, <1>6, <1>7
<1>9. PageReads(more)'
  <2>1. busId = bus => lastSeq \in 0 .. Len(events)
    BY <1>1 DEF StreamTypes, StreamInv
  <2>2. \A k \in 0 .. Len(events) : more[k] = seen[k]
    BY <1>7 DEF Longer
  <2>3. (runScreen = "run" /\ ownRun = host.id /\ ~cut /\ busId = bus) => runModel = more[lastSeq]
    BY <1>6, <2>1, <2>2 DEF PageReads
  <2> QED BY <1>2, <1>4, <2>3 DEF PageReads
<1>10. LogInv'
  BY <1>8, <1>9 DEF LogInv
<1> QED BY <1>4, <1>5, <1>10 DEF RunInv

\* The steps of a run, and its end.
LEMMA HostKeeps ==
  ASSUME RunConstants, RunInv, HostSteps \/ \E ok \in BOOLEAN : HostFinishes(ok)
  PROVE  RunInv'
<1>0. host \in Hosts /\ Steps \in Seq(Ids)
  BY DEF RunInv, LogInv, RunConstants
<1>1. /\ host.id \in Nat /\ host.running \in BOOLEAN /\ host.next \in Nat \ {0}
      /\ host.states \in [Ids -> StepStates] /\ host.login \in BOOLEAN
  BY <1>0 DEF Hosts
<1>2. ASSUME NEW state \in {"begin", "ok", "skip", "fail"}, NEW why \in Reasons,
             host.running, host.next <= Len(Steps), Mark(state, why), UNCHANGED screenVars
      PROVE  RunInv'
  <2> DEFINE id == Steps[host.next]
  <2>1. id \in Ids
    <3>1. host.next \in 1 .. Len(Steps)
      BY <1>0, <1>1, <1>2
    <3> QED BY <1>0, <3>1
  <2>2. PICK e : e = [type |-> "step", id |-> id, state |-> state, why |-> why]
    OBVIOUS
  <2>3. e \in Marks /\ e \in RunEvents /\ e.id = id /\ e.state = state /\ e.why = why
    BY <2>1, <2>2 DEF Marks, RunEvents
  <2>4. Publish(e)
    BY <1>2, <2>2 DEF Mark
  <2> DEFINE states == [host.states EXCEPT ![id] = IF state = "begin" THEN "run" ELSE state]
             login == host.login \/ why = "login"
             next == IF state \in {"ok", "skip"} THEN host.next + 1 ELSE host.next
  <2>5. host' = [host EXCEPT !.states = states, !.login = login, !.next = next]
    BY <1>0, <1>2 DEF Mark, Hosts
  <2>6. states \in [Ids -> StepStates] /\ next \in Nat \ {0}
    <3>1. (IF state = "begin" THEN "run" ELSE state) \in StepStates
      BY DEF StepStates
    <3>2. states \in [Ids -> StepStates]
      BY <1>1, <2>1, <3>1
    <3>3. next \in Nat \ {0}
      BY <1>1
    <3> QED BY <3>2, <3>3
  <2>7. login \in BOOLEAN
    BY Zenon
  <2>8. states = [host.states EXCEPT ![e.id] = IF e.state = "begin" THEN "run" ELSE e.state]
        /\ login = (host.login \/ e.why = "login")
    BY <2>3
  <2> HIDE DEF states, login, next
  <2>9. /\ host' \in Hosts /\ host'.id = host.id /\ host'.running = host.running
        /\ host'.states = states /\ host'.login = login
    BY <1>0, <2>5, <2>6, <2>7 DEF Hosts
  <2>10. ASSUME NEW seen, Tells(seen, events, host)
         PROVE  Tells(Longer(seen, events, e), Append(events, e), host')
    <3>1. events \in Seq(RunEvents)
      BY DEF RunInv, StreamTypes
    <3>2. PICK log : log = events
      OBVIOUS
    <3> QED BY <1>0, <1>2, <2>3, <2>8, <2>9, <2>10, <3>1, StepTells
  <2> QED BY <1>2, <2>3, <2>4, <2>9, <2>10, PublishedKeeps
<1>3. CASE HostSteps
  <2>1. CASE \E state \in {"begin", "ok", "skip", "fail"}, why \in Reasons :
               host.running /\ host.next <= Len(Steps) /\ Mark(state, why) /\ UNCHANGED screenVars
    BY <1>2, <2>1
  <2>2. CASE /\ host.running /\ host' = [host EXCEPT !.next = @ + 1]
             /\ UNCHANGED <<bus, events, streamVars, screenVars>>
    <3>1. /\ host' \in Hosts /\ host'.id = host.id /\ host'.running = host.running /\ host'.came = host.came
          /\ host'.states = host.states /\ host'.login = host.login
      <4>1. host.next + 1 \in Nat \ {0}
        BY <1>1
      <4>2. host' = [host EXCEPT !.next = host.next + 1]
        BY <1>0, <2>2 DEF Hosts
      <4> QED BY <1>0, <4>1, <4>2 DEF Hosts
    <3>2. UNCHANGED <<bus, events, source, greeting, pipe, dropped, lastSeq, busId, cut, runScreen, ownRun, runModel, lastRun>>
      BY <2>2 DEF streamVars, screenVars
    <3>3. StreamTypes' /\ StreamInv'
      BY <3>1, <3>2 DEF RunInv, StreamTypes, StreamInv
    <3>4. ScreenInv'
      BY <2>2, <3>1, <3>2 DEF RunInv, ScreenInv
    <3>5. ASSUME NEW seen, Tells(seen, events, host), PageReads(seen) PROVE (Tells(seen, events, host) /\ PageReads(seen))'
      BY <3>1, <3>2, <3>5 DEF Tells, Matches, PageReads
    <3> QED BY <3>1, <3>3, <3>4, <3>5 DEF RunInv, LogInv
  <2>3. "" \in Reasons /\ "login" \in Reasons
    BY Zenon DEF Reasons
  <2> QED BY <1>3, <2>1, <2>2, <2>3, Zenon DEF HostSteps
<1>4. ASSUME NEW ok \in BOOLEAN, HostFinishes(ok) PROVE RunInv'
  <2>1. FailedStep = Failing(host.states)
    BY DEF FailedStep, Failed, Failing
  <2>2. Failing(host.states) \in Ids \cup {Absent}
    BY DEF Failing
  <2>3. PICK e : e = [type |-> "run-finished", run |-> host.id, ok |-> ok, id |-> Failing(host.states)]
    OBVIOUS
  <2>4. e \in Finishes /\ e \in RunEvents /\ e.run = host.id /\ e.ok = ok /\ e.id = Failing(host.states)
    BY <1>1, <2>2, <2>3 DEF Finishes, RunEvents
  <2>5. Publish(e) /\ UNCHANGED screenVars /\ host.running
    BY <1>4, <2>1, <2>3 DEF HostFinishes
  <2>6. /\ host' \in Hosts /\ host'.id = host.id /\ ~host'.running /\ host'.came # "nothing" /\ ok = (host'.came = "ok")
        /\ host'.states = host.states /\ host'.login = host.login
    BY <1>0, <1>4 DEF HostFinishes, Hosts
  <2>7. ASSUME NEW seen, Tells(seen, events, host)
        PROVE  Tells(Longer(seen, events, e), Append(events, e), host')
    <3>1. events \in Seq(RunEvents)
      BY DEF RunInv, StreamTypes
    <3> QED BY <1>0, <2>4, <2>5, <2>6, <2>7, <3>1, EndTells
  <2> QED BY <2>4, <2>5, <2>6, <2>7, PublishedKeeps
<1> QED BY <1>3, <1>4

\* A run begins: the host's log tells of it, and no page has read of it.
LEMMA BeginKeeps ==
  ASSUME RunConstants, RunInv, NEW first \in Nat \ {0}, BeginRun(host.id + 1, first),
         runScreen' = runScreen \/ runScreen' = "run"
  PROVE  /\ StreamTypes' /\ StreamInv'
         /\ host' \in Hosts /\ host'.id = host.id + 1 /\ ~host.running
         /\ \E seen : Tells(seen, events', host')
         /\ UNCHANGED <<bus, source, lastSeq, busId, cut>>
<1> DEFINE id == host.id + 1
           e == StartedBy(id)
<1>1. StreamTypes /\ StreamInv /\ host \in Hosts
  BY DEF RunInv, LogInv
<1>2. host.id \in Nat /\ id \in Nat /\ host.id < id /\ host.id <= id
  BY <1>1 DEF Hosts
<1>3. ~host.running /\ host' = [Idle EXCEPT !.id = id, !.running = TRUE, !.next = first] /\ Publish(e)
  BY DEF BeginRun
<1> HIDE DEF id
<1>4. /\ host' \in Hosts /\ host'.id = id /\ host'.running /\ ~host'.login
      /\ host'.states = [k \in Ids |-> "wait"]
  BY <1>2, <1>3, IdleIsAHost
<1>5. e \in RunEvents
  BY <1>2 DEF StartedBy, RunEvents, Starts
<1> HIDE DEF e
<1>6. PICK x : x = e
  OBVIOUS
<1>7. /\ StreamTypes' /\ StreamInv'
      /\ events' = Append(events, e) /\ UNCHANGED <<bus, source, greeting, lastSeq, busId, cut>>
  BY <1>1, <1>2, <1>3, <1>4, <1>5, <1>6, PublishKeepsTheStream
<1>8. StartsOnce(events, host.id)
  BY DEF RunInv, LogInv, Tells
<1>9. \E seen : Tells(seen, Append(events, StartedBy(host'.id)), host')
  <2>1. events \in Seq(RunEvents)
    BY <1>1 DEF StreamTypes
  <2> QED BY <1>2, <1>4, <1>8, <2>1, BeginTells
<1> QED BY <1>3, <1>4, <1>7, <1>9 DEF id, e

\* A run in another window.
LEMMA OtherRunKeeps == ASSUME RunConstants, RunInv, OtherRun PROVE RunInv'
<1>1. Len(Steps) \in Nat \ {0}
  BY DEF RunConstants
<1>2. host.id = 0 /\ BeginRun(host.id + 1, Len(Steps)) /\ UNCHANGED screenVars
  BY DEF OtherRun
<1>3. UNCHANGED <<runScreen, ownRun, runModel, lastRun>>
  BY <1>2 DEF screenVars
<1>4. PICK first \in Nat \ {0} : first = Len(Steps)
  BY <1>1
<1>5. /\ StreamTypes' /\ StreamInv'
      /\ host' \in Hosts /\ host'.id = host.id + 1
      /\ \E seen : Tells(seen, events', host')
      /\ UNCHANGED <<bus, source, lastSeq, busId, cut>>
  BY <1>2, <1>3, <1>4, BeginKeeps
<1>6. ScreenInv'
  BY <1>2, <1>3, <1>5 DEF RunInv, ScreenInv
<1>7. \A seen : PageReads(seen)'
  <2>1. runScreen = "run" => ownRun \in Nat /\ ownRun <= 0
    BY <1>2 DEF RunInv, ScreenInv
  <2>2. ~(runScreen' = "run" /\ ownRun' = host'.id)
    BY <1>2, <1>3, <1>5, <2>1
  <2> QED BY <2>2 DEF PageReads
<1> QED BY <1>5, <1>6, <1>7 DEF RunInv, LogInv

\* A run is started here, and its screen opens.
LEMMA StartRunKeeps == ASSUME RunConstants, RunInv, StartRun PROVE RunInv'
<1>1. runScreen \in {"start", "result"} /\ BeginRun(host.id + 1, 1) /\ ShowRun(host.id + 1)
  BY DEF StartRun
<1>2. runScreen' = "run" /\ ownRun' = host.id + 1 /\ runModel' = Create(host.id + 1)
  BY <1>1 DEF ShowRun
<1>3. 1 \in Nat \ {0}
  OBVIOUS
<1>4. /\ StreamTypes' /\ StreamInv'
      /\ host' \in Hosts /\ host'.id = host.id + 1
      /\ \E seen : Tells(seen, events', host')
      /\ UNCHANGED <<bus, source, lastSeq, busId, cut>>
  BY <1>1, <1>2, <1>3, BeginKeeps
<1>5. host.id \in Nat /\ bus \in Nat /\ Absent \notin Nat
  BY DEF RunInv, LogInv, Hosts, StreamTypes, RunConstants
<1>6. busId = Absent
  BY <1>1 DEF RunInv, StreamInv
<1>7. ScreenInv'
  <2>1. host.id + 1 \in Nat
    BY <1>5
  <2>2. Create(host.id + 1) \in RunModels /\ Create(host.id + 1).run = host.id + 1
        /\ ~Create(host.id + 1).finished
    BY <2>1, CreateIsAModel DEF Create
  <2> HIDE DEF RunModels
  <2> QED BY <1>2, <1>4, <2>1, <2>2 DEF ScreenInv
<1>8. \A seen : PageReads(seen)'
  BY <1>4, <1>5, <1>6 DEF PageReads
<1> QED BY <1>4, <1>7, <1>8 DEF RunInv, LogInv

\* The log that is replayed after a restart starts with the only start of the run.
LEMMA ReplayedIsReplay ==
  ASSUME NEW p \in 1 .. Len(events), NEW id, events[p] = StartedBy(host.id),
         \A q \in 1 .. Len(events) : events[q] = StartedBy(host.id) => q = p
  PROVE  Replayed(id) = ReplayOf(events, p, id)
<1> DEFINE places == {q \in 1 .. Len(events) : events[q] = StartedBy(host.id)}
<1>1. places = {p}
  OBVIOUS
<1>2. Min({p}) = p
  BY DEF Min
<1>3. SelectInSeq(events, LAMBDA e : e = StartedBy(host.id)) = IF places # {} THEN Min(places) ELSE 0
  BY DEF SelectInSeq
<1>4. SelectInSeq(events, LAMBDA e : e = StartedBy(host.id)) = p
  <2> HIDE DEF places
  <2> QED BY <1>1, <1>2, <1>3
<1> QED BY <1>4 DEF Replayed, ReplayOf

\* The host starts again with another bus, and takes up a run at work or knows of none.
LEMMA RestartKeeps ==
  ASSUME RunConstants, RunInv, NEW resumed \in BOOLEAN, HostRestarts(resumed)
  PROVE  RunInv'
<1>1. StreamTypes /\ StreamInv /\ ScreenInv /\ host \in Hosts
  BY DEF RunInv, LogInv
<1>2. /\ bus' = bus + 1 /\ (resumed => host.running)
      /\ source' = IF source = "up" THEN "down" ELSE source
      /\ greeting' = Absent /\ pipe' = <<>> /\ dropped' = FALSE
      /\ UNCHANGED <<lastSeq, busId, cut, runScreen, ownRun, runModel, lastRun>>
  BY DEF HostRestarts, Quiet, screenVars
<1>3. /\ events' \in Seq(RunEvents) /\ host' \in Hosts
      /\ host'.id \in {host.id, host.id + 1}
      /\ host'.id # host.id => host.running
      /\ host'.running => host.running
      /\ ~host'.running => host'.came = "nothing"
      /\ \E seen : Tells(seen, events', host')
  <2>1. CASE resumed
    <3>1. PICK id \in {host.id, host.id + 1} : events' = Replayed(id) /\ host' = [host EXCEPT !.id = id]
      BY <2>1 DEF HostRestarts
    <3>2. id \in Nat
      BY <1>1 DEF Hosts
    <3>3. /\ host' \in Hosts /\ host'.id = id /\ host'.running = host.running /\ host'.came = host.came
          /\ host'.states = host.states /\ host'.login = host.login
      BY <1>1, <3>1, <3>2 DEF Hosts
    <3>4. PICK seen : Tells(seen, events, host)
      BY DEF RunInv, LogInv
    <3>5. events \in Seq(RunEvents) /\ host.running
      BY <1>1, <1>2, <2>1 DEF StreamTypes
    <3>6. /\ host \in Hosts /\ host' \in Hosts /\ host.running /\ host'.running
          /\ host'.states = host.states /\ host'.login = host.login
      BY <1>1, <3>3, <3>5
    <3>7. PICK p \in 1 .. Len(events) : /\ events[p] = StartedBy(host.id)
                                        /\ \A q \in 1 .. Len(events) : events[q] = StartedBy(host.id) => q = p
                                        /\ ReplayOf(events, p, host'.id) \in Seq(RunEvents)
                                        /\ Tells(Again(seen, events, p, host'.id), ReplayOf(events, p, host'.id), host')
      BY ONLY <3>4, <3>5, <3>6, ReplayTells
    <3>8. events' = ReplayOf(events, p, id)
      BY <3>1, <3>7, ReplayedIsReplay
    <3>9. \E again : Tells(again, events', host')
      BY <3>3, <3>7, <3>8
    <3> QED BY <3>1, <3>3, <3>5, <3>7, <3>8, <3>9
  <2>2. CASE ~resumed
    <3>1. events' = <<>> /\ host' = [Idle EXCEPT !.id = host.id]
      BY <2>2 DEF HostRestarts
    <3>2. host.id \in Nat
      BY <1>1 DEF Hosts
    <3>3. /\ host' \in Hosts /\ host'.id = host.id /\ ~host'.running /\ host'.came = "nothing" /\ ~host'.login
          /\ host'.states = [k \in Ids |-> "wait"]
      BY <3>1, <3>2, RestartedIsAHost
    <3>4. \E seen : Tells(seen, events', host')
      BY <3>1, <3>3, EmptyTells
    <3>5. events' \in Seq(RunEvents)
      BY <3>1
    <3> QED BY <3>3, <3>4, <3>5
  <2> QED BY <2>1, <2>2
<1>4. bus \in Nat /\ busId \in Nat \cup {Absent} /\ Absent \notin Nat /\ lastSeq \in Nat /\ cut \in BOOLEAN
      /\ source \in {"none", "down", "up"} /\ host.id \in Nat
  BY <1>1 DEF StreamTypes, RunConstants, Hosts
<1>5. busId' # bus'
  BY <1>1, <1>2, <1>4 DEF StreamInv
<1>6. StreamTypes'
  <2>1. \A k \in 1 .. Len(pipe') : FALSE
    BY <1>2
  <2>2. pipe' \in Seq(Nat)
    BY <1>2
  <2>3. source' \in {"none", "down", "up"} /\ bus' \in Nat
    BY <1>2, <1>4
  <2> QED BY <1>2, <1>3, <1>4, <2>1, <2>2, <2>3 DEF StreamTypes
<1>7. StreamInv'
  <2>1. /\ runScreen' # "run" => source' = "none"
        /\ source' = "none" => busId' = Absent
        /\ busId' # Absent => busId' <= bus'
        /\ source' # "up"
    BY <1>1, <1>2, <1>4 DEF StreamInv
  <2>2. busId' = Absent => lastSeq' = 0
    BY <1>1, <1>2 DEF StreamInv
  <2> QED BY <1>2, <1>5, <2>1, <2>2 DEF StreamInv
<1>8. ScreenInv'
  <2>1. runScreen = "run" => ownRun <= host'.id
    BY <1>1, <1>3, <1>4 DEF ScreenInv
  <2>2. ASSUME runScreen = "result"
        PROVE  lastRun.run <= host'.id
    BY <1>1, <1>3, <1>4, <2>2 DEF ScreenInv
  <2>3. ASSUME runScreen = "result", ~cut, lastRun.run = host'.id
        PROVE  ~host'.running /\ (host'.came # "nothing" => lastRun = Ended(host)')
    <3>1. lastRun.run \in Nat /\ lastRun.run <= host.id
      BY <1>1, <2>3 DEF ScreenInv
    <3>2. lastRun.run = host.id
      BY <1>3, <1>4, <2>3, <3>1
    <3>3. ~host.running
      BY <1>1, <2>3, <3>2 DEF ScreenInv
    <3> QED BY <1>3, <3>3
  <2> QED BY <1>1, <1>2, <2>1, <2>2, <2>3 DEF ScreenInv
<1>9. \A seen : PageReads(seen)'
  BY <1>5 DEF PageReads
<1> QED BY <1>3, <1>6, <1>7, <1>8, <1>9 DEF RunInv, LogInv

\* A stream that is opened gets what the page has not seen yet, as much as the channel holds.
LEMMA ConnectKeeps == ASSUME RunConstants, RunInv, Connect PROVE RunInv'
<1> DEFINE n == Len(events)
           missed == IF lastSeq >= n THEN <<>> ELSE [k \in 1 .. (n - lastSeq) |-> lastSeq + k]
           room == IF Len(missed) < Buffer THEN Len(missed) ELSE Buffer
<1>1. StreamTypes /\ StreamInv /\ ScreenInv /\ LogInv
  BY DEF RunInv
<1>2. /\ source = "down" /\ source' = "up"
      /\ greeting' = [bus |-> bus, run |-> IF host.id = 0 THEN Absent ELSE host.id, running |-> host.running]
      /\ pipe' = SubSeq(missed, 1, room)
      /\ cut' = (cut \/ Len(missed) > Buffer)
      /\ dropped' = FALSE
      /\ UNCHANGED <<bus, events, host, lastSeq, busId, runScreen, ownRun, runModel, lastRun>>
  BY DEF Connect, hostVars, screenVars
<1>3. n \in Nat /\ lastSeq \in Nat /\ Buffer \in Nat /\ bus \in Nat /\ busId \in Nat \cup {Absent} /\ Absent \notin Nat
      /\ cut \in BOOLEAN /\ host.id \in Nat /\ host.running \in BOOLEAN
  BY <1>1 DEF StreamTypes, RunConstants, LogInv, Hosts
<1>4. /\ missed \in Seq(Nat) /\ Len(missed) = IF lastSeq >= n THEN 0 ELSE n - lastSeq
      /\ \A k \in 1 .. Len(missed) : missed[k] = lastSeq + k /\ missed[k] \in 1 .. n
  <2>1. CASE lastSeq >= n
    <3>1. missed = <<>>
      BY <2>1
    <3> QED BY <2>1, <3>1
  <2>2. CASE ~(lastSeq >= n)
    <3> DEFINE all == [k \in 1 .. (n - lastSeq) |-> lastSeq + k]
    <3>1. missed = all /\ n - lastSeq \in Nat
      BY <1>3, <2>2
    <3>2. all \in [1 .. (n - lastSeq) -> Nat]
      BY <1>3
    <3>3. all \in Seq(Nat) /\ Len(all) = n - lastSeq
      BY <3>1, <3>2
    <3>4. \A k \in 1 .. (n - lastSeq) : all[k] = lastSeq + k /\ lastSeq + k \in 1 .. n
      BY <1>3
    <3> QED BY <2>2, <3>1, <3>3, <3>4
  <2> QED BY <2>1, <2>2
<1>5. room \in Nat /\ room <= Len(missed) /\ (~(Len(missed) > Buffer) => room = Len(missed))
  BY <1>3, <1>4
<1> HIDE DEF missed, room, n
<1>6. /\ pipe' \in Seq(Nat) /\ Len(pipe') = room
      /\ \A k \in 1 .. room : pipe'[k] = lastSeq + k /\ pipe'[k] \in 1 .. n
  <2>1. \A k \in 1 .. room : k \in 1 .. Len(missed)
    BY <1>4, <1>5
  <2>2. /\ pipe' \in Seq(Nat) /\ Len(pipe') = room
        /\ \A k \in 1 .. room : pipe'[k] = missed[k]
    BY <1>2, <1>4, <1>5
  <2> QED BY <1>4, <2>1, <2>2
<1>7. greeting' \in Greetings /\ greeting'.bus = bus /\ (greeting'.run # Absent => greeting'.run <= host.id)
      /\ greeting' # Absent
  <2>1. greeting' \in Greetings /\ greeting'.bus = bus /\ (greeting'.run # Absent => greeting'.run <= host.id)
    BY <1>2, <1>3 DEF Greetings
  <2>2. Absent \notin Greetings
    BY DEF RunConstants, Greetings
  <2> QED BY <2>1, <2>2
<1>8. StreamTypes'
  <2>1. cut' \in BOOLEAN
    BY <1>2, Zenon
  <2> QED BY <1>1, <1>2, <1>6, <1>7, <2>1 DEF StreamTypes, n
<1>9. runScreen = "run"
  BY <1>1, <1>2 DEF StreamInv
<1>10. ASSUME ~cut', busId \in {bus, Absent} PROVE lastSeq + room = n
  <2>1. lastSeq <= n
    BY <1>1, <1>3, <1>10 DEF StreamInv, n
  <2>2. room = Len(missed)
    BY <1>2, <1>5, <1>10
  <2> QED BY <1>3, <1>4, <2>1, <2>2
<1>11. StreamInv'
  <2>1. (source' = "up" /\ ~cut' /\ busId' \in {bus', Absent}) =>
           /\ \A k \in 1 .. Len(pipe') : pipe'[k] = lastSeq' + k
           /\ lastSeq' + Len(pipe') <= Len(events')
           /\ ~dropped' => lastSeq' + Len(pipe') = Len(events')
    BY <1>2, <1>3, <1>6, <1>10 DEF n
  <2> QED BY <1>1, <1>2, <1>7, <1>9, <2>1 DEF StreamInv
<1>12. ScreenInv'
  BY <1>1, <1>2, <1>9 DEF ScreenInv
<1>13. LogInv'
  <2>1. PICK seen : Tells(seen, events, host) /\ PageReads(seen)
    BY <1>1 DEF LogInv
  <2>2. PageReads(seen)'
    BY <1>2, <2>1 DEF PageReads
  <2>3. host' \in Hosts /\ Tells(seen, events', host')
    BY <1>1, <1>2, <2>1 DEF LogInv
  <2> QED BY <2>2, <2>3 DEF LogInv
<1> QED BY <1>8, <1>11, <1>12, <1>13 DEF RunInv

\* A stream that broke, or that a host ended, is to be opened again.
LEMMA BreakKeeps == ASSUME RunConstants, RunInv, Breaks \/ Ends PROVE RunInv'
<1>1. StreamTypes /\ StreamInv /\ ScreenInv /\ LogInv
  BY DEF RunInv
<1>2. /\ source = "up" /\ source' = "down" /\ greeting' = Absent /\ pipe' = <<>> /\ dropped' = FALSE
      /\ UNCHANGED <<bus, events, host, lastSeq, busId, cut, runScreen, ownRun, runModel, lastRun>>
  BY DEF Breaks, Ends, Quiet, hostVars, screenVars
<1>3. StreamTypes'
  <2>1. \A k \in 1 .. Len(pipe') : FALSE
    BY <1>2
  <2>2. pipe' \in Seq(Nat)
    BY <1>2
  <2> QED BY <1>1, <1>2, <2>1, <2>2 DEF StreamTypes
<1>4. StreamInv'
  BY <1>1, <1>2 DEF StreamInv
<1>5. ScreenInv'
  BY <1>1, <1>2 DEF ScreenInv
<1>6. LogInv'
  <2>1. PICK seen : Tells(seen, events, host) /\ PageReads(seen)
    BY <1>1 DEF LogInv
  <2>2. PageReads(seen)'
    BY <1>2, <2>1 DEF PageReads
  <2>3. host' \in Hosts /\ Tells(seen, events', host')
    BY <1>1, <1>2, <2>1 DEF LogInv
  <2> QED BY <2>2, <2>3 DEF LogInv
<1> QED BY <1>3, <1>4, <1>5, <1>6 DEF RunInv

\* The greeting tells the page whether the numbers it knows still count.
LEMMA HelloKeeps == ASSUME RunConstants, RunInv, ReceiveHello PROVE RunInv'
<1>1. StreamTypes /\ StreamInv /\ ScreenInv /\ LogInv
  BY DEF RunInv
<1>2. source = "up" /\ greeting # Absent /\ UNCHANGED <<bus, events, host>>
  BY DEF ReceiveHello, hostVars
<1>3. /\ greeting \in Greetings /\ greeting.bus = bus /\ bus \in Nat /\ busId \in Nat \cup {Absent}
      /\ greeting.run \in Nat \cup {Absent} /\ (greeting.run # Absent => greeting.run <= host.id)
      /\ host \in Hosts /\ host.id \in Nat /\ Absent \notin Nat
  BY <1>1, <1>2 DEF StreamTypes, StreamInv, Greetings, LogInv, Hosts, RunConstants
<1>4. /\ runScreen = "run" /\ ownRun \in Nat /\ ownRun <= host.id
      /\ runModel \in RunModels /\ runModel.run = ownRun /\ ~runModel.finished
      /\ busId = Absent => runModel = Create(ownRun)
  BY <1>1, <1>2 DEF StreamInv, ScreenInv
<1>5. PICK seen : Tells(seen, events, host) /\ PageReads(seen)
  BY <1>1 DEF LogInv
<1>6. seen[0] = Create(host.id)
  BY <1>5 DEF Tells, Follows
<1>7. Len(events) \in Nat
  BY <1>1 DEF StreamTypes
<1>8. CASE busId # Absent /\ busId # bus
  <2>1. Restarted(greeting) /\ OnRestart(greeting)
    BY <1>3, <1>8 DEF ReceiveHello
  <2>2. /\ busId' = bus /\ source' = "down" /\ greeting' = Absent /\ pipe' = <<>> /\ dropped' = FALSE
        /\ lastSeq' = 0 /\ cut' = FALSE
        /\ ownRun' = (IF greeting.run # Absent THEN greeting.run ELSE ownRun) /\ runModel' = Create(ownRun')
        /\ UNCHANGED <<runScreen, lastRun>>
    BY <1>3, <2>1 DEF Restarted, OnRestart, Quiet
  <2>3. ownRun' \in Nat /\ ownRun' <= host.id
    BY <1>3, <1>4, <2>2
  <2>4. Create(ownRun') \in RunModels /\ Create(ownRun').run = ownRun' /\ ~Create(ownRun').finished
    <3>1. \A id \in Nat : Create(id) \in RunModels /\ Create(id).run = id /\ ~Create(id).finished
      BY CreateIsAModel DEF Create
    <3> QED BY <2>3, <3>1
  <2>5. StreamTypes'
    <3>1. \A k \in 1 .. Len(pipe') : FALSE
      BY <2>2
    <3>2. pipe' \in Seq(Nat)
      BY <2>2
    <3> QED BY <1>1, <1>2, <1>3, <2>2, <3>1, <3>2 DEF StreamTypes
  <2>6. StreamInv'
    BY <1>2, <1>3, <1>4, <1>7, <2>2 DEF StreamInv
  <2>7. ScreenInv'
    <3> HIDE DEF RunModels
    <3> QED BY <1>2, <1>3, <1>4, <2>2, <2>3, <2>4 DEF ScreenInv
  <2>8. PageReads(seen)'
    BY <1>2, <1>6, <2>2 DEF PageReads
  <2>9. Tells(seen, events', host') /\ host' \in Hosts
    BY <1>2, <1>3, <1>5
  <2> QED BY <2>5, <2>6, <2>7, <2>8, <2>9 DEF RunInv, LogInv
<1>9. CASE ~(busId # Absent /\ busId # bus)
  <2>1. /\ busId' = bus /\ greeting' = Absent
        /\ UNCHANGED <<source, pipe, dropped, lastSeq, cut, runScreen, ownRun, runModel, lastRun>>
    BY <1>3, <1>9 DEF ReceiveHello, screenVars
  <2>2. StreamTypes'
    BY <1>1, <1>2, <1>3, <2>1 DEF StreamTypes
  <2>3. busId = Absent => lastSeq = 0
    BY <1>1 DEF StreamInv
  <2>4. lastSeq <= Len(events)
    BY <1>1, <1>7, <1>9, <2>3 DEF StreamInv
  <2>5. StreamInv'
    <3>1. busId \in {bus, Absent}
      BY <1>9
    <3>2. source = "up" /\ ~cut =>
             /\ \A k \in 1 .. Len(pipe) : pipe[k] = lastSeq + k
             /\ lastSeq + Len(pipe) <= Len(events)
             /\ ~dropped => lastSeq + Len(pipe) = Len(events)
      BY <1>1, <3>1 DEF StreamInv
    <3> QED BY <1>2, <1>3, <1>4, <2>1, <2>4, <3>2 DEF StreamInv
  <2>6. ScreenInv'
    BY <1>1, <1>2, <1>3, <1>4, <2>1 DEF ScreenInv
  <2>7. runScreen = "run" /\ ownRun = host.id /\ ~cut => runModel = seen[lastSeq]
    BY <1>4, <1>5, <1>6, <1>9, <2>3 DEF PageReads
  <2>8. PageReads(seen)'
    BY <1>2, <2>1, <2>7 DEF PageReads
  <2>9. Tells(seen, events', host') /\ host' \in Hosts
    BY <1>2, <1>3, <1>5
  <2> QED BY <2>2, <2>5, <2>6, <2>8, <2>9 DEF RunInv, LogInv
<1> QED BY <1>8, <1>9

\* An event makes of what the page knows what the log says, and the last one is the end of the run.
LEMMA EventKeeps == ASSUME RunConstants, RunInv, ReceiveEvent PROVE RunInv'
<1> DEFINE seq == Head(pipe)
           n == Len(events)
           model == IF seq <= lastSeq THEN runModel ELSE Apply(runModel, events[seq])
<1>1. StreamTypes /\ StreamInv /\ ScreenInv /\ LogInv
  BY DEF RunInv
<1>2. /\ source = "up" /\ greeting = Absent /\ pipe # <<>> /\ UNCHANGED <<bus, events, host, ownRun>>
      /\ runModel' = model
  BY DEF ReceiveEvent, hostVars
<1>3. /\ n \in Nat /\ lastSeq \in Nat /\ pipe \in Seq(Nat) /\ Len(pipe) \in Nat /\ Len(pipe) >= 1 /\ cut \in BOOLEAN
      /\ seq = pipe[1] /\ seq \in 1 .. n /\ events[seq] \in RunEvents
      /\ host \in Hosts /\ host.id \in Nat /\ bus \in Nat /\ Absent \notin Nat
  <2>1. events \in Seq(RunEvents) /\ pipe \in Seq(Nat) /\ \A k \in 1 .. Len(pipe) : pipe[k] \in 1 .. n
    BY <1>1 DEF StreamTypes
  <2>2. Len(pipe) \in Nat /\ Len(pipe) >= 1 /\ seq = pipe[1]
    BY <1>2, <2>1
  <2>3. seq \in 1 .. n
    BY <2>1, <2>2
  <2>4. events[seq] \in RunEvents
    BY <2>1, <2>3
  <2>5. /\ n \in Nat /\ lastSeq \in Nat /\ cut \in BOOLEAN
        /\ host \in Hosts /\ host.id \in Nat /\ bus \in Nat /\ Absent \notin Nat
    BY <1>1, <2>1 DEF StreamTypes, LogInv, Hosts, RunConstants
  <2> QED BY <2>1, <2>2, <2>3, <2>4, <2>5
<1>4. /\ busId = bus /\ lastSeq <= n /\ runScreen = "run" /\ ownRun \in Nat /\ ownRun <= host.id
      /\ runModel \in RunModels /\ runModel.run = ownRun /\ ~runModel.finished
  BY <1>1, <1>2 DEF StreamInv, ScreenInv
<1>5. model \in RunModels /\ model.run = ownRun
  <2>1. Apply(runModel, events[seq]) \in RunModels /\ Apply(runModel, events[seq]).run = ownRun
    BY <1>3, <1>4, ApplyKeeps
  <2> QED BY <1>4, <2>1
<1>6. ~cut => seq = lastSeq + 1 /\ \A k \in 1 .. Len(pipe) : pipe[k] = lastSeq + k
  BY <1>1, <1>2, <1>3, <1>4 DEF StreamInv
<1>7. PICK seen : Tells(seen, events, host) /\ PageReads(seen)
  BY <1>1 DEF LogInv
<1>8. ASSUME ~cut, ownRun = host.id PROVE model = seen[seq] /\ seq = lastSeq + 1
  <2>1. runModel = seen[lastSeq]
    BY <1>4, <1>7, <1>8 DEF PageReads
  <2>2. seq = lastSeq + 1 /\ seq - 1 = lastSeq /\ ~(seq <= lastSeq)
    BY <1>3, <1>6, <1>8
  <2>3. seen[seq] = Apply(seen[seq - 1], events[seq])
    BY <1>3, <1>7 DEF Tells, Follows
  <2> QED BY <2>1, <2>2, <2>3
<1>9. Tells(seen, events', host') /\ host' \in Hosts
  BY <1>2, <1>3, <1>7
<1>10. CASE model.finished
  <2>1. /\ source' = "none" /\ lastSeq' = 0 /\ busId' = Absent /\ cut' = cut
        /\ greeting' = Absent /\ pipe' = <<>> /\ dropped' = FALSE
        /\ lastRun' = Outcome(model) /\ runScreen' = "result"
    BY <1>10 DEF ReceiveEvent, CloseStream, Quiet
  <2>2. StreamTypes'
    <3>1. \A k \in 1 .. Len(pipe') : FALSE
      BY <2>1
    <3>2. pipe' \in Seq(Nat)
      BY <2>1
    <3> QED BY <1>1, <1>2, <1>3, <2>1, <3>1, <3>2 DEF StreamTypes
  <2>3. StreamInv'
    BY <1>2, <1>3, <2>1 DEF StreamInv
  <2>4. ASSUME ~cut, ownRun = host.id
        PROVE  ~host.running /\ host.came # "nothing" /\ Outcome(model) = Ended(host)
    <3>1. model = seen[seq]
      BY <1>8, <2>4
    <3>2. seq = n
      <4>1. seq \in 0 .. n
        BY <1>3
      <4>2. seq < n => ~seen[seq].finished
        BY <1>7, <4>1 DEF Tells, Waits
      <4> QED BY <1>3, <1>10, <3>1, <4>2
    <3>3. Matches(model, host)
      BY <1>7, <3>1, <3>2 DEF Tells
    <3> HIDE DEF model
    <3> QED BY <1>5, <1>10, <2>4, <3>3 DEF Matches, Outcome, Ended
  <2>5. Outcome(model).run = ownRun
    <3> HIDE DEF model
    <3> QED BY <1>5 DEF Outcome
  <2>6. ScreenInv'
    <3> HIDE DEF model
    <3> QED BY <1>2, <1>4, <2>1, <2>4, <2>5 DEF ScreenInv, Ended
  <2>7. PageReads(seen)'
    BY <2>1 DEF PageReads
  <2> QED BY <1>9, <2>2, <2>3, <2>6, <2>7 DEF RunInv, LogInv
<1>11. CASE ~model.finished
  <2>1. /\ lastSeq' = (IF seq <= lastSeq THEN lastSeq ELSE seq) /\ pipe' = Tail(pipe)
        /\ UNCHANGED <<source, greeting, dropped, busId, cut, lastRun, runScreen>>
    BY <1>11 DEF ReceiveEvent
  <2>2. /\ pipe' \in Seq(Nat) /\ Len(pipe') = Len(pipe) - 1
        /\ \A k \in 1 .. Len(pipe) - 1 : pipe'[k] = pipe[k + 1] /\ k + 1 \in 1 .. Len(pipe)
    BY <1>2, <1>3, <2>1
  <2>3. lastSeq' \in Nat /\ lastSeq' <= n
    BY <1>3, <1>4, <2>1
  <2>4. StreamTypes'
    <3>1. \A k \in 1 .. Len(pipe') : pipe'[k] \in 1 .. n
      BY <1>1, <2>2 DEF StreamTypes
    <3> QED BY <1>1, <1>2, <1>3, <2>1, <2>2, <2>3, <3>1 DEF StreamTypes
  <2>5. ASSUME ~cut
        PROVE  /\ lastSeq' = lastSeq + 1
               /\ \A k \in 1 .. Len(pipe) - 1 : pipe'[k] = (lastSeq + 1) + k
    <3>1. ~(seq <= lastSeq) /\ seq = lastSeq + 1
      BY <1>3, <1>6, <2>5
    <3>2. \A k \in 1 .. Len(pipe) - 1 : pipe[k + 1] = lastSeq + (k + 1)
      BY <1>6, <2>2, <2>5
    <3>3. \A k \in 1 .. Len(pipe) - 1 : lastSeq + (k + 1) = (lastSeq + 1) + k
      BY <1>3
    <3> QED BY <2>1, <2>2, <3>1, <3>2, <3>3
  <2>6. (source' = "up" /\ ~cut' /\ busId' \in {bus', Absent}) =>
           /\ \A k \in 1 .. Len(pipe') : pipe'[k] = lastSeq' + k
           /\ lastSeq' + Len(pipe') <= Len(events')
           /\ ~dropped' => lastSeq' + Len(pipe') = Len(events')
    <3>1. ~cut => lastSeq + Len(pipe) <= n /\ (~dropped => lastSeq + Len(pipe) = n)
      BY <1>1, <1>2, <1>4 DEF StreamInv
    <3> HIDE DEF n
    <3>2. ~cut => lastSeq' + Len(pipe') = lastSeq + Len(pipe)
      BY <1>3, <2>2, <2>5
    <3> QED BY <1>2, <2>1, <2>2, <2>5, <3>1, <3>2 DEF n
  <2>7. StreamInv'
    BY <1>1, <1>2, <1>3, <1>4, <2>1, <2>3, <2>6 DEF StreamInv
  <2>8. ScreenInv'
    <3> HIDE DEF model, RunModels
    <3> QED BY <1>2, <1>3, <1>4, <1>5, <1>11, <2>1 DEF ScreenInv
  <2>9. PageReads(seen)'
    <3>1. ~cut /\ ownRun = host.id => runModel' = seen[lastSeq']
      BY <1>2, <1>3, <1>8, <2>1
    <3> QED BY <1>2, <2>1, <3>1 DEF PageReads
  <2> QED BY <1>9, <2>4, <2>7, <2>8, <2>9 DEF RunInv, LogInv
<1> QED BY <1>10, <1>11

\* The screen of a run opens its stream from the beginning.
LEMMA OpenKeeps == ASSUME RunConstants, RunInv, ScreenRunInit PROVE RunInv'
<1>1. StreamTypes /\ StreamInv /\ ScreenInv /\ LogInv
  BY DEF RunInv
<1>2. /\ runScreen = "run" /\ source = "none" /\ source' = "down" /\ lastSeq' = 0 /\ busId' = Absent /\ cut' = FALSE
      /\ greeting' = Absent /\ pipe' = <<>> /\ dropped' = FALSE
      /\ UNCHANGED <<bus, events, host, runScreen, ownRun, runModel, lastRun>>
  BY DEF ScreenRunInit, OpenStream, Quiet, hostVars, screenVars
<1>3. bus \in Nat /\ Absent \notin Nat
  BY <1>1 DEF StreamTypes, RunConstants
<1>4. StreamTypes'
  <2>1. \A k \in 1 .. Len(pipe') : FALSE
    BY <1>2
  <2>2. pipe' \in Seq(Nat)
    BY <1>2
  <2> QED BY <1>1, <1>2, <2>1, <2>2 DEF StreamTypes
<1>5. StreamInv'
  BY <1>2, <1>3 DEF StreamInv
<1>6. ScreenInv'
  BY <1>1, <1>2 DEF ScreenInv, StreamInv
<1>7. \A seen : PageReads(seen)'
  BY <1>2, <1>3 DEF PageReads
<1>8. PICK seen : Tells(seen, events, host)
  BY <1>1 DEF LogInv
<1>9. LogInv'
  BY <1>1, <1>2, <1>7, <1>8 DEF LogInv
<1> QED BY <1>4, <1>5, <1>6, <1>9 DEF RunInv

\* A window that is loaded again knows of no run, until it takes one up.
LEMMA LoadKeeps == ASSUME RunConstants, RunInv, Reload \/ ShellInit PROVE RunInv'
<1>1. StreamTypes /\ StreamInv /\ ScreenInv /\ LogInv
  BY DEF RunInv
<1>2. bus \in Nat /\ Absent \notin Nat /\ host \in Hosts /\ host.id \in Nat
  BY <1>1 DEF StreamTypes, RunConstants, LogInv, Hosts
<1>3. PICK seen : Tells(seen, events, host)
  BY <1>1 DEF LogInv
<1>4. CASE Reload
  <2>1. /\ source' = "none" /\ lastSeq' = 0 /\ busId' = Absent /\ cut' = cut
        /\ greeting' = Absent /\ pipe' = <<>> /\ dropped' = FALSE /\ runScreen' = "loading"
        /\ UNCHANGED <<bus, events, host>>
    BY <1>4 DEF Reload, CloseStream, Quiet, hostVars
  <2>2. StreamTypes'
    <3>1. \A k \in 1 .. Len(pipe') : FALSE
      BY <2>1
    <3>2. pipe' \in Seq(Nat)
      BY <2>1
    <3> QED BY <1>1, <2>1, <3>1, <3>2 DEF StreamTypes
  <2>3. StreamInv'
    BY <1>2, <2>1 DEF StreamInv
  <2>4. ScreenInv'
    BY <2>1 DEF ScreenInv
  <2>5. PageReads(seen)'
    BY <2>1 DEF PageReads
  <2>6. LogInv'
    BY <1>2, <1>3, <2>1, <2>5 DEF LogInv
  <2> QED BY <2>2, <2>3, <2>4, <2>6 DEF RunInv
<1>5. CASE ShellInit
  <2>1. /\ runScreen = "loading"
        /\ UNCHANGED <<bus, events, host, source, greeting, pipe, dropped, lastSeq, busId, cut>>
    BY <1>5 DEF ShellInit, hostVars, streamVars
  <2>2. source = "none" /\ busId = Absent
    BY <1>1, <2>1 DEF StreamInv
  <2>3. \/ runScreen' = "run" /\ ownRun' = host.id /\ runModel' = Create(host.id)
        \/ runScreen' = "start"
    BY <1>5 DEF ShellInit, ShowRun
  <2>4. StreamTypes'
    BY <1>1, <2>1 DEF StreamTypes
  <2>5. StreamInv'
    BY <1>1, <1>2, <2>1, <2>2 DEF StreamInv
  <2>6. Create(host.id) \in RunModels /\ Create(host.id).run = host.id /\ ~Create(host.id).finished
    BY <1>2, CreateIsAModel DEF Create
  <2>7. ScreenInv'
    <3> HIDE DEF RunModels
    <3> QED BY <1>2, <2>1, <2>3, <2>6 DEF ScreenInv
  <2>8. PageReads(seen)'
    BY <1>2, <2>1, <2>2 DEF PageReads
  <2>9. LogInv'
    BY <1>2, <1>3, <2>1, <2>8 DEF LogInv
  <2> QED BY <2>4, <2>5, <2>7, <2>9 DEF RunInv
<1> QED BY <1>4, <1>5

\* Every step keeps the invariant.
LEMMA RunNextKeeps == ASSUME RunConstants, RunInv, [Next]_installVars PROVE RunInv'
<1>1. CASE UNCHANGED installVars
  <2>1. UNCHANGED <<bus, events, host, source, greeting, pipe, dropped, lastSeq, busId, cut, runScreen, ownRun,
                    runModel, lastRun>>
    BY <1>1 DEF installVars, hostVars, streamVars, screenVars
  <2>2. StreamTypes' /\ StreamInv' /\ ScreenInv'
    BY <2>1 DEF RunInv, StreamTypes, StreamInv, ScreenInv
  <2>3. PICK seen : Tells(seen, events, host) /\ PageReads(seen)
    BY DEF RunInv, LogInv
  <2>4. PageReads(seen)'
    BY <2>1, <2>3 DEF PageReads
  <2>5. LogInv'
    BY <2>1, <2>3, <2>4 DEF LogInv, RunInv
  <2> QED BY <2>2, <2>5 DEF RunInv
<1>2. CASE Next
  BY <1>2, HostKeeps, OtherRunKeeps, RestartKeeps, ConnectKeeps, BreakKeeps, HelloKeeps, EventKeeps, StartRunKeeps,
     OpenKeeps, LoadKeeps DEF Next
<1> QED BY <1>1, <1>2

\* The result shown of a run that was started or taken up here is the host's, step by step: whatever broke, was
\* repeated or restarted in between, unless a backlog was cut.
THEOREM ResultIsOwnProof == ASSUME RunConstants PROVE Spec => []ResultIsOwn
<1>1. Init => RunInv
  BY RunInitHolds
<1>2. RunInv /\ [Next]_installVars => RunInv'
  BY RunNextKeeps
<1>3. RunInv => ResultIsOwn
  <2> SUFFICES ASSUME RunInv, runScreen = "result", ~cut, host.id = lastRun.run, host.came # "nothing"
               PROVE  lastRun = [run |-> host.id, ok |-> host.came = "ok", steps |-> host.states,
                                 failedStep |-> FailedStep, login |-> host.login]
    BY DEF ResultIsOwn
  <2>1. lastRun = Ended(host)
    BY DEF RunInv, ScreenInv
  <2>2. FailedStep = Failing(host.states)
    BY DEF FailedStep, Failed, Failing
  <2> QED BY <2>1, <2>2 DEF Ended
<1> QED BY <1>1, <1>2, <1>3, PTL DEF Spec
==============================================================================
