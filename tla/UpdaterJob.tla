------------------------------ MODULE UpdaterJob ------------------------------
(***************************************************************************)
(* The redeploy of a node by itself.  The dashboard stages a job in a        *)
(* directory (updaterjob.Stage) and follows its log and status               *)
(* (updaterhost.tailJobLog); the updater, a root oneshot unit that a path    *)
(* unit starts while pending.json exists, claims the job, runs its steps and *)
(* writes the status (energy-node-updater.sh).  Each action is one operation *)
(* on a file, so the two processes interleave between any two of them, and    *)
(* either may be stopped or killed there.                                     *)
(*                                                                           *)
(* A run of the dashboard, the job it stages and the bundle it copies have    *)
(* the same number.  A log is its finished lines; a status file is the result *)
(* in it, or "half" between its creation and the end of its only write.       *)
(***************************************************************************)
EXTENDS Naturals, Sequences

CONSTANTS None,
          MaxJobs,        \* bound: runs started
          StepsPerJob,    \* steps in a job
          MaxPolls,       \* maxTailDuration in polls
          MaxFaults,      \* bound: faults of all kinds together
          Faults,         \* the faults that happen: a set of FaultKinds
          ExitIsPrompt    \* an updater whose status can be seen is gone before a bundle is copied

FaultKinds == {"restart", "stop", "kill", "write_error"}

ASSUME BoundsAssumption ==
  /\ MaxJobs \in Nat \ {0}
  /\ StepsPerJob \in Nat \ {0}
  /\ MaxPolls \in Nat \ {0}
  /\ MaxFaults \in Nat
  /\ Faults \subseteq FaultKinds
  /\ ExitIsPrompt \in BOOLEAN

Jobs == 1 .. MaxJobs

ASSUME NoneAssumption ==
  /\ None \notin Jobs
  /\ None \notin {"half", "ok", "fail", "rejected", "interrupted", "lost"}

VARIABLES
  \* The job directory.
  bundle,      \* the job whose bundle lies there whole; None: missing or partial
  pending,     \* the job in pending.json
  current,     \* the job in current.json
  log,         \* the lines of log
  status,      \* None, "half", or the result in status.json
  \* The dashboard: one goroutine follows one run at a time.
  dash,        \* where that goroutine is
  run,         \* runState: the run it works for, None: not running
  resumed,     \* the run was taken up after a restart; its cancel does nothing
  cancelled,   \* the context of the run is cancelled
  offset,      \* tailJobLog: lines read so far
  polls,       \* tailJobLog: time since it started, in polls
  \* The updater.
  upd,         \* where the script is, "off": the unit is inactive
  runBundle,   \* the bundle in the root-only directory
  steps,       \* steps that ended well
  outcome,     \* the result it is about to write
  \* History variables and bounds, read by properties and bounds only.
  jobs,        \* runs started
  faults,      \* faults so far
  result,      \* how each job ended: the first status created for it, or "lost"
  reported     \* what run-finished said of each run

directory == <<bundle, pending, current, log, status>>
dashboard == <<dash, run, resumed, cancelled, offset, polls>>
updater == <<upd, runBundle, steps, outcome>>
vars == <<directory, dashboard, updater, jobs, faults, result, reported>>

Pending == pending # None
InFlight == current # None /\ status = None

Results == {"ok", "fail", "rejected", "interrupted"}
Ends == Results \cup {"lost"}
Reports == Results \cup {"staging_failed", "backend_error", "timeout", "cancelled"}
Lines == {"ok", "fail", "reject", "interrupted"}
Staging == {"check", "remove", "copy", "log", "status", "activate"}
Tailing == {"read_log", "read_status", "wait"}
\* The trap is installed and no status is written by it yet.
Trapped == {"claim", "verify", "steps", "create", "write", "exit"}

Init ==
  /\ bundle = None /\ pending = None /\ current = None /\ log = <<>> /\ status = None
  /\ dash = "idle" /\ run = None /\ resumed = FALSE /\ cancelled = FALSE
  /\ offset = 0 /\ polls = 0
  /\ upd = "off" /\ runBundle = None /\ steps = 0 /\ outcome = None
  /\ jobs = 0 /\ faults = 0
  /\ result = [j \in Jobs |-> None]
  /\ reported = [j \in Jobs |-> None]

Fault(kind) ==
  /\ kind \in Faults
  /\ faults < MaxFaults
  /\ faults' = faults + 1

-------------------------------------------------------------------------------
(* The dashboard starts a run and stages its job.                           *)

StartRun ==
  /\ run = None
  /\ jobs < MaxJobs
  /\ jobs' = jobs + 1
  /\ run' = jobs + 1
  /\ dash' = "check"
  /\ resumed' = FALSE
  /\ cancelled' = FALSE
  /\ UNCHANGED <<directory, offset, polls, updater, faults, result, reported>>

\* Mutant: the goroutine ends, its run stays.
MutFinish(report) ==
  /\ reported' = [reported EXCEPT ![run] = report]
  /\ dash' = "idle"
  /\ UNCHANGED <<run, resumed, cancelled, offset, polls>>

\* The end of Backend.Run or TailInFlight: run-finished, then running = false.
Finish(report) ==
  /\ reported' = [reported EXCEPT ![run] = report]
  /\ run' = None
  /\ dash' = "idle"
  /\ UNCHANGED <<resumed, cancelled, offset, polls>>

Goto(place) ==
  /\ dash' = place
  /\ UNCHANGED <<run, resumed, cancelled, offset, polls, reported>>

\* Mutant: only a claimed job counts.
MutBusyInFlight == InFlight

\* Mutant: only a waiting job counts.
MutBusyPending == Pending

Busy == Pending \/ InFlight

\* A candidate or a selection that cannot be read ends the run as a busy directory does.
CheckDirectory ==
  /\ dash = "check"
  /\ Finish("staging_failed") \/ (~Busy /\ Goto("remove"))
  /\ UNCHANGED <<directory, updater, jobs, faults, result>>

RemoveBundle ==
  /\ dash = "remove"
  /\ bundle' = None
  /\ Goto("copy")
  /\ UNCHANGED <<pending, current, log, status, updater, jobs, faults, result>>

CopyBundle ==
  /\ dash = "copy"
  /\ bundle' = run
  /\ Goto("log")
  /\ UNCHANGED <<pending, current, log, status, updater, jobs, faults, result>>

\* Mutant: the old log stays.
MutResetLog ==
  /\ dash = "log"
  /\ Goto("status")
  /\ UNCHANGED <<directory, updater, jobs, faults, result>>

ResetLog ==
  /\ dash = "log"
  /\ log' = <<>>
  /\ Goto("status")
  /\ UNCHANGED <<bundle, pending, current, status, updater, jobs, faults, result>>

\* Mutant: the old status stays.
MutClearStatus ==
  /\ dash = "status"
  /\ Goto("activate")
  /\ UNCHANGED <<directory, updater, jobs, faults, result>>

ClearStatus ==
  /\ dash = "status"
  /\ ExitIsPrompt => upd \notin {"write", "exit"}
  /\ status' = None
  /\ Goto("activate")
  /\ UNCHANGED <<bundle, pending, current, log, updater, jobs, faults, result>>

\* The temporary file and its rename: the job is visible from here on.
Activate ==
  /\ dash = "activate"
  /\ pending' = run
  /\ dash' = "read_log"
  /\ offset' = 0
  /\ polls' = 0
  /\ UNCHANGED <<bundle, current, log, status, run, resumed, cancelled, updater,
                 jobs, faults, result, reported>>

\* Removing, copying, resetting the log and writing pending.json may fail; what they
\* changed stays.  An error of removing status.json is ignored by the code.
StageFails ==
  /\ dash \in {"remove", "copy", "log", "activate"}
  /\ Fault("write_error")
  /\ bundle' = IF dash = "remove" THEN None ELSE bundle
  /\ Finish("staging_failed")
  /\ UNCHANGED <<pending, current, log, status, updater, jobs, result>>

-------------------------------------------------------------------------------
(* The dashboard follows the job.                                           *)

ReadLog ==
  /\ dash = "read_log"
  /\ offset' = IF Len(log) > offset THEN Len(log) ELSE offset
  /\ dash' = "read_status"
  /\ UNCHANGED <<directory, run, resumed, cancelled, polls, updater, jobs, faults,
                 result, reported>>

ReadStatus ==
  /\ dash = "read_status"
  /\ \/ status = None /\ Goto("wait")
     \/ status = "half" /\ Finish("backend_error")
     \/ status \in Results /\ Finish(status)
  /\ UNCHANGED <<directory, updater, jobs, faults, result>>

\* Mutant: nothing bounds the wait.
MutTimeOut == FALSE

TimeOut == polls = MaxPolls

\* The time is checked first, then whichever of cancellation and ticker is ready.
Wait ==
  /\ dash = "wait"
  /\ \/ TimeOut /\ Finish("timeout")
     \/ ~TimeOut /\ cancelled /\ Finish("cancelled")
     \/ /\ ~TimeOut
        /\ dash' = "read_log"
        /\ polls' = IF polls < MaxPolls THEN polls + 1 ELSE polls
        /\ UNCHANGED <<run, resumed, cancelled, offset, reported>>
  /\ UNCHANGED <<directory, updater, jobs, faults, result>>

CancelRun ==
  /\ run # None
  /\ ~resumed
  /\ ~cancelled
  /\ cancelled' = TRUE
  /\ UNCHANGED <<directory, dash, run, resumed, offset, polls, updater, jobs, faults,
                 result, reported>>

\* The process is replaced, by step 60 or by anything else.  The new one takes up the
\* job in current.json if it is in flight, under the run id found there.
RestartDashboard ==
  /\ Fault("restart")
  /\ run' = IF InFlight THEN current ELSE None
  /\ dash' = IF InFlight THEN "resume" ELSE "idle"
  /\ resumed' = InFlight
  /\ cancelled' = FALSE
  /\ UNCHANGED <<directory, offset, polls, updater, jobs, result, reported>>

\* TailInFlight looks at the directory again.
TailInFlight ==
  /\ dash = "resume"
  /\ \/ /\ InFlight
        /\ dash' = "read_log"
        /\ offset' = 0
        /\ polls' = 0
        /\ UNCHANGED <<run, resumed, cancelled, reported>>
     \/ ~InFlight /\ Finish("backend_error")
  /\ UNCHANGED <<directory, updater, jobs, faults, result>>

-------------------------------------------------------------------------------
(* The updater.                                                             *)

\* The path unit starts the service, which moves pending.json to current.json.
ClaimJob ==
  /\ upd = "off"
  /\ Pending
  /\ current' = pending
  /\ pending' = None
  /\ upd' = "truncate"
  /\ runBundle' = None
  /\ steps' = 0
  /\ outcome' = None
  /\ UNCHANGED <<bundle, log, status, dashboard, jobs, faults, result, reported>>

TruncateLog ==
  /\ upd = "truncate"
  /\ log' = <<>>
  /\ upd' = "unlink"
  /\ UNCHANGED <<bundle, pending, current, status, dashboard, runBundle, steps, outcome,
                 jobs, faults, result, reported>>

\* The old status goes and the trap is installed.
RemoveStatus ==
  /\ upd = "unlink"
  /\ status' = None
  /\ upd' = "claim"
  /\ UNCHANGED <<bundle, pending, current, log, dashboard, runBundle, steps, outcome,
                 jobs, faults, result, reported>>

Conclude(r) ==
  /\ outcome' = r
  /\ upd' = "create"

\* Moving the bundle out of reach, or BUNDLE_CLAIM_FAILED.
ClaimBundle ==
  /\ upd = "claim"
  /\ \/ /\ runBundle' = bundle
        /\ bundle' = None
        /\ upd' = "verify"
        /\ UNCHANGED outcome
     \/ Conclude("fail") /\ UNCHANGED <<bundle, runBundle>>
  /\ UNCHANGED <<pending, current, log, status, dashboard, steps, jobs, faults, result,
                 reported>>

\* Signature and hashes, then manifest, target and step list; a bundle that is not
\* whole never passes.
VerifyBundle ==
  /\ upd = "verify"
  /\ \/ Conclude("rejected") /\ log' = Append(log, "reject")
     \/ runBundle # None /\ Conclude("fail") /\ log' \in {log, Append(log, "fail")}
     \/ runBundle # None /\ upd' = "steps" /\ UNCHANGED <<log, outcome>>
  /\ UNCHANGED <<bundle, pending, current, status, dashboard, runBundle, steps, jobs,
                 faults, result, reported>>

\* A step ends well or fails, with a marker or without one; after the last one the installed
\* manifest and the changelog are recorded, where errors are only logged.
RunSteps ==
  /\ upd = "steps"
  /\ \/ /\ steps < StepsPerJob
        /\ steps' = steps + 1
        /\ log' = Append(log, "ok")
        /\ UNCHANGED <<upd, outcome>>
     \/ /\ steps < StepsPerJob
        /\ log' \in {log, Append(log, "fail")}
        /\ Conclude("fail")
        /\ UNCHANGED steps
     \/ /\ steps = StepsPerJob
        /\ Conclude("ok")
        /\ UNCHANGED <<log, steps>>
  /\ UNCHANGED <<bundle, pending, current, status, dashboard, runBundle, jobs, faults,
                 result, reported>>

EndJob(j, r) == result' = [result EXCEPT ![j] = IF @ = None THEN r ELSE @]

\* write_status opens the file ...
CreateStatus ==
  /\ upd = "create"
  /\ status' = "half"
  /\ upd' = "write"
  /\ EndJob(current, outcome)
  /\ UNCHANGED <<bundle, pending, current, log, dashboard, runBundle, steps, outcome,
                 jobs, faults, reported>>

\* ... and writes it when it closes it; if the file has been removed meanwhile, nobody
\* sees that.
WriteStatus ==
  /\ upd = "write"
  /\ status' = IF status = "half" THEN outcome ELSE status
  /\ upd' = IF outcome = "interrupted" THEN "off" ELSE "exit"
  /\ UNCHANGED <<bundle, pending, current, log, dashboard, runBundle, steps, outcome,
                 jobs, faults, result, reported>>

\* The trap: without a status the job was interrupted.
Exit ==
  /\ upd = "exit"
  /\ IF status = None
     THEN /\ log' = Append(log, "interrupted")
          /\ Conclude("interrupted")
     ELSE /\ upd' = "off"
          /\ UNCHANGED <<log, outcome>>
  /\ UNCHANGED <<bundle, pending, current, status, dashboard, runBundle, steps, jobs,
                 faults, result, reported>>

\* Mutant: no trap.
MutTrapPlace == "off"

TrapPlace == "exit"

\* SIGTERM after the trap is installed.
StopUpdater ==
  /\ Fault("stop")
  /\ upd \in Trapped
  /\ outcome # "interrupted"
  /\ upd' = TrapPlace
  /\ UNCHANGED <<directory, dashboard, runBundle, steps, outcome, jobs, result, reported>>

\* A power cut, SIGKILL, or any signal before the trap is installed.
KillUpdater ==
  /\ Fault("kill")
  /\ upd # "off"
  /\ upd' = "off"
  /\ EndJob(current, "lost")
  /\ UNCHANGED <<directory, dashboard, runBundle, steps, outcome, jobs, reported>>

-------------------------------------------------------------------------------
Stage ==
  \/ CheckDirectory \/ RemoveBundle \/ CopyBundle \/ ResetLog \/ ClearStatus \/ Activate

Follow == ReadLog \/ ReadStatus \/ Wait \/ TailInFlight

Update ==
  \/ ClaimJob \/ TruncateLog \/ RemoveStatus \/ ClaimBundle \/ VerifyBundle \/ RunSteps
  \/ CreateStatus \/ WriteStatus \/ Exit

Next ==
  \/ StartRun \/ Stage \/ StageFails \/ Follow \/ CancelRun \/ RestartDashboard
  \/ Update \/ StopUpdater \/ KillUpdater

\* Both processes go on; nothing makes anybody start a run, cancel it, or fail.
Spec == Init /\ [][Next]_vars /\ WF_vars(Stage \/ Follow) /\ WF_vars(Update)

-------------------------------------------------------------------------------
(* Properties.                                                              *)

DirectoryTypes ==
  /\ bundle \in Jobs \cup {None}
  /\ pending \in Jobs \cup {None}
  /\ current \in Jobs \cup {None}
  /\ log \in Seq(Lines)
  /\ status \in Results \cup {None, "half"}

DashboardTypes ==
  /\ dash \in Staging \cup Tailing \cup {"idle", "resume"}
  /\ run \in Jobs \cup {None}
  /\ dash = "idle" <=> run = None
  /\ resumed \in BOOLEAN
  /\ cancelled \in BOOLEAN
  /\ offset \in Nat
  /\ polls \in 0 .. MaxPolls

UpdaterTypes ==
  /\ upd \in Trapped \cup {"off", "truncate", "unlink"}
  /\ upd # "off" => current # None
  /\ runBundle \in Jobs \cup {None}
  /\ steps \in 0 .. StepsPerJob
  /\ outcome \in Results \cup {None}

HistoryTypes ==
  /\ jobs \in 0 .. MaxJobs
  /\ faults \in 0 .. MaxFaults
  /\ result \in [Jobs -> Ends \cup {None}]
  /\ reported \in [Jobs -> Reports \cup {None}]

\* Every file, place and history variable has a value of its kind; the dashboard is idle
\* exactly when no run is, and an updater that works has a job.
TypeOK == DirectoryTypes /\ DashboardTypes /\ UpdaterTypes /\ HistoryTypes

\* The job an updater works on: claimed, without an end.
Claimed == IF current # None /\ result[current] = None THEN current ELSE None

\* One job at a time, whoever stops or restarts: staged only while none waits or is
\* worked on, claimed once, ended once (Stage and InFlight in job.go).
Lifecycle == INSTANCE JobLifecycle WITH claimed <- Claimed, Results <- Ends

\* The directory and its two processes implement that lifecycle.
JobLifecycleSpec == Lifecycle!Spec

\* The steps that run as root are those of the bundle that was staged with the job.
RunsItsOwnBundle == upd = "steps" => runBundle = current

\* A run is said to have ended as its own job ended, never as an earlier one did whose
\* status still lay there; a run taken up after a restart reports the job in current.json.
ReportIsOwnResult ==
  [][\A j \in Jobs :
       reported'[j] # reported[j] /\ reported'[j] \in Results
         => reported'[j] = result[IF resumed THEN current ELSE j]]_vars

\* No line of the log is skipped: what was read is still there when more is read, so the
\* log never shrinks under a run that follows it (tailJobLog keeps an offset).
NoLineSkipped == dash \in Tailing => offset <= Len(log)

\* A job that is staged ends, also when the updater or the dashboard is stopped, and is
\* lost only when the updater is killed without its trap.
JobEnds == \A j \in Jobs : (pending = j) ~> (result[j] # None)

\* Every run ends, also one whose job is lost or never comes (maxTailDuration).
RunEnds == (run # None) ~> (run = None)

\* job.go:160 says: "InFlight is true exactly when the updater has claimed a job [...]
\* but has not yet finished it".  Asked when nobody stages and no job waits: Stage then
\* refuses every job, and no updater will ever write the status it waits for.
InFlightMeansClaimed == InFlight /\ ~Pending /\ dash \notin Staging => upd # "off"
===============================================================================
