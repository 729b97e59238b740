---------------------------- MODULE InterfaceProofs ----------------------------
(***************************************************************************)
(* What is proved about the dashboard and the installer.                   *)
(*                                                                         *)
(* First the job directory of the updater: its safety for any number of    *)
(* jobs, steps, polls and faults of every kind, as long as an updater whose *)
(* status can be seen is gone before the next bundle is copied             *)
(* (ExitIsPrompt).                                                         *)
(*                                                                         *)
(* Then the pages, each an instance of its module under a name of its own: *)
(* of the dashboard the dialog of a device, users, the running values of   *)
(* the automations, their document and a draft of one, the tiles, the      *)
(* frame, the cells and the layout; of the installer the selection of      *)
(* steps, the first settings, the preparation and the live log.  They      *)
(* share no state: a name that two of them have (flights, shown, server,   *)
(* First) is declared with the first of them and stands for whichever is   *)
(* meant.  What a theorem needs of the constants of its page is its        *)
(* hypothesis.                                                             *)
(***************************************************************************)
EXTENDS UpdaterJob, FiniteSets, FiniteSetTheorems, SequenceTheorems, TLAPS

CONSTANT Absent  \* no value, on every page

(***************************************************************************)
(* The inductive invariant.                                                 *)
(***************************************************************************)

\* Where the updater is between claiming a job and creating its status.
Working == {"truncate", "unlink", "claim", "verify", "steps", "create"}

\* Past its check, Stage has the directory to itself; an updater may at most be about
\* to leave.
StagesAlone ==
  /\ dash \in Staging \ {"check"} =>
       /\ pending = None
       /\ upd # "off" => upd \in {"write", "exit"} /\ status # None /\ dash # "activate"
  /\ dash \in {"log", "status", "activate"} => bundle = run
  /\ dash \in {"status", "activate"} => log = <<>>
  /\ dash = "activate" => status = None

\* A job that waits is whole, and nobody works on another one.
WaitsWhole ==
  pending # None =>
    /\ upd = "off"
    /\ status = None
    /\ bundle = pending
    /\ log = <<>>
    /\ pending # current
    /\ result[pending] = None

\* What the updater finds at each place of its script.
WorksOnItsOwn ==
  /\ upd \in Working => status = None
  /\ upd \in {"truncate", "unlink", "claim"} => bundle = current
  /\ upd = "truncate" => log = <<>>
  /\ upd \in {"verify", "steps"} => runBundle = current
  /\ upd \in {"create", "write"} => outcome \in Results
  /\ upd = "write" => status # None

\* A job has an end exactly when nobody will give it one any more, and the status
\* file says which.
EndsAreKept ==
  /\ \A j \in Jobs : j > jobs => result[j] = None
  /\ \A j \in {pending, current, run} : j # None => j <= jobs
  /\ dash \in Staging => run \notin {pending, current} /\ result[run] = None
  /\ upd \in Working => result[current] = None
  /\ upd = "exit" /\ status = None => result[current] = None
  /\ upd = "off" /\ current # None => result[current] # None
  /\ status # None => current # None /\ result[current] # None
  /\ status \in Results => result[current] = status
  /\ upd = "write" => outcome = result[current]

\* What a run that follows a job looks at is its own job.
FollowsItsOwn ==
  /\ dash \in Tailing => offset <= Len(log)
  /\ dash \in Tailing /\ ~resumed => run = IF pending # None THEN pending ELSE current
  /\ dash = "resume" => resumed

IInv == TypeOK /\ StagesAlone /\ WaitsWhole /\ WorksOnItsOwn /\ EndsAreKept /\ FollowsItsOwn

(***************************************************************************)
(* IInv holds at first and is kept by every step.                           *)
(***************************************************************************)

\* The empty log is a log.
LEMMA EmptyLog ==
  <<>> \in Seq(Lines) /\ Len(<<>>) = 0
OBVIOUS

\* A line appended makes the log one longer.
LEMMA LogGrows ==
  ASSUME NEW l \in Seq(Lines), NEW x \in Lines
  PROVE  Append(l, x) \in Seq(Lines) /\ Len(l) \in Nat /\ Len(Append(l, x)) = Len(l) + 1
OBVIOUS

\* The invariant holds at first.
LEMMA InitHolds ==
  Init => IInv
<1> SUFFICES ASSUME Init PROVE IInv
  OBVIOUS
<1> USE BoundsAssumption, NoneAssumption DEF Init
<1>1. DirectoryTypes
  BY EmptyLog DEF DirectoryTypes
<1>2. DashboardTypes
  <2>1. dash \in Staging \cup Tailing \cup {"idle", "resume"}
    OBVIOUS
  <2>2. resumed \in BOOLEAN /\ cancelled \in BOOLEAN
    OBVIOUS
  <2>3. offset \in Nat /\ polls \in 0 .. MaxPolls
    OBVIOUS
  <2> QED
    BY <2>1, <2>2, <2>3 DEF DashboardTypes
<1>6. UpdaterTypes
  BY DEF UpdaterTypes, Trapped
<1>3. HistoryTypes
  BY DEF HistoryTypes
<1>4. StagesAlone /\ WaitsWhole /\ WorksOnItsOwn /\ FollowsItsOwn
  BY DEF StagesAlone, WaitsWhole, WorksOnItsOwn, FollowsItsOwn, Staging, Tailing, Working
<1>5. EndsAreKept
  BY DEF EndsAreKept, Staging, Results, Working
<1> QED
  BY <1>1, <1>2, <1>3, <1>4, <1>5, <1>6 DEF IInv, TypeOK

\* Every step of dashboard, updater or fault keeps the invariant.
LEMMA StepKeeps ==
  ASSUME ExitIsPrompt, IInv, [Next]_vars PROVE IInv'
<1> USE BoundsAssumption, NoneAssumption DEF IInv, Jobs, Results, Ends, Reports, Staging,
     Tailing, Trapped, Working, directory, dashboard, updater
<1>1. CASE StartRun
  <2>1. jobs + 1 \in Jobs
    BY <1>1 DEF StartRun, TypeOK, HistoryTypes
  <2>2. TypeOK'
    <3>1. DirectoryTypes' /\ UpdaterTypes'
      BY <1>1 DEF StartRun, TypeOK, DirectoryTypes, UpdaterTypes
    <3>2. DashboardTypes'
      BY <1>1, <2>1 DEF StartRun, TypeOK, DashboardTypes
    <3>3. HistoryTypes'
      BY <1>1, <2>1 DEF StartRun, TypeOK, HistoryTypes
    <3> QED
      BY <3>1, <3>2, <3>3 DEF TypeOK
  <2>3. EndsAreKept'
    BY <1>1, <2>1 DEF StartRun, TypeOK, DirectoryTypes, HistoryTypes, EndsAreKept
  <2>4. StagesAlone' /\ WaitsWhole' /\ WorksOnItsOwn' /\ FollowsItsOwn'
    BY <1>1 DEF StartRun, TypeOK, StagesAlone, WaitsWhole, WorksOnItsOwn, FollowsItsOwn
  <2> QED
    BY <2>1, <2>2, <2>3, <2>4
<1>2. CASE CheckDirectory
  <2>1. DirectoryTypes' /\ DashboardTypes'
    BY <1>2 DEF CheckDirectory, Busy, Pending, InFlight, Finish, Goto, TypeOK,
         DirectoryTypes, DashboardTypes
  <2>2. UpdaterTypes' /\ HistoryTypes'
    BY <1>2 DEF CheckDirectory, Busy, Pending, InFlight, Finish, Goto, TypeOK,
         UpdaterTypes, HistoryTypes
  <2>3. StagesAlone' /\ WaitsWhole' /\ WorksOnItsOwn'
    BY <1>2 DEF CheckDirectory, Busy, Pending, InFlight, Finish, Goto, TypeOK,
         UpdaterTypes, StagesAlone, WaitsWhole, WorksOnItsOwn
  <2>4. EndsAreKept'
    BY <1>2 DEF CheckDirectory, Busy, Pending, InFlight, Finish, Goto, TypeOK, EndsAreKept
  <2>5. FollowsItsOwn'
    BY <1>2 DEF CheckDirectory, Busy, Pending, InFlight, Finish, Goto, TypeOK, FollowsItsOwn
  <2> QED
    BY <2>1, <2>2, <2>3, <2>4, <2>5 DEF TypeOK
<1>3. CASE RemoveBundle
  <2>1. DirectoryTypes' /\ DashboardTypes'
    BY <1>3 DEF RemoveBundle, Goto, TypeOK, DirectoryTypes, DashboardTypes
  <2>2. UpdaterTypes' /\ HistoryTypes'
    BY <1>3 DEF RemoveBundle, Goto, TypeOK, UpdaterTypes, HistoryTypes
  <2>3. StagesAlone' /\ WaitsWhole' /\ WorksOnItsOwn'
    BY <1>3 DEF RemoveBundle, Goto, TypeOK, StagesAlone, WaitsWhole, WorksOnItsOwn
  <2>4. EndsAreKept'
    BY <1>3 DEF RemoveBundle, Goto, TypeOK, EndsAreKept
  <2>5. FollowsItsOwn'
    BY <1>3 DEF RemoveBundle, Goto, TypeOK, FollowsItsOwn
  <2> QED
    BY <2>1, <2>2, <2>3, <2>4, <2>5 DEF TypeOK
<1>4. CASE CopyBundle
  <2>1. DirectoryTypes' /\ DashboardTypes'
    BY <1>4 DEF CopyBundle, Goto, TypeOK, DirectoryTypes, DashboardTypes
  <2>2. UpdaterTypes' /\ HistoryTypes'
    BY <1>4 DEF CopyBundle, Goto, TypeOK, UpdaterTypes, HistoryTypes
  <2>3. StagesAlone' /\ WaitsWhole' /\ WorksOnItsOwn'
    BY <1>4 DEF CopyBundle, Goto, TypeOK, StagesAlone, WaitsWhole, WorksOnItsOwn
  <2>4. EndsAreKept'
    BY <1>4 DEF CopyBundle, Goto, TypeOK, EndsAreKept
  <2>5. FollowsItsOwn'
    BY <1>4 DEF CopyBundle, Goto, TypeOK, FollowsItsOwn
  <2> QED
    BY <2>1, <2>2, <2>3, <2>4, <2>5 DEF TypeOK
<1>5. CASE ResetLog
  <2>1. DirectoryTypes' /\ DashboardTypes'
    BY <1>5 DEF ResetLog, Goto, TypeOK, DirectoryTypes, DashboardTypes
  <2>2. UpdaterTypes' /\ HistoryTypes'
    BY <1>5 DEF ResetLog, Goto, TypeOK, UpdaterTypes, HistoryTypes
  <2>3. StagesAlone' /\ WaitsWhole' /\ WorksOnItsOwn'
    BY <1>5 DEF ResetLog, Goto, TypeOK, StagesAlone, WaitsWhole, WorksOnItsOwn
  <2>4. EndsAreKept'
    BY <1>5 DEF ResetLog, Goto, TypeOK, EndsAreKept
  <2>5. FollowsItsOwn'
    BY <1>5 DEF ResetLog, Goto, TypeOK, FollowsItsOwn
  <2> QED
    BY <2>1, <2>2, <2>3, <2>4, <2>5 DEF TypeOK
<1>6. CASE ClearStatus
  <2>1. DirectoryTypes' /\ DashboardTypes'
    BY <1>6 DEF ClearStatus, Goto, TypeOK, DirectoryTypes, DashboardTypes
  <2>2. UpdaterTypes' /\ HistoryTypes'
    BY <1>6 DEF ClearStatus, Goto, TypeOK, UpdaterTypes, HistoryTypes
  <2>3. StagesAlone' /\ WaitsWhole' /\ WorksOnItsOwn'
    BY <1>6 DEF ClearStatus, Goto, TypeOK, StagesAlone, WaitsWhole, WorksOnItsOwn
  <2>4. EndsAreKept'
    BY <1>6 DEF ClearStatus, Goto, TypeOK, EndsAreKept
  <2>5. FollowsItsOwn'
    BY <1>6 DEF ClearStatus, Goto, TypeOK, FollowsItsOwn
  <2> QED
    BY <2>1, <2>2, <2>3, <2>4, <2>5 DEF TypeOK
<1>7. CASE Activate
  <2>1. DirectoryTypes' /\ DashboardTypes'
    BY <1>7 DEF Activate, TypeOK, DirectoryTypes, DashboardTypes
  <2>2. UpdaterTypes' /\ HistoryTypes'
    BY <1>7 DEF Activate, TypeOK, UpdaterTypes, HistoryTypes
  <2>3. StagesAlone' /\ WaitsWhole' /\ WorksOnItsOwn'
    BY <1>7 DEF Activate, TypeOK, StagesAlone, WaitsWhole, WorksOnItsOwn, EndsAreKept
  <2>4. EndsAreKept'
    BY <1>7 DEF Activate, TypeOK, EndsAreKept
  <2>5. FollowsItsOwn'
    BY <1>7 DEF Activate, TypeOK, StagesAlone, EndsAreKept, FollowsItsOwn
  <2> QED
    BY <2>1, <2>2, <2>3, <2>4, <2>5 DEF TypeOK
<1>8. CASE StageFails
  <2>1. DirectoryTypes' /\ DashboardTypes'
    BY <1>8 DEF StageFails, Fault, Finish, TypeOK, DirectoryTypes, DashboardTypes
  <2>2. UpdaterTypes' /\ HistoryTypes'
    BY <1>8 DEF StageFails, Fault, Finish, TypeOK, DashboardTypes, UpdaterTypes,
         HistoryTypes
  <2>3. StagesAlone' /\ WaitsWhole' /\ WorksOnItsOwn'
    BY <1>8 DEF StageFails, Fault, Finish, TypeOK, StagesAlone, WaitsWhole, WorksOnItsOwn
  <2>4. EndsAreKept'
    BY <1>8 DEF StageFails, Fault, Finish, TypeOK, EndsAreKept
  <2>5. FollowsItsOwn'
    BY <1>8 DEF StageFails, Fault, Finish, TypeOK, FollowsItsOwn
  <2> QED
    BY <2>1, <2>2, <2>3, <2>4, <2>5 DEF TypeOK
<1>9. CASE ReadLog
  <2>1. DirectoryTypes' /\ DashboardTypes'
    BY <1>9 DEF ReadLog, TypeOK, DirectoryTypes, DashboardTypes
  <2>2. UpdaterTypes' /\ HistoryTypes'
    BY <1>9 DEF ReadLog, TypeOK, UpdaterTypes, HistoryTypes
  <2>3. StagesAlone' /\ WaitsWhole' /\ WorksOnItsOwn'
    BY <1>9 DEF ReadLog, TypeOK, StagesAlone, WaitsWhole, WorksOnItsOwn
  <2>4. EndsAreKept'
    BY <1>9 DEF ReadLog, TypeOK, EndsAreKept
  <2>5. FollowsItsOwn'
    BY <1>9 DEF ReadLog, TypeOK, FollowsItsOwn
  <2> QED
    BY <2>1, <2>2, <2>3, <2>4, <2>5 DEF TypeOK
<1>10. CASE ReadStatus
  <2>1. DirectoryTypes' /\ DashboardTypes'
    BY <1>10 DEF ReadStatus, Finish, Goto, TypeOK, DirectoryTypes, DashboardTypes
  <2>2. UpdaterTypes' /\ HistoryTypes'
    BY <1>10 DEF ReadStatus, Finish, Goto, TypeOK, UpdaterTypes, HistoryTypes
  <2>3. StagesAlone' /\ WaitsWhole' /\ WorksOnItsOwn'
    BY <1>10 DEF ReadStatus, Finish, Goto, TypeOK, StagesAlone, WaitsWhole, WorksOnItsOwn
  <2>4. EndsAreKept'
    BY <1>10 DEF ReadStatus, Finish, Goto, TypeOK, EndsAreKept
  <2>5. FollowsItsOwn'
    BY <1>10 DEF ReadStatus, Finish, Goto, TypeOK, FollowsItsOwn
  <2> QED
    BY <2>1, <2>2, <2>3, <2>4, <2>5 DEF TypeOK
<1>11. CASE Wait
  <2>1. TypeOK'
    <3>1. DirectoryTypes' /\ UpdaterTypes'
      BY <1>11 DEF Wait, TimeOut, Finish, TypeOK, DirectoryTypes, UpdaterTypes
    <3>2. DashboardTypes'
      BY <1>11 DEF Wait, TimeOut, Finish, TypeOK, DashboardTypes
    <3>3. HistoryTypes'
      BY <1>11 DEF Wait, TimeOut, Finish, TypeOK, HistoryTypes
    <3> QED
      BY <3>1, <3>2, <3>3 DEF TypeOK
  <2>2. StagesAlone' /\ WaitsWhole' /\ WorksOnItsOwn' /\ EndsAreKept' /\ FollowsItsOwn'
    BY <1>11 DEF Wait, Finish, TypeOK, StagesAlone, WaitsWhole, WorksOnItsOwn,
         EndsAreKept, FollowsItsOwn
  <2> QED
    BY <2>1, <2>2
<1>12. CASE CancelRun
  <2>1. DirectoryTypes' /\ DashboardTypes'
    BY <1>12 DEF CancelRun, TypeOK, DirectoryTypes, DashboardTypes
  <2>2. UpdaterTypes' /\ HistoryTypes'
    BY <1>12 DEF CancelRun, TypeOK, UpdaterTypes, HistoryTypes
  <2>3. StagesAlone' /\ WaitsWhole' /\ WorksOnItsOwn'
    BY <1>12 DEF CancelRun, TypeOK, StagesAlone, WaitsWhole, WorksOnItsOwn
  <2>4. EndsAreKept'
    BY <1>12 DEF CancelRun, TypeOK, EndsAreKept
  <2>5. FollowsItsOwn'
    BY <1>12 DEF CancelRun, TypeOK, FollowsItsOwn
  <2> QED
    BY <2>1, <2>2, <2>3, <2>4, <2>5 DEF TypeOK
<1>13. CASE RestartDashboard
  <2>1. TypeOK'
    <3>1. DirectoryTypes' /\ UpdaterTypes'
      BY <1>13 DEF RestartDashboard, Fault, InFlight, TypeOK, DirectoryTypes, UpdaterTypes
    <3>2. DashboardTypes'
      BY <1>13 DEF RestartDashboard, Fault, InFlight, TypeOK, DirectoryTypes, DashboardTypes
    <3>3. HistoryTypes'
      BY <1>13 DEF RestartDashboard, Fault, InFlight, TypeOK, HistoryTypes
    <3> QED
      BY <3>1, <3>2, <3>3 DEF TypeOK
  <2>2. EndsAreKept'
    BY <1>13 DEF RestartDashboard, InFlight, TypeOK, EndsAreKept
  <2>3. StagesAlone' /\ WaitsWhole' /\ WorksOnItsOwn' /\ FollowsItsOwn'
    BY <1>13 DEF RestartDashboard, TypeOK, StagesAlone, WaitsWhole, WorksOnItsOwn,
         FollowsItsOwn
  <2> QED
    BY <2>1, <2>2, <2>3
<1>14. CASE TailInFlight
  <2>1. TypeOK'
    BY <1>14 DEF TailInFlight, Finish, TypeOK, DirectoryTypes, DashboardTypes,
         UpdaterTypes, HistoryTypes
  <2>2. Len(log) \in Nat
    BY DEF TypeOK, DirectoryTypes
  <2>3. resumed' = TRUE \/ dash' = "idle"
    BY <1>14 DEF TailInFlight, Finish, TypeOK, DashboardTypes, FollowsItsOwn
  <2>4. offset' <= Len(log') \/ dash' = "idle"
    BY <1>14, <2>2 DEF TailInFlight, Finish
  <2>5. FollowsItsOwn'
    BY <1>14, <2>3, <2>4 DEF TailInFlight, Finish, FollowsItsOwn
  <2>6. EndsAreKept'
    BY <1>14 DEF TailInFlight, Finish, TypeOK, EndsAreKept
  <2>7. StagesAlone' /\ WaitsWhole' /\ WorksOnItsOwn'
    BY <1>14 DEF TailInFlight, Finish, TypeOK, StagesAlone, WaitsWhole, WorksOnItsOwn
  <2> QED
    BY <2>1, <2>2, <2>3, <2>4, <2>5, <2>6, <2>7
<1>15. CASE ClaimJob
  <2>1. upd = "off" /\ pending \in Jobs /\ dash \notin Staging \ {"check"}
    BY <1>15 DEF ClaimJob, Pending, TypeOK, DirectoryTypes, StagesAlone
  <2>2. TypeOK'
    BY <1>15, <2>1 DEF ClaimJob, TypeOK, DirectoryTypes, DashboardTypes, UpdaterTypes,
         HistoryTypes
  <2>3. EndsAreKept'
    BY <1>15, <2>1 DEF ClaimJob, TypeOK, DashboardTypes, WaitsWhole, EndsAreKept
  <2>4. FollowsItsOwn'
    BY <1>15, <2>1 DEF ClaimJob, WaitsWhole, DirectoryTypes, DashboardTypes, TypeOK,
         FollowsItsOwn
  <2>5. StagesAlone' /\ WaitsWhole' /\ WorksOnItsOwn'
    BY <1>15, <2>1 DEF ClaimJob, TypeOK, StagesAlone, WaitsWhole, WorksOnItsOwn
  <2> QED
    BY <2>1, <2>2, <2>3, <2>4, <2>5
<1>16. CASE TruncateLog
  <2>1. DirectoryTypes' /\ DashboardTypes'
    BY <1>16 DEF TruncateLog, TypeOK, DirectoryTypes, DashboardTypes
  <2>2. UpdaterTypes' /\ HistoryTypes'
    BY <1>16 DEF TruncateLog, TypeOK, UpdaterTypes, HistoryTypes
  <2>3. StagesAlone' /\ WaitsWhole' /\ WorksOnItsOwn'
    BY <1>16 DEF TruncateLog, TypeOK, StagesAlone, WaitsWhole, WorksOnItsOwn
  <2>4. EndsAreKept'
    BY <1>16 DEF TruncateLog, TypeOK, EndsAreKept
  <2>5. FollowsItsOwn'
    BY <1>16 DEF TruncateLog, TypeOK, WorksOnItsOwn, FollowsItsOwn
  <2> QED
    BY <2>1, <2>2, <2>3, <2>4, <2>5 DEF TypeOK
<1>17. CASE RemoveStatus
  <2>1. DirectoryTypes' /\ DashboardTypes'
    BY <1>17 DEF RemoveStatus, TypeOK, DirectoryTypes, DashboardTypes
  <2>2. UpdaterTypes' /\ HistoryTypes'
    BY <1>17 DEF RemoveStatus, TypeOK, UpdaterTypes, HistoryTypes
  <2>3. StagesAlone' /\ WaitsWhole' /\ WorksOnItsOwn'
    BY <1>17 DEF RemoveStatus, TypeOK, StagesAlone, WaitsWhole, WorksOnItsOwn
  <2>4. EndsAreKept'
    BY <1>17 DEF RemoveStatus, TypeOK, EndsAreKept
  <2>5. FollowsItsOwn'
    BY <1>17 DEF RemoveStatus, TypeOK, FollowsItsOwn
  <2> QED
    BY <2>1, <2>2, <2>3, <2>4, <2>5 DEF TypeOK
<1>18. CASE ClaimBundle
  <2>1. DirectoryTypes' /\ DashboardTypes'
    BY <1>18 DEF ClaimBundle, Conclude, TypeOK, DirectoryTypes, DashboardTypes
  <2>2. UpdaterTypes' /\ HistoryTypes'
    BY <1>18 DEF ClaimBundle, Conclude, TypeOK, DirectoryTypes, UpdaterTypes, HistoryTypes
  <2>3. StagesAlone' /\ WaitsWhole' /\ WorksOnItsOwn'
    BY <1>18 DEF ClaimBundle, Conclude, TypeOK, StagesAlone, WaitsWhole, WorksOnItsOwn
  <2>4. EndsAreKept'
    BY <1>18 DEF ClaimBundle, Conclude, TypeOK, EndsAreKept
  <2>5. FollowsItsOwn'
    BY <1>18 DEF ClaimBundle, Conclude, TypeOK, FollowsItsOwn
  <2> QED
    BY <2>1, <2>2, <2>3, <2>4, <2>5 DEF TypeOK
<1>19. CASE VerifyBundle
  <2>1. log' \in Seq(Lines) /\ Len(log) \in Nat /\ Len(log) <= Len(log')
    <3>1. log' = log \/ \E x \in Lines : log' = Append(log, x)
      BY <1>19 DEF VerifyBundle, Lines
    <3> QED
      BY <3>1, LogGrows DEF TypeOK, DirectoryTypes
  <2>2. TypeOK'
    BY <1>19, <2>1 DEF VerifyBundle, Conclude, TypeOK, DirectoryTypes, DashboardTypes,
         UpdaterTypes, HistoryTypes
  <2>3. FollowsItsOwn'
    BY <1>19, <2>1 DEF VerifyBundle, TypeOK, DashboardTypes, FollowsItsOwn
  <2>4. StagesAlone' /\ WaitsWhole'
    BY <1>19 DEF VerifyBundle, Conclude, TypeOK, StagesAlone, WaitsWhole
  <2>5. WorksOnItsOwn' /\ EndsAreKept'
    BY <1>19 DEF VerifyBundle, Conclude, TypeOK, WorksOnItsOwn, EndsAreKept
  <2> QED
    BY <2>1, <2>2, <2>3, <2>4, <2>5
<1>20. CASE RunSteps
  <2>1. log' \in Seq(Lines) /\ Len(log) \in Nat /\ Len(log) <= Len(log')
    <3>1. log' = log \/ \E x \in Lines : log' = Append(log, x)
      BY <1>20 DEF RunSteps, Lines
    <3> QED
      BY <3>1, LogGrows DEF TypeOK, DirectoryTypes
  <2>2. TypeOK'
    BY <1>20, <2>1 DEF RunSteps, Conclude, TypeOK, DirectoryTypes, DashboardTypes,
         UpdaterTypes, HistoryTypes
  <2>3. FollowsItsOwn'
    BY <1>20, <2>1 DEF RunSteps, TypeOK, DashboardTypes, FollowsItsOwn
  <2>4. StagesAlone' /\ WaitsWhole'
    BY <1>20 DEF RunSteps, Conclude, TypeOK, StagesAlone, WaitsWhole
  <2>5. WorksOnItsOwn' /\ EndsAreKept'
    BY <1>20 DEF RunSteps, Conclude, TypeOK, WorksOnItsOwn, EndsAreKept
  <2> QED
    BY <2>1, <2>2, <2>3, <2>4, <2>5
<1>21. CASE CreateStatus
  <2>1. DirectoryTypes' /\ DashboardTypes'
    BY <1>21 DEF CreateStatus, EndJob, TypeOK, DirectoryTypes, DashboardTypes
  <2>2. UpdaterTypes' /\ HistoryTypes'
    BY <1>21 DEF CreateStatus, EndJob, TypeOK, UpdaterTypes, HistoryTypes
  <2>3. StagesAlone' /\ WaitsWhole' /\ WorksOnItsOwn'
    BY <1>21 DEF CreateStatus, EndJob, TypeOK, StagesAlone, WaitsWhole, WorksOnItsOwn
  <2>4. EndsAreKept'
    BY <1>21 DEF CreateStatus, EndJob, TypeOK, DirectoryTypes, UpdaterTypes,
         HistoryTypes, WorksOnItsOwn, EndsAreKept
  <2>5. FollowsItsOwn'
    BY <1>21 DEF CreateStatus, EndJob, TypeOK, FollowsItsOwn
  <2> QED
    BY <2>1, <2>2, <2>3, <2>4, <2>5 DEF TypeOK
<1>22. CASE WriteStatus
  <2>1. DirectoryTypes' /\ DashboardTypes'
    BY <1>22 DEF WriteStatus, TypeOK, DirectoryTypes, DashboardTypes, UpdaterTypes
  <2>2. UpdaterTypes' /\ HistoryTypes'
    BY <1>22 DEF WriteStatus, TypeOK, UpdaterTypes, HistoryTypes
  <2>3. StagesAlone' /\ WaitsWhole' /\ WorksOnItsOwn'
    BY <1>22 DEF WriteStatus, TypeOK, StagesAlone, WaitsWhole, WorksOnItsOwn
  <2>4. EndsAreKept'
    BY <1>22 DEF WriteStatus, TypeOK, WorksOnItsOwn, EndsAreKept
  <2>5. FollowsItsOwn'
    BY <1>22 DEF WriteStatus, TypeOK, FollowsItsOwn
  <2> QED
    BY <2>1, <2>2, <2>3, <2>4, <2>5 DEF TypeOK
<1>23. CASE Exit
  <2>1. log' \in Seq(Lines) /\ Len(log) \in Nat /\ Len(log) <= Len(log')
    <3>1. log' = log \/ \E x \in Lines : log' = Append(log, x)
      BY <1>23 DEF Exit, Lines
    <3> QED
      BY <3>1, LogGrows DEF TypeOK, DirectoryTypes
  <2>2. TypeOK'
    BY <1>23, <2>1 DEF Exit, Conclude, TypeOK, DirectoryTypes, DashboardTypes,
         UpdaterTypes, HistoryTypes
  <2>3. FollowsItsOwn'
    BY <1>23, <2>1 DEF Exit, TypeOK, DashboardTypes, FollowsItsOwn
  <2>4. StagesAlone' /\ WaitsWhole'
    BY <1>23 DEF Exit, Conclude, TypeOK, StagesAlone, WaitsWhole
  <2>5. WorksOnItsOwn' /\ EndsAreKept'
    BY <1>23 DEF Exit, Conclude, TypeOK, WorksOnItsOwn, EndsAreKept
  <2> QED
    BY <2>1, <2>2, <2>3, <2>4, <2>5
<1>24. CASE StopUpdater
  <2>1. DirectoryTypes' /\ DashboardTypes'
    BY <1>24 DEF StopUpdater, Fault, TrapPlace, TypeOK, DirectoryTypes, DashboardTypes
  <2>2. UpdaterTypes' /\ HistoryTypes'
    BY <1>24 DEF StopUpdater, Fault, TrapPlace, TypeOK, UpdaterTypes, HistoryTypes
  <2>3. StagesAlone' /\ WaitsWhole' /\ WorksOnItsOwn'
    BY <1>24 DEF StopUpdater, Fault, TrapPlace, TypeOK, StagesAlone, WaitsWhole,
         WorksOnItsOwn
  <2>4. EndsAreKept'
    BY <1>24 DEF StopUpdater, Fault, TrapPlace, TypeOK, WorksOnItsOwn, EndsAreKept
  <2>5. FollowsItsOwn'
    BY <1>24 DEF StopUpdater, Fault, TrapPlace, TypeOK, FollowsItsOwn
  <2> QED
    BY <2>1, <2>2, <2>3, <2>4, <2>5 DEF TypeOK
<1>25. CASE KillUpdater
  <2>1. DirectoryTypes' /\ DashboardTypes'
    BY <1>25 DEF KillUpdater, Fault, EndJob, TypeOK, DirectoryTypes, DashboardTypes
  <2>2. UpdaterTypes' /\ HistoryTypes'
    BY <1>25 DEF KillUpdater, Fault, EndJob, TypeOK, DirectoryTypes, UpdaterTypes,
         HistoryTypes
  <2>3. StagesAlone' /\ WaitsWhole' /\ WorksOnItsOwn'
    BY <1>25 DEF KillUpdater, Fault, EndJob, TypeOK, StagesAlone, WaitsWhole, WorksOnItsOwn
  <2>4. EndsAreKept'
    BY <1>25 DEF KillUpdater, Fault, EndJob, TypeOK, DirectoryTypes, HistoryTypes,
         EndsAreKept
  <2>5. FollowsItsOwn'
    BY <1>25 DEF KillUpdater, Fault, EndJob, TypeOK, FollowsItsOwn
  <2> QED
    BY <2>1, <2>2, <2>3, <2>4, <2>5 DEF TypeOK
<1>26. CASE UNCHANGED vars
  BY <1>26 DEF vars, TypeOK, DirectoryTypes, DashboardTypes, UpdaterTypes, HistoryTypes,
       StagesAlone, WaitsWhole, WorksOnItsOwn, EndsAreKept, FollowsItsOwn
<1> QED
  BY <1>1, <1>2, <1>3, <1>4, <1>5, <1>6, <1>7, <1>8, <1>9, <1>10, <1>11,
     <1>12, <1>13, <1>14, <1>15, <1>16, <1>17, <1>18, <1>19, <1>20, <1>21, <1>22,
     <1>23, <1>24, <1>25, <1>26 DEF Next, Stage, Follow, Update

\* The invariant holds in every state that is reached.
LEMMA Invariance ==
  ASSUME ExitIsPrompt PROVE Spec => []IInv
<1>1. IInv /\ [Next]_vars => IInv'
  BY StepKeeps
<1> QED
  BY InitHolds, <1>1, PTL DEF Spec

(***************************************************************************)
(* The theorems.                                                            *)
(***************************************************************************)

\* Files, places and history keep their kinds, the dashboard is idle exactly when no run
\* is, and an updater that works has a job.
THEOREM TypeInvariance ==
  ASSUME ExitIsPrompt PROVE Spec => []TypeOK
<1>1. IInv => TypeOK
  BY DEF IInv
<1> QED
  BY Invariance, <1>1, PTL

\* Root runs the steps of the bundle that was staged with the job, whatever the
\* dashboard and the faults do in between.
THEOREM OwnBundleProof ==
  ASSUME ExitIsPrompt PROVE Spec => []RunsItsOwnBundle
<1>1. IInv => RunsItsOwnBundle
  BY DEF IInv, WorksOnItsOwn, RunsItsOwnBundle
<1> QED
  BY Invariance, <1>1, PTL

\* The log never shrinks under a run that follows it.
THEOREM NoLineSkippedProof ==
  ASSUME ExitIsPrompt PROVE Spec => []NoLineSkipped
<1>1. IInv => NoLineSkipped
  BY DEF IInv, FollowsItsOwn, NoLineSkipped
<1> QED
  BY Invariance, <1>1, PTL

\* No result of a job is one of the dashboard's own codes.
LEMMA ResultsAreNotCodes ==
  /\ "staging_failed" \notin Results
  /\ "backend_error" \notin Results
  /\ "timeout" \notin Results
  /\ "cancelled" \notin Results
BY DEF Results

\* Only ReadStatus reports a result, and the status it reads is that of the job the
\* run follows.
LEMMA ReportStep ==
  ASSUME IInv, [Next]_vars, NEW j \in Jobs, reported'[j] # reported[j],
         reported'[j] \in Results
  PROVE  reported'[j] = result[IF resumed THEN current ELSE j]
<1> USE ResultsAreNotCodes
<1>1. CASE reported' = reported
  BY <1>1
<1>2. CASE ReadStatus /\ status \in Results /\ Finish(status)
  <2>1. run \in Jobs /\ reported' = [reported EXCEPT ![run] = status]
    BY <1>2 DEF ReadStatus, Finish, IInv, TypeOK, DashboardTypes, Tailing
  <2>2. j = run /\ reported'[j] = status
    BY <2>1 DEF IInv, TypeOK, HistoryTypes
  <2>3. status # None /\ pending = None
    BY <1>2, NoneAssumption DEF IInv, WaitsWhole, Results
  <2>4. ~resumed => run = current
    BY <1>2, <2>3 DEF ReadStatus, IInv, FollowsItsOwn, Tailing
  <2>5. result[current] = status
    BY <1>2 DEF IInv, EndsAreKept
  <2> QED
    BY <2>2, <2>4, <2>5
<1>3. ASSUME NEW report, report \notin Results, Finish(report) PROVE FALSE
  BY <1>3 DEF Finish, IInv, TypeOK, HistoryTypes
<1>4. CASE Stage \/ StageFails
  BY <1>1, <1>3, <1>4 DEF Stage, CheckDirectory, RemoveBundle, CopyBundle, ResetLog,
                          ClearStatus, Activate, StageFails, Goto
<1>5. CASE ReadStatus
  BY <1>1, <1>2, <1>3, <1>5 DEF ReadStatus, Goto
<1>6. CASE ReadLog \/ Wait \/ TailInFlight \/ CancelRun \/ RestartDashboard \/ StartRun
  BY <1>1, <1>3, <1>6 DEF ReadLog, Wait, TailInFlight, CancelRun, RestartDashboard, StartRun
<1>7. CASE Update \/ StopUpdater \/ KillUpdater
  BY <1>1, <1>7 DEF Update, StopUpdater, KillUpdater, ClaimJob, TruncateLog, RemoveStatus,
                    ClaimBundle, VerifyBundle, RunSteps, CreateStatus, WriteStatus, Exit
<1>8. CASE UNCHANGED vars
  BY <1>1, <1>8 DEF vars
<1> QED
  BY <1>4, <1>5, <1>6, <1>7, <1>8 DEF Next, Follow

\* What run-finished says of a job is how that job ended.
THEOREM ReportProof ==
  ASSUME ExitIsPrompt PROVE Spec => ReportIsOwnResult
<1>1. IInv /\ [Next]_vars =>
        \A j \in Jobs :
          reported'[j] # reported[j] /\ reported'[j] \in Results
            => reported'[j] = result[IF resumed THEN current ELSE j]
  BY ReportStep
<1> QED
  BY Invariance, <1>1, PTL DEF Spec, ReportIsOwnResult

(***************************************************************************)
(* Refinement of JobLifecycle.                                              *)
(***************************************************************************)

\* The empty directory is the lifecycle's first state.
LEMMA LifecycleInit ==
  Init => Lifecycle!Init
BY DEF Init, Lifecycle!Init, Claimed

\* Staging becomes visible when pending.json does.
LEMMA ActivateStages ==
  ASSUME IInv, Activate PROVE Lifecycle!Stage(run) /\ run \in Jobs
<1>1. upd = "off" /\ pending = None /\ result[run] = None /\ run \in Jobs
  BY DEF Activate, IInv, TypeOK, DashboardTypes, StagesAlone, EndsAreKept, Staging
<1>2. Claimed = None
  BY <1>1 DEF IInv, EndsAreKept, Claimed
<1> QED
  BY <1>1, <1>2 DEF Activate, Lifecycle!Stage, Claimed

\* Claiming a job is a claim of the lifecycle.
LEMMA ClaimJobClaims ==
  ASSUME IInv, ClaimJob PROVE Lifecycle!Claim
<1>1. upd = "off" /\ pending # None /\ result[pending] = None
  BY DEF ClaimJob, Pending, IInv, WaitsWhole
<1>2. Claimed = None
  BY <1>1 DEF IInv, EndsAreKept, Claimed
<1> QED
  BY <1>1, <1>2 DEF ClaimJob, Lifecycle!Claim, Claimed

\* A job ends when its status file is created, or when its updater is killed.
LEMMA EndJobEnds ==
  ASSUME IInv, NEW r \in Ends, EndJob(current, r), current \in Jobs,
         UNCHANGED <<pending, current>>
  PROVE  Lifecycle!End(r) \/ UNCHANGED Lifecycle!vars
<1> USE NoneAssumption
<1>1. r # None
  BY DEF Ends, Results
<1>2. current # None
  OBVIOUS
<1>3. CASE result[current] = None
  <2>1. result' = [result EXCEPT ![current] = r] /\ result'[current] = r
    BY <1>3 DEF EndJob, IInv, TypeOK, HistoryTypes
  <2>2. Claimed = current /\ Claimed' = None
    BY <1>1, <1>2, <1>3, <2>1 DEF Claimed
  <2> QED
    BY <1>2, <2>1, <2>2 DEF Lifecycle!End
<1>4. CASE result[current] # None
  <2>1. result' = result
    BY <1>4 DEF EndJob, IInv, TypeOK, HistoryTypes
  <2> QED
    BY <2>1 DEF Lifecycle!vars, Claimed
<1> QED
  BY <1>3, <1>4

\* Every step is a step of the lifecycle or changes nothing of it.
LEMMA StepRefines ==
  ASSUME IInv, [Next]_vars PROVE [Lifecycle!Next]_(Lifecycle!vars)
<1>1. CASE UNCHANGED <<pending, current, result>>
  BY <1>1 DEF Lifecycle!vars, Claimed
<1>2. CASE Activate
  BY <1>2, ActivateStages DEF Lifecycle!Next
<1>3. CASE ClaimJob
  BY <1>3, ClaimJobClaims DEF Lifecycle!Next
<1>4. CASE CreateStatus
  <2>1. outcome \in Ends /\ current \in Jobs
    BY <1>4 DEF CreateStatus, IInv, TypeOK, DirectoryTypes, UpdaterTypes, WorksOnItsOwn,
         Ends
  <2> QED
    BY <1>4, <2>1, EndJobEnds DEF CreateStatus, Lifecycle!Next
<1>5. CASE KillUpdater
  <2>1. "lost" \in Ends /\ current \in Jobs
    BY <1>5 DEF KillUpdater, IInv, TypeOK, DirectoryTypes, UpdaterTypes, Ends
  <2> QED
    BY <1>5, <2>1, EndJobEnds DEF KillUpdater, directory, Lifecycle!Next
<1>6. CASE \/ StartRun \/ CheckDirectory \/ RemoveBundle \/ CopyBundle \/ ResetLog
           \/ ClearStatus \/ StageFails \/ Follow \/ CancelRun \/ RestartDashboard
  BY <1>1, <1>6 DEF StartRun, CheckDirectory, RemoveBundle, CopyBundle, ResetLog,
       ClearStatus, StageFails, Follow, ReadLog, ReadStatus, Wait, TailInFlight, CancelRun,
       RestartDashboard, directory
<1>7. CASE \/ TruncateLog \/ RemoveStatus \/ ClaimBundle \/ VerifyBundle \/ RunSteps
           \/ WriteStatus \/ Exit \/ StopUpdater
  BY <1>1, <1>7 DEF TruncateLog, RemoveStatus, ClaimBundle, VerifyBundle, RunSteps,
       WriteStatus, Exit, StopUpdater, directory
<1>8. CASE UNCHANGED vars
  BY <1>1, <1>8 DEF vars, directory
<1> QED
  BY <1>2, <1>3, <1>4, <1>5, <1>6, <1>7, <1>8 DEF Next, Stage, Update

\* The job directory keeps the promise of JobLifecycle: one job at a time, claimed once,
\* ended once.
THEOREM LifecycleProof ==
  ASSUME ExitIsPrompt PROVE Spec => JobLifecycleSpec
<1>1. IInv /\ [Next]_vars => [Lifecycle!Next]_(Lifecycle!vars)
  BY StepRefines
<1> QED
  BY Invariance, LifecycleInit, <1>1, PTL DEF Spec, JobLifecycleSpec, Lifecycle!Spec

(***************************************************************************)
(* The dialog of one device.                                               *)
(***************************************************************************)

CONSTANTS Devices, Refs, Icons, FavoriteLimit, MaxGestures, MaxPushes
VARIABLES stored, selected, detail, activityLog, flights, appearanceQueue, work, undo, doubt,
          gestures, pushes

Modal == INSTANCE DeviceModal WITH log <- activityLog, jobs <- appearanceQueue

\* What a device may have: an icon, and no more favourites than the limit.
Favorites == {s \in SUBSET Refs : IsFiniteSet(s) /\ Cardinality(s) <= FavoriteLimit}
Looks == [icon : Icons \cup {""}, favorite_refs : Favorites]
Details == [device : Devices, look : Looks]
Stars == [device : Devices, field : {"favorite_refs"}, value : Refs, undoable : {TRUE}]
Restores == [device : Devices, field : {"favorite_refs"}, value : Favorites, undoable : {FALSE}]
Choices == [device : Devices, field : {"icon"}, value : Icons \cup {""}, undoable : BOOLEAN]
Writes == Stars \cup Restores \cup Choices
Works == [stage : {"sent", "stored", "reload"}, field : {"icon", "favorite_refs"},
          before : Looks, next : Looks, doubt : BOOLEAN]
Requests == [for : {"detail", "reload", "activity"}, device : Devices, live : BOOLEAN,
             read : Looks \cup {Absent}]

\* No device, no answer and no write is the value that stands for their absence.
ModalConstants ==
  /\ FavoriteLimit \in Nat
  /\ Absent \notin Devices /\ Absent \notin Looks /\ Absent \notin Details
  /\ Absent \notin Works /\ Absent \notin Writes

\* What the dialog shows is of the device it is open for.
ModalTypes ==
  /\ stored \in [Devices -> Looks]
  /\ selected \in Devices \cup {Absent}
  /\ detail \in Details \cup {Absent}
  /\ detail # Absent => detail.device = selected
  /\ activityLog \subseteq {selected}
  /\ flights \subseteq Requests
  /\ appearanceQueue \in Seq(Writes)
  /\ work \in Works \cup {Absent}
  /\ undo \in Writes \cup {Absent}
  /\ doubt \in BOOLEAN

\* The head of the queue is the one write at work, and the one reload is its own.
ModalQueue ==
  /\ work # Absent => appearanceQueue # <<>>
  /\ \A f \in flights : f.for = "reload" =>
       /\ work # Absent /\ work.stage = "reload"
       /\ f.device = Head(appearanceQueue).device
  /\ \A f, g \in flights : f.for = "reload" /\ g.for = "reload" => f = g

\* The write at work has changed the server, and the answer that says so is on its way.
Unconfirmed(d) == work # Absent /\ work.stage = "stored" /\ d = Head(appearanceQueue).device

\* The write at work is shown and not confirmed.
Ahead(d) == work # Absent /\ work.stage # "reload" /\ d = Head(appearanceQueue).device

\* A write starts from what the server has, unless a load was under way or had failed; so
\* do the answers that count; and what is shown is one of them, or another one comes.
ModalTruth ==
  /\ work # Absent /\ work.stage = "sent" /\ ~work.doubt =>
       work.before = stored[Head(appearanceQueue).device]
  /\ \A f \in flights : Modal!Counts(f) /\ f.for # "activity" =>
       f.read = Absent \/ f.read = stored[f.device] \/ Unconfirmed(f.device)
  /\ detail # Absent /\ ~doubt =>
       detail.look = stored[selected] \/ Modal!Waits \/ Ahead(selected)

ModalInv == ModalTypes /\ ModalQueue /\ ModalTruth

-----------------------------------------------------------------------------
\* The dialog counts as the library does.
LEMMA ModalCounts == \A S : Modal!Cardinality(S) = Cardinality(S)
BY DEF Modal!Cardinality, Cardinality

\* A star turned over keeps the limit, as the one beyond it is refused (toggleFavorite); an
\* icon leaves the favourites alone, and what is taken back kept the limit before.
LEMMA NewLook ==
  ASSUME ModalConstants, NEW look \in Looks, NEW job \in Writes, ~Modal!Refused(look, job)
  PROVE  [look EXCEPT ![job.field] = Modal!NewValue(look, job)] \in Looks
<1> DEFINE new == Modal!NewValue(look, job)
<1>1. CASE job \in Choices
  <2>1. new \in Icons \cup {""} /\ job.field = "icon"
    BY <1>1 DEF Choices, Modal!NewValue
  <2> QED BY <2>1 DEF Looks
<1>2. CASE job \in Restores
  <2>1. new \in Favorites /\ job.field = "favorite_refs"
    BY <1>2 DEF Restores, Modal!NewValue
  <2> QED BY <2>1 DEF Looks
<1>3. CASE job \in Stars
  <2> DEFINE had == look.favorite_refs
  <2>1. had \in SUBSET Refs /\ IsFiniteSet(had) /\ Cardinality(had) <= FavoriteLimit
    BY DEF Looks, Favorites
  <2>2. job.field = "favorite_refs" /\ job.value \in Refs /\ job.undoable = TRUE
    BY <1>3 DEF Stars
  <2>3. new = (had \ {job.value}) \cup ({job.value} \ had)
    BY <2>2 DEF Modal!NewValue, Modal!SymDiff
  <2>4. Cardinality(had) \in Nat
    BY <2>1, FS_CardinalityType
  <2>5. new \in Favorites
    <3>1. CASE job.value \in had
      <4>1. new = had \ {job.value}
        BY <2>3, <3>1
      <4>2. IsFiniteSet(new) /\ Cardinality(new) = Cardinality(had) - 1
        BY <2>1, <3>1, <4>1, FS_RemoveElement
      <4> QED BY <2>1, <2>4, <4>1, <4>2 DEF Favorites, ModalConstants
    <3>2. CASE job.value \notin had
      <4>1. new = had \cup {job.value}
        BY <2>3, <3>2
      <4>2. IsFiniteSet(new) /\ Cardinality(new) = Cardinality(had) + 1
        BY <2>1, <3>2, <4>1, FS_AddElement
      <4>3. ~(Cardinality(had) >= FavoriteLimit)
        BY <2>2, <3>2, ModalCounts, Zenon DEF Modal!Refused
      <4> QED BY <2>1, <2>2, <2>4, <4>1, <4>2, <4>3 DEF Favorites, ModalConstants
    <3> QED BY <3>1, <3>2
  <2> QED BY <2>2, <2>5 DEF Looks
<1> QED BY <1>1, <1>2, <1>3 DEF Writes


\* The dialog opens on nothing.
LEMMA ModalInitHolds == ASSUME ModalConstants, Modal!Init PROVE ModalInv
<1>1. {} \in Favorites
  BY FS_EmptySet DEF Favorites, ModalConstants
<1>2. stored \in [Devices -> Looks]
  BY <1>1 DEF Modal!Init, Looks
<1>3. ModalTypes
  <2>1. appearanceQueue \in Seq(Writes)
    BY EmptySeq DEF Modal!Init
  <2>2. doubt \in BOOLEAN
    BY DEF Modal!Init
  <2> QED BY <1>2, <2>1, <2>2 DEF ModalTypes, Modal!Init
<1>4. ModalQueue
  BY DEF ModalQueue, Modal!Init
<1>5. ModalTruth
  BY DEF ModalTruth, Modal!Init
<1> QED BY <1>3, <1>4, <1>5 DEF ModalInv

-----------------------------------------------------------------------------
(* Opening, refreshing, closing. *)

\* A token that moves on keeps the requests and makes none of them count.
LEMMA OutdatedRequests ==
  ASSUME flights \subseteq Requests
  PROVE  /\ Modal!Outdated \subseteq Requests
         /\ \A f \in Modal!Outdated : ~f.live
         /\ \A f \in Modal!Outdated : \E g \in flights : f = [g EXCEPT !.live = FALSE]
BY DEF Modal!Outdated, Requests

\* What is under way stays what it is under another token, and a request for the detail is
\* never the reload of a write.
LEMMA QueueStays ==
  ASSUME ModalTypes, ModalQueue, appearanceQueue' = appearanceQueue, work' = work,
         NEW d \in Devices,
         flights' = Modal!Outdated \/ flights' = Modal!Outdated \cup {Modal!Request("detail", d)}
  PROVE  ModalQueue' /\ flights' \subseteq Requests
<1>1. flights \subseteq Requests
  BY DEF ModalTypes
<1>2. Modal!Request("detail", d) \in Requests /\ Modal!Request("detail", d).for # "reload"
  BY DEF Modal!Request, Requests
<1>3. flights' \subseteq Requests
  BY <1>1, <1>2, OutdatedRequests
<1>4. \A f \in flights' : f.for = "reload" =>
        \E g \in flights : f = [g EXCEPT !.live = FALSE] /\ g.for = "reload" /\ g.device = f.device
  BY <1>1, <1>2, OutdatedRequests DEF Requests
<1>5. ModalQueue'
  BY <1>4 DEF ModalQueue
<1> QED BY <1>3, <1>5

\* A device is opened: what was known of another one is gone, and a load is asked for.
LEMMA OpenDeviceKeeps ==
  ASSUME ModalConstants, ModalInv, NEW d \in Devices, Modal!OpenDevice(d)
  PROVE  ModalInv'
<1>1. flights' = Modal!Outdated \cup {Modal!Request("detail", d)}
  BY DEF Modal!OpenDevice
<1>2. ModalQueue' /\ flights' \subseteq Requests
  BY <1>1, QueueStays DEF ModalInv, Modal!OpenDevice
<1>3. ModalTypes'
  BY <1>2 DEF ModalInv, ModalTypes, Modal!OpenDevice
<1>4. \A f \in flights' : f.live => f.read = Absent
  BY <1>1, OutdatedRequests DEF ModalInv, ModalTypes, Modal!Request
<1>5. ModalTruth'
  BY <1>4 DEF ModalInv, ModalTruth, Modal!OpenDevice, Modal!Counts
<1> QED BY <1>2, <1>3, <1>5 DEF ModalInv

\* The device shown is loaded again.
LEMMA RefreshKeeps ==
  ASSUME ModalConstants, ModalInv, Modal!RefreshSelectedDevice
  PROVE  ModalInv'
<1> DEFINE new == Modal!Request("detail", selected)
<1>1. flights' = Modal!Outdated \cup {new} /\ selected \in Devices
  BY DEF Modal!RefreshSelectedDevice, ModalInv, ModalTypes
<1>2. ModalQueue' /\ flights' \subseteq Requests
  BY <1>1, QueueStays DEF ModalInv, Modal!RefreshSelectedDevice
<1>3. ModalTypes'
  BY <1>2 DEF ModalInv, ModalTypes, Modal!RefreshSelectedDevice
<1>4. \A f \in flights' : f.live => f.read = Absent
  BY <1>1, OutdatedRequests DEF ModalInv, ModalTypes, Modal!Request
<1>5. Modal!Waits'
  <2>1. new \in flights' /\ new.live /\ new.device = selected' /\ new.for # "activity"
    BY <1>1 DEF Modal!Request, Modal!RefreshSelectedDevice
  <2> QED BY <2>1 DEF Modal!Waits, Modal!Counts
<1>6. ModalTruth'
  BY <1>4, <1>5 DEF ModalInv, ModalTruth, Modal!RefreshSelectedDevice, Modal!Counts
<1> QED BY <1>2, <1>3, <1>6 DEF ModalInv

\* The dialog is closed; the writes go on.
LEMMA CloseKeeps ==
  ASSUME ModalConstants, ModalInv, Modal!CloseDeviceDetail
  PROVE  ModalInv'
<1>1. flights' = Modal!Outdated /\ selected \in Devices
  BY DEF Modal!CloseDeviceDetail, ModalInv, ModalTypes
<1>2. ModalQueue' /\ flights' \subseteq Requests
  BY <1>1, QueueStays DEF ModalInv, Modal!CloseDeviceDetail
<1>3. ModalTypes'
  BY <1>2 DEF ModalInv, ModalTypes, Modal!CloseDeviceDetail
<1>4. \A f \in flights' : ~f.live
  BY <1>1, OutdatedRequests DEF ModalInv, ModalTypes
<1>5. ModalTruth'
  BY <1>4 DEF ModalInv, ModalTruth, Modal!CloseDeviceDetail, Modal!Counts
<1> QED BY <1>2, <1>3, <1>5 DEF ModalInv

-----------------------------------------------------------------------------
(* Answers. *)

\* The server reads what a request is answered with.
LEMMA ReadKeeps ==
  ASSUME ModalConstants, ModalInv, NEW f \in flights, Modal!Read(f)
  PROVE  ModalInv'
<1> PICK g : g = [f EXCEPT !.read = stored[f.device]]
  OBVIOUS
<1>1. f \in Requests /\ f.device \in Devices /\ stored[f.device] \in Looks
  BY DEF ModalInv, ModalTypes, Requests
<1>2. /\ g \in Requests /\ g.for = f.for /\ g.device = f.device /\ g.live = f.live
      /\ g.read = stored[f.device]
  BY <1>1 DEF Requests
<1>3. flights' = (flights \ {f}) \cup {g}
  BY DEF Modal!Read
<1>4. ModalTypes'
  BY <1>2, <1>3 DEF ModalInv, ModalTypes, Modal!Read
<1>5. ModalQueue'
  BY <1>2, <1>3 DEF ModalInv, ModalQueue, Modal!Read
<1>6. Modal!Waits => Modal!Waits'
  BY <1>2, <1>3 DEF Modal!Waits, Modal!Counts, Modal!Read
<1>7. ModalTruth'
  BY <1>2, <1>3, <1>6
  DEF ModalInv, ModalTruth, Modal!Read, Modal!Counts, Unconfirmed, Ahead
<1> QED BY <1>4, <1>5, <1>7 DEF ModalInv


\* The write at work ends with its reload, and may then be taken back.
LEMMA ReloadEnds ==
  ASSUME ModalConstants, ModalInv, NEW f \in flights, f.for = "reload", Modal!Reloaded(f)
  PROVE  /\ work # Absent /\ work.stage = "reload" /\ f.device = Head(appearanceQueue).device
         /\ appearanceQueue' \in Seq(Writes) /\ work' = Absent /\ undo' \in Writes \cup {Absent}
<1>1. work # Absent /\ work.stage = "reload" /\ f.device = Head(appearanceQueue).device
  BY DEF ModalInv, ModalQueue
<1>2. appearanceQueue \in Seq(Writes) /\ appearanceQueue # <<>> /\ work \in Works
  BY <1>1 DEF ModalInv, ModalTypes, ModalQueue
<1>3. appearanceQueue' \in Seq(Writes) /\ work' = Absent
  BY <1>2, HeadTailProperties DEF Modal!Reloaded, Modal!JobEnds
<1>4. [device |-> f.device, field |-> work.field, value |-> work.before[work.field],
       undoable |-> FALSE] \in Writes
  <2>1. f.device \in Devices
    BY DEF ModalInv, ModalTypes, Requests
  <2>2. CASE work.field = "icon"
    <3>1. work.before["icon"] \in Icons \cup {""}
      BY <1>2 DEF Works, Looks
    <3> QED BY <2>1, <2>2, <3>1 DEF Choices, Writes
  <2>3. CASE work.field = "favorite_refs"
    <3>1. work.before["favorite_refs"] \in Favorites
      BY <1>2 DEF Works, Looks
    <3> QED BY <2>1, <2>3, <3>1 DEF Restores, Writes
  <2> QED BY <1>2, <2>2, <2>3 DEF Works
<1>5. undo' \in Writes \cup {Absent}
  BY <1>4 DEF Modal!Reloaded
<1> QED BY <1>1, <1>3, <1>5

\* With its reload gone, the queue has none.
LEMMA QueueAfterAnswer ==
  ASSUME ModalConstants, ModalInv, NEW f \in flights, Modal!Reloaded(f), NEW rest,
         \A g \in rest : g.for # "reload", flights' = (flights \ {f}) \cup rest
  PROVE  ModalQueue'
<1>1. CASE f.for = "reload"
  <2>1. work' = Absent
    BY <1>1, ReloadEnds
  <2>2. \A g \in flights' : g.for # "reload"
    BY <1>1 DEF ModalInv, ModalQueue
  <2> QED BY <2>1, <2>2 DEF ModalQueue
<1>2. CASE f.for # "reload"
  BY <1>2 DEF ModalInv, ModalQueue, Modal!Reloaded
<1> QED BY <1>1, <1>2

\* An answer that counts, and belongs to no write between its storing and its confirmation,
\* is what the server has.
LEMMA DetailArrivesKeeps ==
  ASSUME ModalConstants, ModalInv, NEW f \in flights, Modal!DetailArrives(f)
  PROVE  ModalInv'
<1> PICK answer : answer = [device |-> f.device, look |-> f.read]
  OBVIOUS
<1> DEFINE activity == Modal!Request("activity", f.device)
<1>1. f \in Requests /\ f.device \in Devices /\ f.read \in Looks /\ f.for \in {"detail", "reload"}
  BY DEF ModalInv, ModalTypes, Requests, Modal!DetailArrives
<1>2. Modal!Reloaded(f)
  BY DEF Modal!DetailArrives
<1>3. answer \in Details /\ answer.device = f.device /\ answer.look = f.read
  BY <1>1 DEF Details
<1>4. activity \in Requests /\ activity.for = "activity"
  BY <1>1 DEF Modal!Request, Requests
<1>5. PICK rest \in SUBSET {activity} : flights' = (flights \ {f}) \cup rest
  <2>1. CASE Modal!Counts(f)
    <3>1. flights' = (flights \ {f}) \cup {activity}
      BY <2>1 DEF Modal!DetailArrives
    <3> QED BY <3>1
  <2>2. CASE ~Modal!Counts(f)
    <3>1. flights' = (flights \ {f}) \cup {}
      BY <2>2 DEF Modal!DetailArrives
    <3> QED BY <3>1
  <2> QED BY <2>1, <2>2
<1>6. ModalQueue'
  BY <1>2, <1>4, <1>5, QueueAfterAnswer
<1>7. ModalTypes'
  <2>1. flights' \subseteq Requests
    BY <1>4, <1>5 DEF ModalInv, ModalTypes
  <2>2. appearanceQueue' \in Seq(Writes) /\ work' \in Works \cup {Absent} /\ undo' \in Writes \cup {Absent}
    BY <1>2, ReloadEnds DEF ModalInv, ModalTypes, Modal!Reloaded
  <2>3. detail' \in Details \cup {Absent} /\ (detail' # Absent => detail'.device = selected')
    BY <1>3 DEF Modal!DetailArrives, Modal!Counts, ModalInv, ModalTypes
  <2>4. doubt' \in BOOLEAN
    BY DEF Modal!DetailArrives
  <2> QED BY <2>1, <2>2, <2>3, <2>4 DEF ModalInv, ModalTypes, Modal!DetailArrives
<1>8. \A d \in Devices : Unconfirmed(d)' <=> Unconfirmed(d)
  BY <1>2, ReloadEnds DEF Unconfirmed, Modal!Reloaded
<1>9. \A d \in Devices : Ahead(d) => Ahead(d)'
  BY <1>2, ReloadEnds DEF Ahead, Modal!Reloaded
<1>10. ModalTruth'
  <2>1. work' # Absent /\ work'.stage = "sent" /\ ~work'.doubt =>
          work'.before = stored'[Head(appearanceQueue').device]
    BY <1>2, ReloadEnds DEF ModalInv, ModalTruth, Modal!DetailArrives, Modal!Reloaded
  <2>2. \A g \in flights' : Modal!Counts(g)' /\ g.for # "activity" =>
          g.read = Absent \/ g.read = stored'[g.device] \/ Unconfirmed(g.device)'
    BY <1>4, <1>5, <1>8 DEF ModalInv, ModalTypes, ModalTruth, Modal!DetailArrives, Modal!Counts, Requests
  <2>3. detail' # Absent /\ ~doubt' => detail'.look = stored'[selected'] \/ Modal!Waits' \/ Ahead(selected)'
    <3>1. CASE Modal!Counts(f)
      <4>1. f.read = stored[f.device] \/ Unconfirmed(f.device)
        BY <1>1, <3>1 DEF ModalInv, ModalTruth, ModalConstants
      <4>2. detail'.look = f.read /\ selected' = f.device /\ stored' = stored
        BY <1>3, <3>1 DEF Modal!DetailArrives, Modal!Counts
      <4>3. Unconfirmed(f.device) => Ahead(f.device)
        BY DEF Unconfirmed, Ahead
      <4> QED BY <1>1, <1>9, <4>1, <4>2, <4>3 DEF Modal!DetailArrives, Modal!Counts
    <3>2. CASE ~Modal!Counts(f)
      <4>1. Modal!Waits => Modal!Waits'
        BY <3>2, <1>5 DEF Modal!Waits, Modal!Counts, Modal!DetailArrives
      <4>2. detail' = detail /\ selected' = selected /\ stored' = stored /\ (doubt' <=> doubt)
        BY <3>2 DEF Modal!DetailArrives, ModalInv, ModalTypes
      <4>3. detail # Absent => selected \in Devices
        BY DEF ModalInv, ModalTypes, Details
      <4> QED BY <1>9, <4>1, <4>2, <4>3 DEF ModalInv, ModalTruth
    <3> QED BY <3>1, <3>2
  <2> QED BY <2>1, <2>2, <2>3 DEF ModalTruth
<1> QED BY <1>6, <1>7, <1>10 DEF ModalInv

\* The log of a device arrives.
LEMMA ActivityArrivesKeeps ==
  ASSUME ModalConstants, ModalInv, NEW f \in flights, Modal!ActivityArrives(f)
  PROVE  ModalInv'
<1>1. ModalTypes'
  BY DEF ModalInv, ModalTypes, Modal!ActivityArrives, Modal!RowsCount, Modal!Counts
<1>2. ModalQueue'
  BY DEF ModalInv, ModalQueue, Modal!ActivityArrives
<1>3. Modal!Waits => Modal!Waits'
  BY DEF Modal!Waits, Modal!Counts, Modal!ActivityArrives
<1>4. ModalTruth'
  BY <1>3 DEF ModalInv, ModalTruth, Modal!ActivityArrives, Modal!Counts, Unconfirmed, Ahead
<1> QED BY <1>1, <1>2, <1>4 DEF ModalInv

\* A load that fails leaves a doubt when it counted.
LEMMA RequestFailsKeeps ==
  ASSUME ModalConstants, ModalInv, NEW f \in flights, Modal!RequestFails(f)
  PROVE  ModalInv'
<1> PICK rest : rest = {}
  OBVIOUS
<1>1. Modal!Reloaded(f) /\ flights' = (flights \ {f}) \cup rest
  BY DEF Modal!RequestFails
<1>2. ModalQueue'
  BY <1>1, QueueAfterAnswer
<1>3. ModalTypes'
  <2>1. appearanceQueue' \in Seq(Writes) /\ work' \in Works \cup {Absent} /\ undo' \in Writes \cup {Absent}
    BY <1>1, ReloadEnds DEF ModalInv, ModalTypes, Modal!Reloaded
  <2>2. doubt' \in BOOLEAN
    BY DEF Modal!RequestFails
  <2> QED BY <2>1, <2>2 DEF ModalInv, ModalTypes, Modal!RequestFails
<1>4. \A d \in Devices : Unconfirmed(d)' <=> Unconfirmed(d)
  BY <1>1, ReloadEnds DEF Unconfirmed, Modal!Reloaded
<1>5. \A d \in Devices : Ahead(d) => Ahead(d)'
  BY <1>1, ReloadEnds DEF Ahead, Modal!Reloaded
<1>6. ModalTruth'
  <2>1. work' # Absent /\ work'.stage = "sent" /\ ~work'.doubt =>
          work'.before = stored'[Head(appearanceQueue').device]
    BY <1>1, ReloadEnds DEF ModalInv, ModalTruth, Modal!RequestFails, Modal!Reloaded
  <2>2. \A g \in flights' : Modal!Counts(g)' /\ g.for # "activity" =>
          g.read = Absent \/ g.read = stored'[g.device] \/ Unconfirmed(g.device)'
    BY <1>4 DEF ModalInv, ModalTypes, ModalTruth, Modal!RequestFails, Modal!Counts, Requests
  <2>3. detail' # Absent /\ ~doubt' => detail'.look = stored'[selected'] \/ Modal!Waits' \/ Ahead(selected)'
    <3>1. (Modal!Counts(f) /\ f.for # "activity") => doubt'
      BY DEF Modal!RequestFails
    <3>2. ~(Modal!Counts(f) /\ f.for # "activity") => (Modal!Waits => Modal!Waits')
      BY DEF Modal!Waits, Modal!Counts, Modal!RequestFails
    <3>3. doubt => doubt'
      BY DEF Modal!RequestFails
    <3>4. detail' = detail /\ selected' = selected /\ stored' = stored
      BY DEF Modal!RequestFails
    <3>5. detail # Absent => selected \in Devices
      BY DEF ModalInv, ModalTypes, Details
    <3> QED BY <1>5, <3>1, <3>2, <3>3, <3>4, <3>5 DEF ModalInv, ModalTruth
  <2> QED BY <2>1, <2>2, <2>3 DEF ModalTruth
<1> QED BY <1>2, <1>3, <1>6 DEF ModalInv


-----------------------------------------------------------------------------
(* Writes. *)

\* A write that joins the queue waits behind the one at work.
LEMMA EnqueueKeeps ==
  ASSUME ModalConstants, ModalInv, NEW job \in Writes, Modal!Enqueue(job),
         undo' \in Writes \cup {Absent},
         UNCHANGED <<stored, selected, detail, activityLog, flights, work, doubt>>
  PROVE  ModalInv'
<1>1. appearanceQueue' \in Seq(Writes) /\ appearanceQueue' # <<>>
  BY AppendProperties DEF ModalInv, ModalTypes, Modal!Enqueue
<1>2. appearanceQueue # <<>> => Head(appearanceQueue') = Head(appearanceQueue)
  BY HeadTailAppend DEF ModalInv, ModalTypes, Modal!Enqueue
<1>3. work # Absent => Head(appearanceQueue') = Head(appearanceQueue)
  BY <1>2 DEF ModalInv, ModalQueue
<1>4. ModalTypes'
  BY <1>1 DEF ModalInv, ModalTypes
<1>5. ModalQueue'
  BY <1>1, <1>3 DEF ModalInv, ModalQueue
<1>6. ModalTruth'
  BY <1>3 DEF ModalInv, ModalTruth, Modal!Counts, Modal!Waits, Unconfirmed, Ahead
<1> QED BY <1>4, <1>5, <1>6 DEF ModalInv

\* A gesture puts a write into the queue, or takes the last one back.
LEMMA GesturesKeep ==
  ASSUME ModalConstants, ModalInv,
         \/ \E r \in Refs : Modal!ToggleFavorite(r)
         \/ \E i \in Icons : Modal!SaveIcon(i)
         \/ Modal!TakeBack
  PROVE  ModalInv'
<1>0. undo \in Writes \cup {Absent} /\ (detail # Absent => selected \in Devices)
  BY DEF ModalInv, ModalTypes, Details
<1>1. CASE \E r \in Refs : Modal!ToggleFavorite(r)
  <2>1. PICK r \in Refs : Modal!ToggleFavorite(r)
    BY <1>1
  <2>2. PICK job : job = [device |-> selected, field |-> "favorite_refs", value |-> r, undoable |-> TRUE]
    OBVIOUS
  <2>3. job \in Writes
    BY <1>0, <2>1, <2>2 DEF Modal!ToggleFavorite, Writes, Stars
  <2>4. Modal!Enqueue(job)
    BY <2>1, <2>2 DEF Modal!ToggleFavorite
  <2> QED BY <1>0, <2>1, <2>3, <2>4, EnqueueKeeps DEF Modal!ToggleFavorite
<1>2. CASE \E i \in Icons : Modal!SaveIcon(i)
  <2>1. PICK i \in Icons : Modal!SaveIcon(i)
    BY <1>2
  <2>2. PICK job : job = [device |-> selected, field |-> "icon", value |-> i, undoable |-> TRUE]
    OBVIOUS
  <2>3. job \in Writes
    BY <1>0, <2>1, <2>2 DEF Modal!SaveIcon, Writes, Choices
  <2>4. Modal!Enqueue(job)
    BY <2>1, <2>2 DEF Modal!SaveIcon
  <2> QED BY <1>0, <2>1, <2>3, <2>4, EnqueueKeeps DEF Modal!SaveIcon
<1>3. CASE Modal!TakeBack
  BY <1>0, <1>3, EnqueueKeeps DEF Modal!TakeBack
<1> QED BY <1>1, <1>2, <1>3

\* The turn of a write comes: what it starts from is confirmed, unless a load was under way.
LEMMA StartJobKeeps ==
  ASSUME ModalConstants, ModalInv, Modal!StartJob
  PROVE  ModalInv'
<1> PICK job : job = Head(appearanceQueue)
  OBVIOUS
<1> DEFINE open == selected = job.device /\ detail # Absent
           waits == \E f \in flights : Modal!Counts(f) /\ f.for # "activity"
<1> PICK before : before = IF open THEN detail.look ELSE stored[job.device]
  OBVIOUS
<1> PICK next : next = [before EXCEPT ![job.field] = Modal!NewValue(before, job)]
  OBVIOUS
<1>1. appearanceQueue \in Seq(Writes) /\ appearanceQueue # <<>> /\ work = Absent
  BY DEF ModalInv, ModalTypes, Modal!StartJob
<1>2. job \in Writes /\ Tail(appearanceQueue) \in Seq(Writes)
  BY <1>1, HeadTailProperties
<1>3. job.device \in Devices
  BY <1>2 DEF Writes, Stars, Restores, Choices
<1>4. before \in Looks
  BY <1>3 DEF ModalInv, ModalTypes, Details
<1>5. \A f \in flights : f.for # "reload"
  BY <1>1 DEF ModalInv, ModalQueue
<1>6. CASE Modal!Refused(before, job)
  <2>1. appearanceQueue' = Tail(appearanceQueue) /\ UNCHANGED <<stored, selected, detail, activityLog, flights, work, undo, doubt>>
    BY <1>6 DEF Modal!StartJob
  <2>2. ModalTypes'
    BY <1>2, <2>1 DEF ModalInv, ModalTypes
  <2>3. ModalQueue'
    BY <1>1, <1>5, <2>1 DEF ModalQueue
  <2>4. ModalTruth'
    BY <1>1, <2>1 DEF ModalInv, ModalTruth, Modal!Counts, Modal!Waits, Unconfirmed, Ahead
  <2> QED BY <2>2, <2>3, <2>4 DEF ModalInv
<1>7. CASE ~Modal!Refused(before, job)
  <2> PICK started : started = [stage |-> "sent", field |-> job.field, before |-> before, next |-> next,
                                doubt |-> (open /\ (doubt \/ waits))]
    OBVIOUS
  <2>1. /\ work' = started
        /\ flights' = IF selected = job.device THEN Modal!Outdated ELSE flights
        /\ Modal!Applied(job.device, next)
        /\ UNCHANGED <<stored, selected, activityLog, appearanceQueue, undo, doubt>>
    BY <1>7 DEF Modal!StartJob, Modal!Waits
  <2>2. next \in Looks
    BY <1>2, <1>4, <1>7, NewLook
  <2>3. started \in Works /\ started.stage = "sent" /\ started.before = before
    BY <1>2, <1>4, <2>2 DEF Works, Writes, Stars, Restores, Choices
  <2>4. started.doubt <=> (open /\ (doubt \/ waits))
    OBVIOUS
  <2>5. work' # Absent
    BY <2>1, <2>3 DEF ModalConstants
  <2>6. flights' \subseteq Requests /\ \A f \in flights' : f.for # "reload"
    BY <1>5, <2>1, OutdatedRequests DEF ModalInv, ModalTypes, Requests
  <2>7. detail' \in Details \cup {Absent} /\ (detail' # Absent => detail'.device = selected')
    <3>1. CASE open
      BY <2>1, <2>2, <3>1 DEF Modal!Applied, ModalInv, ModalTypes, Details
    <3>2. CASE ~open
      BY <2>1, <3>2 DEF Modal!Applied, ModalInv, ModalTypes
    <3> QED BY <3>1, <3>2
  <2>8. ModalTypes'
    BY <2>1, <2>3, <2>6, <2>7 DEF ModalInv, ModalTypes
  <2>9. ModalQueue'
    BY <1>1, <2>1, <2>5, <2>6 DEF ModalQueue
  <2>10. ~work'.doubt => work'.before = stored'[Head(appearanceQueue').device]
    <3>1. open /\ ~doubt /\ ~waits => detail.look = stored[selected]
      BY <1>1 DEF ModalInv, ModalTruth, Modal!Waits, Ahead
    <3>2. work'.before = before /\ stored' = stored /\ Head(appearanceQueue') = job
      BY <2>1, <2>3
    <3>3. work'.doubt <=> (open /\ (doubt \/ waits))
      BY <2>1, <2>4
    <3> QED BY <3>1, <3>2, <3>3
  <2>11. \A f \in flights' : Modal!Counts(f)' /\ f.for # "activity" =>
           f.read = Absent \/ f.read = stored'[f.device] \/ Unconfirmed(f.device)'
    BY <1>1, <2>1, OutdatedRequests DEF ModalInv, ModalTypes, ModalTruth, Modal!Counts, Unconfirmed
  <2>12. detail' # Absent /\ ~doubt' => detail'.look = stored'[selected'] \/ Modal!Waits' \/ Ahead(selected)'
    <3>1. CASE selected = job.device
      BY <2>1, <2>3, <2>5, <3>1 DEF Ahead
    <3>2. CASE selected # job.device
      BY <1>1, <2>1, <3>2 DEF Modal!Applied, ModalInv, ModalTruth, Modal!Waits, Modal!Counts, Ahead
    <3> QED BY <3>1, <3>2
  <2>13. ModalTruth'
    BY <2>10, <2>11, <2>12 DEF ModalTruth
  <2> QED BY <2>8, <2>9, <2>13 DEF ModalInv
<1> QED BY <1>6, <1>7

\* What the server stores is not yet what the dialog was told.
LEMMA PutStoredKeeps ==
  ASSUME ModalConstants, ModalInv, Modal!PutStored
  PROVE  ModalInv'
<1> PICK d : d = Head(appearanceQueue).device
  OBVIOUS
<1> PICK moved : moved = [work EXCEPT !.stage = "stored"]
  OBVIOUS
<1>1. /\ work # Absent /\ work \in Works /\ work.stage = "sent" /\ work' = moved
      /\ stored' = [stored EXCEPT ![d] = work.next]
      /\ UNCHANGED <<selected, detail, activityLog, flights, appearanceQueue, undo, doubt>>
  BY DEF Modal!PutStored, ModalInv, ModalTypes
<1>2. moved \in Works /\ moved.stage = "stored" /\ work.next \in Looks
  BY <1>1 DEF Works
<1>3. work' # Absent
  BY <1>1, <1>2 DEF ModalConstants
<1>4. ModalTypes'
  BY <1>1, <1>2 DEF ModalInv, ModalTypes
<1>5. ModalQueue'
  BY <1>1, <1>3 DEF ModalInv, ModalQueue
<1>6. \A e \in Devices : e # d => stored'[e] = stored[e]
  BY <1>1 DEF ModalInv, ModalTypes
<1>7. Unconfirmed(d)' /\ Ahead(d)'
  BY <1>1, <1>2, <1>3 DEF Unconfirmed, Ahead
<1>8. ModalTruth'
  <2>1. \A f \in flights' : Modal!Counts(f)' /\ f.for # "activity" =>
           f.read = Absent \/ f.read = stored'[f.device] \/ Unconfirmed(f.device)'
    BY <1>1, <1>6, <1>7 DEF ModalInv, ModalTypes, Requests, ModalTruth, Modal!Counts, Unconfirmed
  <2>2. detail' # Absent /\ ~doubt' => detail'.look = stored'[selected'] \/ Modal!Waits' \/ Ahead(selected)'
    <3>1. detail # Absent => selected \in Devices
      BY DEF ModalInv, ModalTypes, Details
    <3> QED BY <1>1, <1>6, <1>7, <3>1 DEF ModalInv, ModalTruth, Modal!Waits, Modal!Counts, Ahead
  <2> QED BY <1>1, <1>2, <2>1, <2>2 DEF ModalTruth
<1> QED BY <1>4, <1>5, <1>8 DEF ModalInv

\* The confirmed write is read back under a token of its own.
LEMMA PutConfirmedKeeps ==
  ASSUME ModalConstants, ModalInv, Modal!PutConfirmed
  PROVE  ModalInv'
<1> PICK d : d = Head(appearanceQueue).device
  OBVIOUS
<1> PICK moved : moved = [work EXCEPT !.stage = "reload"]
  OBVIOUS
<1> PICK reload : reload = Modal!Request("reload", d)
  OBVIOUS
<1>1. /\ work # Absent /\ work \in Works /\ work.stage = "stored" /\ work' = moved
      /\ flights' = (IF selected = d THEN Modal!Outdated ELSE flights) \cup {reload}
      /\ UNCHANGED <<stored, selected, detail, activityLog, appearanceQueue, undo, doubt>>
  BY DEF Modal!PutConfirmed, Modal!AfterWrite, ModalInv, ModalTypes
<1>2. moved \in Works /\ moved.stage = "reload"
  BY <1>1 DEF Works
<1>3. work' # Absent
  BY <1>1, <1>2 DEF ModalConstants
<1>4. appearanceQueue \in Seq(Writes) /\ appearanceQueue # <<>>
  BY <1>1 DEF ModalInv, ModalTypes, ModalQueue
<1>5. d \in Devices
  <2>1. Head(appearanceQueue) \in Writes
    BY <1>4, HeadTailProperties
  <2> QED BY <2>1 DEF Writes, Stars, Restores, Choices
<1>6. /\ reload \in Requests /\ reload.for = "reload" /\ reload.device = d /\ reload.live
      /\ reload.read = Absent
  BY <1>5 DEF Modal!Request, Requests
<1>7. \A f \in flights : f.for # "reload"
  BY <1>1 DEF ModalInv, ModalQueue
<1>8. flights' \subseteq Requests /\ \A f \in flights' : f.for = "reload" => f = reload
  BY <1>1, <1>6, <1>7, OutdatedRequests DEF ModalInv, ModalTypes, Requests
<1>9. ModalTypes'
  BY <1>1, <1>2, <1>8 DEF ModalInv, ModalTypes
<1>10. ModalQueue'
  BY <1>1, <1>2, <1>3, <1>4, <1>6, <1>8 DEF ModalQueue
<1>11. \A f \in flights' : Modal!Counts(f)' => f = reload \/ (f \in flights /\ Modal!Counts(f) /\ f.device # d)
  BY <1>1, OutdatedRequests DEF ModalInv, ModalTypes, Modal!Counts
<1>12. ModalTruth'
  <2>1. \A f \in flights' : Modal!Counts(f)' /\ f.for # "activity" =>
           f.read = Absent \/ f.read = stored'[f.device] \/ Unconfirmed(f.device)'
    BY <1>1, <1>6, <1>11 DEF ModalInv, ModalTruth, Unconfirmed
  <2>2. detail' # Absent /\ ~doubt' => detail'.look = stored'[selected'] \/ Modal!Waits' \/ Ahead(selected)'
    <3>1. CASE selected = d
      BY <1>1, <1>6, <3>1 DEF Modal!Waits, Modal!Counts
    <3>2. CASE selected # d
      <4>1. Modal!Waits => Modal!Waits'
        BY <1>1, <3>2 DEF Modal!Waits, Modal!Counts
      <4> QED BY <1>1, <3>2, <4>1 DEF ModalInv, ModalTruth, Ahead
    <3> QED BY <3>1, <3>2
  <2> QED BY <1>1, <1>2, <2>1, <2>2 DEF ModalTruth
<1> QED BY <1>9, <1>10, <1>12 DEF ModalInv

\* A refused write is taken back to what it started from.
LEMMA PutRefusedKeeps ==
  ASSUME ModalConstants, ModalInv, Modal!PutRefused
  PROVE  ModalInv'
<1> PICK d : d = Head(appearanceQueue).device
  OBVIOUS
<1> DEFINE open == selected = d /\ detail # Absent
<1>1. /\ work # Absent /\ work \in Works /\ work.stage = "sent"
      /\ appearanceQueue' = Tail(appearanceQueue) /\ work' = Absent
      /\ Modal!Applied(d, work.before)
      /\ doubt' = IF open THEN work.doubt ELSE doubt
      /\ UNCHANGED <<stored, selected, activityLog, flights, undo>>
  BY DEF Modal!PutRefused, Modal!JobEnds, ModalInv, ModalTypes
<1>2. work.before \in Looks /\ work.doubt \in BOOLEAN
  BY <1>1 DEF Works
<1>3. appearanceQueue' \in Seq(Writes)
  BY <1>1, HeadTailProperties DEF ModalInv, ModalTypes, ModalQueue
<1>4. detail' \in Details \cup {Absent} /\ (detail' # Absent => detail'.device = selected')
  <2>1. CASE open
    BY <1>1, <1>2, <2>1 DEF Modal!Applied, ModalInv, ModalTypes, Details
  <2>2. CASE ~open
    BY <1>1, <2>2 DEF Modal!Applied, ModalInv, ModalTypes
  <2> QED BY <2>1, <2>2
<1>5. doubt' \in BOOLEAN
  BY <1>1, <1>2 DEF ModalInv, ModalTypes
<1>6. ModalTypes'
  BY <1>1, <1>3, <1>4, <1>5 DEF ModalInv, ModalTypes
<1>7. ModalQueue'
  BY <1>1 DEF ModalInv, ModalQueue
<1>8. ModalTruth'
  <2>1. \A f \in flights' : Modal!Counts(f)' /\ f.for # "activity" =>
           f.read = Absent \/ f.read = stored'[f.device] \/ Unconfirmed(f.device)'
    BY <1>1 DEF ModalInv, ModalTruth, Modal!Counts, Unconfirmed
  <2>2. detail' # Absent /\ ~doubt' => detail'.look = stored'[selected'] \/ Modal!Waits' \/ Ahead(selected)'
    <3>1. CASE open
      <4>1. detail'.look = work.before
        BY <1>1, <3>1 DEF Modal!Applied, ModalInv, ModalTypes, Details
      <4>2. doubt' <=> work.doubt
        BY <1>1, <3>1
      <4>3. ~work.doubt => work.before = stored[d]
        BY <1>1 DEF ModalInv, ModalTruth
      <4> QED BY <1>1, <3>1, <4>1, <4>2, <4>3
    <3>2. CASE ~open
      <4>1. detail' = detail /\ selected' = selected /\ stored' = stored /\ (doubt' <=> doubt)
        BY <1>1, <3>2 DEF Modal!Applied
      <4>2. Modal!Waits => Modal!Waits'
        BY <1>1 DEF Modal!Waits, Modal!Counts
      <4> QED BY <3>2, <4>1, <4>2 DEF ModalInv, ModalTruth, Ahead
    <3> QED BY <3>1, <3>2
  <2> QED BY <1>1, <2>1, <2>2 DEF ModalTruth
<1> QED BY <1>6, <1>7, <1>8 DEF ModalInv

\* The dialog keeps its invariant.
LEMMA ModalStepKeeps == ASSUME ModalConstants, ModalInv, [Modal!Next]_(Modal!modalVars) PROVE ModalInv'
<1>1. CASE UNCHANGED Modal!modalVars
  BY <1>1 DEF Modal!modalVars, ModalInv, ModalTypes, ModalQueue, ModalTruth, Modal!Waits, Modal!Counts, Unconfirmed, Ahead
<1>2. CASE Modal!Next
  <2>1. CASE \E d \in Devices : Modal!OpenDevice(d)
    BY <2>1, OpenDeviceKeeps
  <2>2. CASE Modal!RefreshSelectedDevice
    BY <2>2, RefreshKeeps
  <2>3. CASE Modal!CloseDeviceDetail
    BY <2>3, CloseKeeps
  <2>4. CASE \E f \in flights : Modal!Read(f)
    BY <2>4, ReadKeeps
  <2>5. CASE \E f \in flights : Modal!DetailArrives(f)
    BY <2>5, DetailArrivesKeeps
  <2>6. CASE \E f \in flights : Modal!ActivityArrives(f)
    BY <2>6, ActivityArrivesKeeps
  <2>7. CASE \E f \in flights : Modal!RequestFails(f)
    BY <2>7, RequestFailsKeeps
  <2>8. CASE \/ \E r \in Refs : Modal!ToggleFavorite(r)
             \/ \E i \in Icons : Modal!SaveIcon(i)
             \/ Modal!TakeBack
    BY <2>8, GesturesKeep
  <2>9. CASE Modal!StartJob
    BY <2>9, StartJobKeeps
  <2>10. CASE Modal!PutStored
    BY <2>10, PutStoredKeeps
  <2>11. CASE Modal!PutConfirmed
    BY <2>11, PutConfirmedKeeps
  <2>12. CASE Modal!PutRefused
    BY <2>12, PutRefusedKeeps
  <2> QED BY <1>2, <2>1, <2>2, <2>3, <2>4, <2>5, <2>6, <2>7, <2>8, <2>9, <2>10, <2>11, <2>12
          DEF Modal!Next
<1> QED BY <1>1, <1>2

\* The invariant of the dialog.
LEMMA ModalInvariance == ASSUME ModalConstants PROVE Modal!Spec => []ModalInv
<1>1. Modal!Init => ModalInv
  BY ModalInitHolds
<1>2. ModalInv /\ [Modal!Next]_(Modal!modalVars) => ModalInv'
  BY ModalStepKeeps
<1> QED BY <1>1, <1>2, PTL DEF Modal!Spec

\* When nothing is under way an open dialog shows what the server has, unless its last load failed or a
\* refused write had started before a load was answered, for any number of devices, gestures, pushes and failures.
THEOREM ShowsWhatIsStoredProof == ASSUME ModalConstants PROVE Modal!Spec => []Modal!ShowsWhatIsStored
<1>1. ModalInv => Modal!ShowsWhatIsStored
  <2> SUFFICES ASSUME ModalInv, flights = {}, appearanceQueue = <<>>, ~doubt, detail # Absent
               PROVE  detail.look = stored[selected]
    BY DEF Modal!ShowsWhatIsStored
  <2>1. work = Absent
    BY DEF ModalInv, ModalQueue
  <2> QED BY <2>1 DEF ModalInv, ModalTruth, Modal!Waits, Ahead
<1> QED BY <1>1, ModalInvariance, PTL

\* No device ever has more favourites than the limit, whatever is starred, taken back, refused or pushed in between.
THEOREM FavouritesAreFewProof == ASSUME ModalConstants PROVE Modal!Spec => []Modal!FavouritesAreFew
<1>1. ModalInv => Modal!FavouritesAreFew
  <2> SUFFICES ASSUME ModalInv, NEW d \in Devices
               PROVE  Modal!Cardinality(stored[d].favorite_refs) <= FavoriteLimit
    BY DEF Modal!FavouritesAreFew
  <2>1. stored[d].favorite_refs \in Favorites
    BY DEF ModalInv, ModalTypes, Looks
  <2> QED BY <2>1, ModalCounts DEF Favorites
<1> QED BY <1>1, ModalInvariance, PTL

\* Detail and activity on the screen are of the device the dialog is open for.
THEOREM ShowsTheDeviceProof == ASSUME ModalConstants PROVE Modal!Spec => []Modal!ShowsTheDevice
<1>1. ModalInv => Modal!ShowsTheDevice
  BY DEF ModalInv, ModalTypes, Modal!ShowsTheDevice
<1> QED BY <1>1, ModalInvariance, PTL

(***************************************************************************)
(* The user administration: accounts, the password policy, the pairing.    *)
(***************************************************************************)

CONSTANTS Catalog, Names, Self, First, Fresh, Policies, MaxWrites, MaxChanges, MaxLoads, MaxEdits
VARIABLES users, listed, desk, write, reads, pairing, others, writes

Users == INSTANCE UsersPage

\* What the node answers with: an account, or none, under every name, and a count of pairings.
IsList(list) ==
  /\ list = [accounts |-> list.accounts, ha |-> list.ha, presets |-> list.presets, guestAccess |-> list.guestAccess,
             policy |-> list.policy, companion |-> list.companion, code |-> list.code]
  /\ list.accounts = [n \in Names |-> list.accounts[n]]
  /\ list.companion = [paired |-> list.companion.paired, at |-> list.companion.at]
  /\ list.companion.at \in Nat

\* The node starts with an active administrator; no account has the name of another card.
UsersConstants ==
  /\ IsList(First) /\ Users!Admins(First.accounts) # {} /\ Fresh \in Names
  /\ Names \cap ({"", "new", "ha"} \cup Users!PresetIds) = {}

\* A request to the node is about an account, a preset, or neither.
IsWrite(w) ==
  /\ w = [op |-> w.op, id |-> w.id, draft |-> w.draft, value |-> w.value, phase |-> w.phase]
  /\ \/ w.op \in {"policy", "guest", "code", "drop", "unpair"} /\ w.id = ""
     \/ w.op = "create" /\ w.id = "new"
     \/ w.op \in {"save", "remove"} /\ w.id \in Users!Ids \ {"new"}

\* A list read earlier has no later pairing than the node.
IsPast(list) == list.companion.at \in Nat /\ list.companion.at <= users.companion.at

\* What is drafted, typed and under way on the page.
IsDesk(d) == d = [drafts |-> d.drafts, creating |-> d.creating, saving |-> d.saving,
                  policyDraft |-> d.policyDraft, guestAccess |-> d.guestAccess, edits |-> d.edits]

UsersTypes ==
  /\ IsList(users)
  /\ IsDesk(desk)
  /\ pairing = [code |-> pairing.code, wasPaired |-> pairing.wasPaired, baseline |-> pairing.baseline, late |-> pairing.late]
  /\ pairing.baseline \in Nat
  /\ write # Absent => IsWrite(write)

\* What the page knows of the pairing is of the past, and what it asked for since the code is there is no older
\* than what it knew then.
UsersTruth ==
  /\ Users!Admins(users.accounts) # {}
  /\ IsPast(listed) /\ \A list \in reads : IsPast(list)
  /\ pairing.baseline <= users.companion.at
  /\ \A list \in reads \ pairing.late : list.companion.at >= pairing.baseline

UsersInv == UsersTypes /\ UsersTruth

\* A write that is refused changes nothing; one that is stored leaves an administrator and the pairing.
LEMMA StoredKeeps ==
  ASSUME UsersConstants, NEW list, IsList(list), Users!Admins(list.accounts) # {}, NEW w, IsWrite(w)
  PROVE  /\ IsList(Users!Stored(list, w))
         /\ Users!Admins(Users!Stored(list, w).accounts) # {}
         /\ Users!Stored(list, w).companion.at = list.companion.at
<1> DEFINE new == Users!Stored(list, w)
<1>0. w.id = "" \/ w.id = "new" => w.id \notin Names \cup Users!PresetIds /\ w.id # "ha"
  BY DEF UsersConstants, Users!PresetIds
<1>1. CASE ~Users!Accepts(list, w)
  BY <1>1 DEF Users!Stored
<1>2. CASE Users!Accepts(list, w) /\ w.op \in {"policy", "guest", "code", "drop"}
  <2>1. \/ new = [list EXCEPT !.policy = w.value]
        \/ new = [list EXCEPT !.guestAccess = w.value]
        \/ new = [list EXCEPT !.code = TRUE]
        \/ new = [list EXCEPT !.code = FALSE]
    BY <1>0, <1>2 DEF Users!Stored, IsWrite
  <2> QED BY <2>1 DEF IsList
<1>3. CASE Users!Accepts(list, w) /\ w.op = "unpair"
  <2>1. new = [list EXCEPT !.companion.paired = FALSE]
    BY <1>0, <1>3 DEF Users!Stored, IsWrite
  <2>2. new.accounts = list.accounts /\ new.companion = [paired |-> FALSE, at |-> list.companion.at]
    BY <2>1 DEF IsList
  <2>3. IsList(new)
    BY <2>1, <2>2 DEF IsList
  <2> QED BY <2>2, <2>3
<1>4. CASE Users!Accepts(list, w) /\ w.op = "create"
  <2>1. PICK account : account = [roles |-> Users!Normalize(w.draft.roles), disabled |-> FALSE]
    OBVIOUS
  <2>2. w.id = "new"
    BY <1>4 DEF IsWrite
  <2>3. new = [list EXCEPT !.accounts[Fresh] = account]
    BY <1>0, <1>4, <2>1, <2>2 DEF Users!Stored
  <2>4. list.accounts[Fresh] = Absent
    BY <1>0, <1>4, <2>2 DEF Users!Accepts
  <2>5. new.accounts = [list.accounts EXCEPT ![Fresh] = account] /\ new.companion = list.companion
    BY <2>3 DEF IsList
  <2>6. IsList(new)
    BY <2>3, <2>5 DEF IsList
  <2>7. Users!Admins(list.accounts) \subseteq Users!Admins(new.accounts)
    BY <2>4, <2>5 DEF Users!Admins, IsList
  <2> QED BY <2>5, <2>6, <2>7
<1>5. CASE Users!Accepts(list, w) /\ w.op \in {"save", "remove"}
  <2>1. CASE w.id \in Users!PresetIds
    <3>1. PICK roles : roles = Users!Normalize(w.draft.roles)
      OBVIOUS
    <3>2. w.id # "ha"
      BY <2>1 DEF Users!PresetIds
    <3>3. new = [list EXCEPT !.presets[w.id] = roles]
      BY <1>5, <2>1, <3>1, <3>2 DEF Users!Stored
    <3> QED BY <3>3 DEF IsList
  <2>2. CASE w.id \notin Users!PresetIds /\ w.id = "ha"
    <3>1. PICK ha : ha = [list.ha EXCEPT !.roles = Users!Normalize(w.draft.roles), !.disabled = w.draft.disabled, !.custom = w.draft.custom]
      OBVIOUS
    <3>2. new = [list EXCEPT !.ha = ha]
      BY <1>5, <2>2, <3>1 DEF Users!Stored
    <3> QED BY <3>2 DEF IsList
  <2>3. CASE w.id \notin Users!PresetIds /\ w.id # "ha"
    <3>1. PICK accounts : accounts = Users!After(list, w)
      OBVIOUS
    <3>2. new = [list EXCEPT !.accounts = accounts]
      BY <1>5, <2>3, <3>1 DEF Users!Stored
    <3>3. accounts = [n \in Names |-> accounts[n]] /\ (w.id \notin Names => accounts = list.accounts)
      BY <3>1 DEF Users!After, IsList
    <3>4. w.id \in Names => Users!Admins(accounts) # {}
      BY <1>5, <3>1 DEF Users!Accepts, Users!AdminStays
    <3> QED BY <3>2, <3>3, <3>4 DEF IsList
  <2> QED BY <2>1, <2>2, <2>3
<1> QED BY <1>1, <1>2, <1>3, <1>4, <1>5 DEF IsWrite

\* What the page knew stays of the past when the node goes on.
LEMMA NodeGoesOn ==
  ASSUME UsersInv, IsList(users'), Users!Admins(users'.accounts) # {},
         users'.companion.at >= users.companion.at,
         UNCHANGED <<listed, reads>>,
         \/ UNCHANGED pairing
         \/ pairing' = [pairing EXCEPT !.code = FALSE]
         \/ pairing' = [code |-> TRUE, wasPaired |-> listed.companion.paired, baseline |-> listed.companion.at, late |-> reads],
         write' # Absent => IsWrite(write'),
         IsDesk(desk')
  PROVE  UsersInv'
<1>0. users.companion.at \in Nat /\ users'.companion.at \in Nat
  BY DEF UsersInv, UsersTypes, IsList
<1>1. IsPast(listed)' /\ \A list \in reads : IsPast(list)'
  BY <1>0 DEF UsersInv, UsersTruth, IsPast
<1>2. CASE pairing' = pairing \/ pairing' = [pairing EXCEPT !.code = FALSE]
  <2>1. /\ pairing'.baseline = pairing.baseline /\ pairing'.late = pairing.late
        /\ pairing' = [code |-> pairing'.code, wasPaired |-> pairing'.wasPaired, baseline |-> pairing'.baseline, late |-> pairing'.late]
    BY <1>2 DEF UsersInv, UsersTypes
  <2> QED BY <1>0, <1>1, <2>1 DEF UsersInv, UsersTypes, UsersTruth
<1>3. CASE pairing' = [code |-> TRUE, wasPaired |-> listed.companion.paired, baseline |-> listed.companion.at, late |-> reads]
  <2>1. pairing'.baseline = listed.companion.at /\ pairing'.late = reads
    BY <1>3
  <2>2. pairing' = [code |-> pairing'.code, wasPaired |-> pairing'.wasPaired, baseline |-> pairing'.baseline, late |-> pairing'.late]
    BY <1>3
  <2> QED BY <1>0, <1>1, <2>1, <2>2 DEF UsersInv, UsersTypes, UsersTruth, IsPast
<1> QED BY <1>2, <1>3

\* The page shows a list it read.
LEMMA ListIsShown ==
  ASSUME UsersInv, NEW list, IsPast(list), Users!Shown(list), UNCHANGED users,
         reads' \subseteq reads,
         write' # Absent => IsWrite(write'),
         IsDesk(desk')
  PROVE  UsersInv'
<1>1. PICK code : pairing' = [pairing EXCEPT !.code = code]
  BY DEF Users!Shown
<1>2. /\ pairing'.baseline = pairing.baseline /\ pairing'.late = pairing.late
      /\ pairing' = [code |-> pairing'.code, wasPaired |-> pairing'.wasPaired, baseline |-> pairing'.baseline, late |-> pairing'.late]
  BY <1>1 DEF UsersInv, UsersTypes
<1>3. listed' = list
  BY DEF Users!Shown
<1>4. \A l : IsPast(l)' <=> IsPast(l)
  BY DEF IsPast
<1>6. IsPast(listed)'
  BY <1>3 DEF IsPast
<1>7. UsersTypes'
  BY <1>2 DEF UsersInv, UsersTypes, IsList
<1>8. UsersTruth'
  BY <1>2, <1>4, <1>6 DEF UsersInv, UsersTruth
<1> QED BY <1>7, <1>8 DEF UsersInv

\* What changes the desk only.
LEMMA DeskKeeps ==
  ASSUME UsersInv, UNCHANGED <<users, listed, reads, pairing>>, IsDesk(desk'), write' # Absent => IsWrite(write')
  PROVE  UsersInv'
BY NodeGoesOn DEF IsDesk, UsersInv, UsersTypes, UsersTruth, IsList

\* Drafting changes the desk only.
LEMMA DraftingKeeps ==
  ASSUME UsersInv,
         \/ \E id \in Users!Ids :
              \/ \E r \in Users!Roles : Users!ToggleRole(id, r)
              \/ \E c \in {Catalog[r].category : r \in Users!Roles} : Users!ToggleGroup(id, c)
              \/ Users!SetActive(id)
              \/ Users!Discard(id)
         \/ Users!SetCustom
         \/ Users!StartCreate
         \/ Users!TypePolicy
  PROVE  UsersInv'
<1>0. IsDesk(desk) /\ (write # Absent => IsWrite(write))
  BY DEF IsDesk, UsersInv, UsersTypes
<1>1. ASSUME NEW id, NEW draft, Users!Edited(id, draft)
      PROVE  UsersInv'
  <2>1. IsDesk(desk')
    BY <1>0, <1>1 DEF Users!Edited, IsDesk
  <2> QED BY <1>0, <1>1, <2>1, DeskKeeps DEF Users!Edited
<1>2. ASSUME NEW id, Users!Discard(id)
      PROVE  UsersInv'
  <2>1. IsDesk(desk')
    BY <1>0, <1>2 DEF Users!Discard, IsDesk
  <2> QED BY <1>0, <1>2, <2>1, DeskKeeps DEF Users!Discard
<1>3. CASE Users!StartCreate
  <2>1. IsDesk(desk')
    BY <1>0, <1>3 DEF Users!StartCreate, IsDesk
  <2> QED BY <1>0, <1>3, <2>1, DeskKeeps DEF Users!StartCreate
<1>4. CASE Users!TypePolicy
  <2>1. IsDesk(desk')
    BY <1>0, <1>4 DEF Users!TypePolicy, IsDesk
  <2> QED BY <1>0, <1>4, <2>1, DeskKeeps DEF Users!TypePolicy
<1>5. CASE Users!SetCustom
  <2>1. PICK draft : Users!Edited("ha", draft)
    BY <1>5 DEF Users!SetCustom
  <2> QED BY <2>1, <1>1
<1>6. ASSUME NEW id, NEW r, Users!ToggleRole(id, r)
      PROVE  UsersInv'
  <2>1. PICK draft : Users!Edited(id, draft)
    BY <1>6 DEF Users!ToggleRole
  <2> QED BY <2>1, <1>1
<1>7. ASSUME NEW id, NEW c, Users!ToggleGroup(id, c)
      PROVE  UsersInv'
  <2>1. PICK draft : Users!Edited(id, draft)
    BY <1>7 DEF Users!ToggleGroup
  <2> QED BY <2>1, <1>1
<1>8. ASSUME NEW id, Users!SetActive(id)
      PROVE  UsersInv'
  <2>1. PICK draft : Users!Edited(id, draft)
    BY <1>8 DEF Users!SetActive
  <2> QED BY <2>1, <1>1
<1> QED BY <1>2, <1>3, <1>4, <1>5, <1>6, <1>7, <1>8

\* A request is made, asked for and may fail; the node does not know of it.
LEMMA SendingKeeps ==
  ASSUME UsersConstants, UsersInv,
         \/ \E id \in Users!Ids : Users!Save(id) \/ Users!RemoveUser(id)
         \/ Users!Confirm
         \/ Users!SavePolicy
         \/ Users!SaveGuestAccess
         \/ Users!CreatePairingCode
         \/ Users!DropPairingCode
         \/ Users!Unpair
         \/ Users!Failed
  PROVE  UsersInv'
<1>0. IsDesk(desk) /\ (write # Absent => IsWrite(write))
  BY DEF IsDesk, UsersInv, UsersTypes
<1>11. UNCHANGED users => IsList(users') /\ Users!Admins(users'.accounts) # {} /\ users'.companion.at >= users.companion.at
  BY DEF UsersInv, UsersTypes, UsersTruth, IsList
<1>1. ASSUME NEW w, IsWrite(w), Users!Sent(w), IsDesk(desk')
      PROVE  UsersInv'
  BY <1>1, DeskKeeps DEF Users!Sent
<1>2. ASSUME NEW id \in Users!Ids, Users!Save(id)
      PROVE  UsersInv'
  <2>1. IsDesk(desk')
    BY <1>0, <1>2 DEF Users!Save, IsDesk
  <2>2. PICK draft, phase : Users!Sent([op |-> IF id = "new" THEN "create" ELSE "save", id |-> id, draft |-> draft,
                                       value |-> Absent, phase |-> phase])
    BY <1>2 DEF Users!Save
  <2>3. PICK w : w = [op |-> IF id = "new" THEN "create" ELSE "save", id |-> id, draft |-> draft, value |-> Absent, phase |-> phase]
    OBVIOUS
  <2>4. IsWrite(w)
    BY <2>3 DEF IsWrite
  <2> QED BY <1>1, <2>1, <2>2, <2>3, <2>4
<1>3. ASSUME NEW id \in Users!Ids, Users!RemoveUser(id)
      PROVE  UsersInv'
  <2>1. PICK w : w = [op |-> "remove", id |-> id, draft |-> Absent, value |-> Absent, phase |-> "confirm"]
    OBVIOUS
  <2>2. Users!Sent(w) /\ desk' = desk /\ id \in Names \ {Self}
    BY <1>3, <2>1 DEF Users!RemoveUser
  <2>3. IsWrite(w)
    BY <1>3, <2>1, <2>2 DEF IsWrite, UsersConstants
  <2> QED BY <1>0, <1>1, <2>2, <2>3 DEF IsDesk
<1>4. CASE Users!Confirm
  <2>1. IsDesk(desk') /\ (write' # Absent => IsWrite(write'))
    BY <1>0, <1>4 DEF Users!Confirm, IsDesk, IsWrite
  <2>2. pairing' = pairing \/ pairing' = [pairing EXCEPT !.code = FALSE]
    BY <1>4 DEF Users!Confirm
  <2>3. UNCHANGED <<users, listed, reads>>
    BY <1>4 DEF Users!Confirm
  <2> QED BY <1>11, <2>1, <2>2, <2>3, NodeGoesOn
<1>5. CASE Users!SavePolicy
  <2>1. PICK w : w = [op |-> "policy", id |-> "", draft |-> Absent, value |-> desk.policyDraft, phase |-> "put"]
    OBVIOUS
  <2>2. IsWrite(w) /\ Users!Sent(w)
    BY <1>5, <2>1 DEF Users!SavePolicy, IsWrite
  <2> QED BY <1>0, <1>1, <1>5, <2>2 DEF Users!SavePolicy, IsDesk
<1>6. CASE Users!SaveGuestAccess
  <2>1. PICK w : w = [op |-> "guest", id |-> "", draft |-> Absent, value |-> ~desk.guestAccess, phase |-> "put"]
    OBVIOUS
  <2>2. IsWrite(w) /\ Users!Sent(w)
    BY <1>6, <2>1 DEF Users!SaveGuestAccess, IsWrite
  <2>3. IsDesk(desk')
    BY <1>0, <1>6 DEF Users!SaveGuestAccess, IsDesk
  <2> QED BY <1>1, <2>2, <2>3
<1>7. CASE Users!CreatePairingCode
  <2>1. PICK w : w = [op |-> "code", id |-> "", draft |-> Absent, value |-> Absent, phase |-> "put"]
    OBVIOUS
  <2>2. IsWrite(w) /\ Users!Sent(w)
    BY <1>7, <2>1 DEF Users!CreatePairingCode, IsWrite
  <2> QED BY <1>0, <1>1, <1>7, <2>2 DEF Users!CreatePairingCode, IsDesk
<1>8. CASE Users!DropPairingCode
  <2>1. IsWrite(write')
    BY <1>8 DEF Users!DropPairingCode, IsWrite
  <2>2. pairing' = [pairing EXCEPT !.code = FALSE]
    BY <1>8 DEF Users!DropPairingCode
  <2>3. UNCHANGED <<users, listed, desk, reads>>
    BY <1>8 DEF Users!DropPairingCode
  <2>4. IsDesk(desk')
    BY <1>0, <2>3 DEF IsDesk
  <2> QED BY <1>11, <2>1, <2>2, <2>3, <2>4, NodeGoesOn
<1>9. CASE Users!Unpair
  <2>1. PICK w : w = [op |-> "unpair", id |-> "", draft |-> Absent, value |-> Absent, phase |-> "confirm"]
    OBVIOUS
  <2>2. IsWrite(w) /\ Users!Sent(w)
    BY <1>9, <2>1 DEF Users!Unpair, IsWrite
  <2> QED BY <1>0, <1>1, <1>9, <2>2 DEF Users!Unpair, IsDesk
<1>10. CASE Users!Failed
  <2>1. IsDesk(desk')
    BY <1>0, <1>10 DEF Users!Failed, IsDesk
  <2> QED BY <1>10, <2>1, DeskKeeps DEF Users!Failed
<1> QED BY <1>2, <1>3, <1>4, <1>5, <1>6, <1>7, <1>8, <1>9, <1>10

\* The node stores a request, its code expires or is used, another administrator changes an account.
LEMMA NodeKeeps ==
  ASSUME UsersConstants, UsersInv,
         Users!Answered \/ Users!CodeExpires \/ Users!CompanionPairs \/ Users!OtherAdmin
  PROVE  UsersInv'
<1>0. /\ IsDesk(desk) /\ (write # Absent => IsWrite(write))
      /\ IsList(users) /\ Users!Admins(users.accounts) # {} /\ users.companion.at \in Nat
  BY DEF IsDesk, UsersInv, UsersTypes, UsersTruth, IsList
<1>1. CASE Users!Answered
  <2>1. IsList(users') /\ Users!Admins(users'.accounts) # {} /\ users'.companion.at = users.companion.at
    BY <1>0, <1>1, StoredKeeps DEF Users!Answered
  <2>2. IsDesk(desk') /\ (write' # Absent => IsWrite(write'))
    BY <1>0, <1>1 DEF Users!Answered, IsDesk, IsWrite
  <2>3. \/ UNCHANGED pairing
        \/ pairing' = [code |-> TRUE, wasPaired |-> listed.companion.paired, baseline |-> listed.companion.at, late |-> reads]
    BY <1>1 DEF Users!Answered
  <2>4. users'.companion.at >= users.companion.at /\ UNCHANGED <<listed, reads>>
    <3>1. UNCHANGED <<listed, reads>>
      BY <1>1 DEF Users!Answered
    <3> QED BY <1>0, <2>1, <3>1
  <2> QED BY <2>1, <2>2, <2>3, <2>4, NodeGoesOn
<1>2. CASE Users!CodeExpires
  <2>1. users' = [users EXCEPT !.code = FALSE] /\ pairing' = [pairing EXCEPT !.code = FALSE]
    BY <1>2 DEF Users!CodeExpires
  <2>2. IsList(users') /\ users'.accounts = users.accounts /\ users'.companion = users.companion
    BY <1>0, <2>1 DEF IsList
  <2> QED BY <1>0, <1>2, <2>1, <2>2, NodeGoesOn DEF Users!CodeExpires, IsDesk
<1>3. CASE Users!CompanionPairs
  <2>1. PICK now : now = [paired |-> TRUE, at |-> users.companion.at + 1]
    OBVIOUS
  <2>2. users' = [users EXCEPT !.code = FALSE, !.companion = now]
    BY <1>3, <2>1 DEF Users!CompanionPairs
  <2>3. users'.accounts = users.accounts /\ users'.companion = now
    BY <1>0, <2>2 DEF IsList
  <2>4. now.at = users.companion.at + 1 /\ now.at \in Nat /\ now = [paired |-> now.paired, at |-> now.at]
    BY <1>0, <2>1
  <2>5. IsList(users')
    BY <1>0, <2>2, <2>3, <2>4 DEF IsList
  <2>6. users'.companion.at >= users.companion.at /\ UNCHANGED <<listed, reads, pairing, desk, write>>
    BY <1>0, <1>3, <2>3, <2>4 DEF Users!CompanionPairs
  <2>7. IsDesk(desk')
    BY <1>0, <2>6 DEF IsDesk
  <2> QED BY <1>0, <2>3, <2>5, <2>6, <2>7, NodeGoesOn
<1>4. CASE Users!OtherAdmin
  <2>1. PICK n \in Names, roles \in {{}, Users!Roles} :
          users' = Users!Stored(users, [op |-> "save", id |-> n, value |-> Absent,
                                       draft |-> [roles |-> roles, disabled |-> FALSE, custom |-> FALSE]])
    BY <1>4 DEF Users!OtherAdmin
  <2>2. PICK w : w = [op |-> "save", id |-> n, value |-> Absent,
                      draft |-> [roles |-> roles, disabled |-> FALSE, custom |-> FALSE], phase |-> "put"]
    OBVIOUS
  <2>3. IsWrite(w)
    BY <2>2 DEF IsWrite, Users!Ids, UsersConstants
  <2>4. users' = Users!Stored(users, w)
    BY <2>1, <2>2 DEF Users!Stored, Users!Accepts, Users!After
  <2>5. IsList(users') /\ Users!Admins(users'.accounts) # {} /\ users'.companion.at = users.companion.at
    BY <1>0, <2>3, <2>4, StoredKeeps
  <2>6. users'.companion.at >= users.companion.at /\ UNCHANGED <<listed, reads, pairing, desk, write>>
    BY <1>0, <1>4, <2>5 DEF Users!OtherAdmin
  <2>7. IsDesk(desk')
    BY <1>0, <2>6 DEF IsDesk
  <2> QED BY <1>0, <2>5, <2>6, <2>7, NodeGoesOn
<1> QED BY <1>1, <1>2, <1>3, <1>4

\* The page reads the list: at the end of a write, or while a code is shown.
LEMMA ReadingKeeps ==
  ASSUME UsersInv, Users!Reloaded \/ Users!PairingTick \/ Users!TickRead
  PROVE  UsersInv'
<1>0. IsDesk(desk) /\ IsPast(users) /\ (\A list \in reads : IsPast(list)) /\ (write # Absent => IsWrite(write))
  BY DEF IsDesk, UsersInv, UsersTypes, UsersTruth, IsList, IsPast
<1>1. CASE Users!Reloaded
  <2>1. IsDesk(desk') /\ write' = Absent
    BY <1>1 DEF Users!Reloaded, IsDesk
  <2>2. CASE Users!Shown(users)
    BY <1>0, <1>1, <2>1, <2>2, ListIsShown DEF Users!Reloaded, IsDesk
  <2>3. CASE UNCHANGED <<listed, pairing>>
    BY <1>1, <2>1, <2>3, DeskKeeps DEF Users!Reloaded
  <2> QED BY <1>1, <2>2, <2>3 DEF Users!Reloaded
<1>2. CASE Users!PairingTick
  <2>1. reads' = reads \cup {users} /\ UNCHANGED <<users, listed, desk, write, pairing>>
    BY <1>2 DEF Users!PairingTick
  <2>2. \A list \in reads' : IsPast(list)'
    BY <1>0, <2>1 DEF IsPast
  <2>3. users.companion.at >= pairing.baseline
    BY DEF UsersInv, UsersTypes, UsersTruth, IsList
  <2> QED BY <2>1, <2>2, <2>3 DEF UsersInv, UsersTypes, UsersTruth, IsList, IsPast
<1>3. CASE Users!TickRead
  <2>1. PICK list \in reads :
          /\ reads' = reads \ {list} /\ Users!Shown(list) /\ UNCHANGED <<users, write>>
          /\ desk' = [desk EXCEPT !.policyDraft = Users!PolicyAfter(list), !.guestAccess = list.guestAccess]
    BY <1>3 DEF Users!TickRead
  <2>2. IsDesk(desk')
    BY <1>0, <2>1 DEF IsDesk
  <2> QED BY <1>0, <2>1, <2>2, ListIsShown DEF IsDesk
<1> QED BY <1>1, <1>2, <1>3

\* The invariant holds at first.
LEMMA UsersInitHolds == ASSUME UsersConstants, Users!Init PROVE UsersInv
<1>1. users = First /\ listed = First /\ IsList(First) /\ Users!Admins(First.accounts) # {}
  BY DEF UsersConstants, Users!Init
<1>2. reads = {} /\ write = Absent /\ pairing = [code |-> FALSE, wasPaired |-> FALSE, baseline |-> 0, late |-> {}]
  BY DEF Users!Init
<1>3. IsDesk(desk)
  BY DEF Users!Init, IsDesk
<1>4. UsersTypes
  BY <1>1, <1>2, <1>3 DEF UsersTypes
<1>5. First.companion.at \in Nat /\ pairing.baseline = 0
  BY <1>1, <1>2 DEF IsList
<1>6. UsersTruth
  BY <1>1, <1>2, <1>5 DEF UsersTruth, IsPast
<1> QED BY <1>4, <1>6 DEF UsersInv

\* Every step of the page and of the node keeps it.
LEMMA UsersInvariance == ASSUME UsersConstants PROVE Users!Spec => []UsersInv
<1>1. Users!Init => UsersInv
  BY UsersInitHolds
<1>2. UsersInv /\ [Users!Next]_(Users!usersVars) => UsersInv'
  <2> SUFFICES ASSUME UsersInv, [Users!Next]_(Users!usersVars)
               PROVE  UsersInv'
    OBVIOUS
  <2>1. CASE UNCHANGED Users!usersVars
    BY <2>1 DEF Users!usersVars, UsersInv, UsersTypes, UsersTruth, IsDesk, IsList, IsPast, IsWrite
  <2> QED BY <2>1, DraftingKeeps, SendingKeeps, NodeKeeps, ReadingKeeps DEF Users!Next, Users!Drafting
<1> QED BY <1>1, <1>2, PTL DEF Users!Spec

\* Whatever drafts are saved in whatever order, whoever else changes the accounts meanwhile, somebody active
\* can still administer the users.
THEOREM AdminRemainsProof == ASSUME UsersConstants PROVE Users!Spec => []Users!AdminRemains
<1>1. UsersInv => Users!AdminRemains
  BY DEF UsersInv, UsersTruth, Users!AdminRemains
<1> QED BY <1>1, UsersInvariance, PTL

\* A code for pairing once more is taken away only for a pairing the page did not know when the code was made,
\* unless a list asked for before that comes late, for any number of reads, codes and pairings.
THEOREM CodeStaysUntilPairedProof ==
  ASSUME UsersConstants
  PROVE  Users!Spec => [][Users!CodeStaysUntilPaired]_(Users!usersVars)
<1> DEFINE pageVars == Users!usersVars
<1>1. UsersInv /\ [Users!Next]_pageVars => [Users!CodeStaysUntilPaired]_pageVars
  <2> SUFFICES ASSUME UsersInv, Users!Next, pairing.code, ~pairing'.code,
                      NEW list \in reads \ pairing.late, reads' = reads \ {list}
               PROVE  listed'.companion.paired /\ (~pairing.wasPaired \/ listed'.companion.at > pairing.baseline)
    BY DEF Users!CodeStaysUntilPaired
  <2>1. Users!TickRead
    BY DEF Users!Next, Users!Drafting, Users!ToggleRole, Users!ToggleGroup, Users!SetActive, Users!Edited, Users!Discard, Users!Save,
           Users!RemoveUser, Users!SetCustom, Users!StartCreate, Users!TypePolicy, Users!Confirm, Users!SavePolicy,
           Users!SaveGuestAccess, Users!CreatePairingCode, Users!DropPairingCode, Users!Unpair, Users!Answered,
           Users!Failed, Users!Reloaded, Users!PairingTick, Users!CodeExpires, Users!CompanionPairs,
           Users!OtherAdmin, Users!Sent
  <2>2. PICK read \in reads : reads' = reads \ {read} /\ Users!Shown(read)
    BY <2>1 DEF Users!TickRead
  <2>3. read = list
    BY <2>2
  <2>4. listed' = list /\ pairing'.code = (pairing.code /\ ~Users!PairingDone(list))
    BY <2>2, <2>3 DEF Users!Shown, UsersInv, UsersTypes
  <2>5. list.companion.paired /\ (~pairing.wasPaired \/ list.companion.at # pairing.baseline)
    BY <2>4 DEF Users!PairingDone
  <2>6. list.companion.at >= pairing.baseline /\ list.companion.at \in Nat /\ pairing.baseline \in Nat
    BY DEF UsersInv, UsersTypes, UsersTruth, IsPast
  <2>7. list.companion.at # pairing.baseline => list.companion.at > pairing.baseline
    BY <2>6
  <2> QED BY <2>4, <2>5, <2>7
<1> QED BY <1>1, UsersInvariance, PTL DEF Users!Spec

\* What is typed as the policy survives every list that is read, whichever of them comes and when.
THEOREM PolicyDraftStaysProof ==
  ASSUME UsersConstants
  PROVE  Users!Spec => [][Users!PolicyDraftStays]_(Users!usersVars)
<1> DEFINE pageVars == Users!usersVars
<1>1. UsersInv /\ [Users!Next]_pageVars => [Users!PolicyDraftStays]_pageVars
  <2> SUFFICES ASSUME UsersInv, Users!Next, Users!PolicyDirty, listed' # listed
               PROVE  desk'.policyDraft = desk.policyDraft
    BY DEF Users!PolicyDraftStays
  <2>1. Users!TickRead \/ Users!Reloaded
    BY DEF Users!Next, Users!Drafting, Users!ToggleRole, Users!ToggleGroup, Users!SetActive, Users!Edited, Users!Discard, Users!Save,
           Users!RemoveUser, Users!SetCustom, Users!StartCreate, Users!TypePolicy, Users!Confirm, Users!SavePolicy,
           Users!SaveGuestAccess, Users!CreatePairingCode, Users!DropPairingCode, Users!Unpair, Users!Answered,
           Users!Failed, Users!PairingTick, Users!CodeExpires, Users!CompanionPairs, Users!OtherAdmin, Users!Sent
  <2>2. \A list : Users!PolicyAfter(list) = desk.policyDraft
    BY DEF Users!PolicyAfter
  <2>3. CASE Users!TickRead
    BY <2>2, <2>3 DEF Users!TickRead, UsersInv, UsersTypes, IsDesk
  <2>4. CASE Users!Reloaded
    <3>1. \E drafts, creating, guest, count :
            desk' = [drafts |-> drafts, creating |-> creating, saving |-> "",
                     policyDraft |-> Users!PolicyAfter(users), guestAccess |-> guest, edits |-> count]
      BY <2>4, ZenonT(30) DEF Users!Reloaded
    <3>2. PICK typed, drafts, creating, guest, count :
            /\ typed = Users!PolicyAfter(users)
            /\ desk' = [drafts |-> drafts, creating |-> creating, saving |-> "",
                        policyDraft |-> typed, guestAccess |-> guest, edits |-> count]
      BY <3>1, Zenon
    <3> QED BY <2>2, <3>2
  <2> QED BY <2>1, <2>3, <2>4
<1> QED BY <1>1, UsersInvariance, PTL DEF Users!Spec

(***************************************************************************)
(* The running values on the automations page.                             *)
(***************************************************************************)

CONSTANTS Kinds, Ranges, MaxMessages, MaxFlights
VARIABLES latest, running, lastMessageAt, shown, online, overtaken, visible, chartRange, chartPoints

Live == INSTANCE AutomationsLive

\* A request carries the numbers the server answered with, none ahead of the service.
IsRequest(f) ==
  /\ f.to \in Kinds \cup {"device"}
  /\ f.at \in [Kinds -> Nat]
  /\ \A kind \in Kinds : f.at[kind] <= latest[kind]

LiveTypes ==
  /\ latest \in [Kinds -> Nat] /\ lastMessageAt \in [Kinds -> Nat] /\ shown \in [Kinds -> Nat]
  /\ overtaken \in [Kinds -> BOOLEAN]
  /\ \A f \in flights : IsRequest(f)
  /\ \A kind \in Kinds : lastMessageAt[kind] <= latest[kind]

\* A document the page acted on is shown, or one as new is on its way.
IsComing(kind) == \E f \in Live!Flying(kind) : f.at[kind] >= lastMessageAt[kind]
LiveTruth ==
  /\ \A kind \in Kinds : ~overtaken[kind] => shown[kind] >= lastMessageAt[kind] \/ IsComing(kind)
  /\ chartPoints \in {Absent, chartRange} \/ chartRange \in reads

LiveInv == LiveTypes /\ LiveTruth

\* At first no number is known to anybody.
LEMMA LiveInitHolds == ASSUME Live!Init PROVE LiveInv
<1>1. \A kind \in Kinds : overtaken[kind] = FALSE
  BY DEF Live!Init
<1>2. overtaken \in [Kinds -> BOOLEAN]
  BY DEF Live!Init
<1>3. \A kind \in Kinds : shown[kind] = 0 /\ lastMessageAt[kind] = 0 /\ latest[kind] = 0
  BY DEF Live!Init, Live!Zero
<1>4. latest \in [Kinds -> Nat] /\ lastMessageAt \in [Kinds -> Nat] /\ shown \in [Kinds -> Nat]
  BY DEF Live!Init, Live!Zero
<1> QED BY <1>2, <1>3, <1>4 DEF Live!Init, LiveInv, LiveTypes, LiveTruth

\* The service goes on, and the chart reads its ranges.
LEMMA AroundKeeps ==
  ASSUME LiveInv,
         \/ \E kind \in Kinds : Live!Message(kind)
         \/ Live!ServiceComesOrGoes
         \/ Live!ShowOrHide
         \/ Live!ScenarioTick
         \/ \E range \in Ranges : Live!SetChartRange(range) \/ Live!ChartRead(range)
  PROVE  LiveInv'
<1>1. CASE \E kind \in Kinds : Live!Message(kind)
  <2>1. PICK sender \in Kinds : Live!Message(sender)
    BY <1>1
  <2>2. latest' = [latest EXCEPT ![sender] = latest[sender] + 1] /\ latest \in [Kinds -> Nat]
    BY <2>1 DEF Live!Message, LiveInv, LiveTypes
  <2>3. latest' \in [Kinds -> Nat] /\ \A kind \in Kinds : latest'[kind] >= latest[kind]
    BY <2>2
  <2>4. UNCHANGED <<lastMessageAt, shown, flights, overtaken, chartRange, chartPoints, reads>>
    BY <2>1 DEF Live!Message, Live!chartVars
  <2>5. \A f \in flights : IsRequest(f)'
    BY <2>2, <2>3 DEF LiveInv, LiveTypes, IsRequest
  <2>6. \A kind \in Kinds : lastMessageAt[kind] <= latest'[kind]
    BY <2>2, <2>3 DEF LiveInv, LiveTypes
  <2> QED BY <2>3, <2>4, <2>5, <2>6 DEF LiveInv, LiveTypes, LiveTruth, IsComing, Live!Flying
<1>2. ASSUME UNCHANGED <<latest, lastMessageAt, shown, flights, overtaken>>,
             (chartPoints \in {Absent, chartRange} \/ chartRange \in reads)'
      PROVE  LiveInv'
  BY <1>2 DEF LiveInv, LiveTypes, LiveTruth, IsRequest, IsComing, Live!Flying
<1>3. CASE Live!ServiceComesOrGoes \/ Live!ShowOrHide
  BY <1>2, <1>3 DEF Live!ServiceComesOrGoes, Live!ShowOrHide, Live!chartVars, LiveInv, LiveTruth
<1>4. CASE Live!ScenarioTick
  BY <1>2, <1>4 DEF Live!ScenarioTick
<1>5. ASSUME NEW range \in Ranges, Live!SetChartRange(range) \/ Live!ChartRead(range)
      PROVE  LiveInv'
  BY <1>2, <1>5 DEF Live!SetChartRange, Live!ChartRead, LiveInv, LiveTruth
<1> QED BY <1>1, <1>3, <1>4, <1>5

\* The device as it was answered starts a request for every document that is new.
LEMMA DeviceKeeps ==
  ASSUME "device" \notin Kinds, LiveInv, NEW f \in flights,
         Live!ApplyRuntimeState(f) \/ \E flag \in BOOLEAN : Live!DeviceFails(f, flag)
  PROVE  LiveInv'
<1>0. f.to = "device" /\ f.at \in [Kinds -> Nat] /\ \A kind \in Kinds : f.at[kind] <= latest[kind]
  BY DEF Live!ApplyRuntimeState, Live!DeviceFails, Live!Flying, LiveInv, LiveTypes, IsRequest
<1>1. CASE Live!ApplyRuntimeState(f)
  <2> DEFINE new == {kind \in Kinds : f.at[kind] # lastMessageAt[kind]}
             request(kind) == [to |-> kind, at |-> latest, up |-> TRUE]
  <2>1. /\ lastMessageAt' = f.at
        /\ flights' = (flights \ {f}) \cup {request(kind) : kind \in new}
        /\ UNCHANGED <<latest, shown, overtaken, chartRange, chartPoints, reads>>
    BY <1>1 DEF Live!ApplyRuntimeState, Live!chartVars
  <2>2. \A kind \in Kinds : IsRequest(request(kind))
    BY DEF IsRequest, LiveInv, LiveTypes
  <2>3. \A g \in flights' : IsRequest(g)'
    <3>1. \A g : IsRequest(g) => IsRequest(g)'
      BY <2>1 DEF IsRequest
    <3> QED BY <2>1, <2>2, <3>1 DEF LiveInv, LiveTypes
  <2>4. LiveTypes'
    BY <1>0, <2>1, <2>3 DEF LiveInv, LiveTypes
  <2>5. ASSUME NEW kind \in Kinds, ~overtaken'[kind]
        PROVE  shown'[kind] >= lastMessageAt'[kind] \/ IsComing(kind)'
    <3>1. CASE kind \in new
      <4> PICK r : r = request(kind)
        OBVIOUS
      <4>1. r \in flights' /\ r.to = kind /\ r.at = latest
        BY <2>1, <3>1
      <4>2. latest[kind] >= lastMessageAt'[kind]
        BY <1>0, <2>1 DEF LiveInv, LiveTypes
      <4> QED BY <4>1, <4>2 DEF IsComing, Live!Flying
    <3>2. CASE kind \notin new
      <4>1. lastMessageAt'[kind] = lastMessageAt[kind]
        BY <2>1, <3>2
      <4>2. Live!Flying(kind) \subseteq Live!Flying(kind)'
        BY <1>0, <2>1 DEF Live!Flying
      <4>3. shown[kind] >= lastMessageAt[kind] \/ IsComing(kind)
        BY <2>1, <2>5 DEF LiveInv, LiveTruth
      <4> QED BY <2>1, <4>1, <4>2, <4>3 DEF IsComing
    <3> QED BY <3>1, <3>2
  <2>6. LiveTruth'
    BY <2>1, <2>5 DEF LiveInv, LiveTruth
  <2> QED BY <2>4, <2>6 DEF LiveInv
<1>2. ASSUME NEW flag \in BOOLEAN, Live!DeviceFails(f, flag)
      PROVE  LiveInv'
  <2>1. /\ flights' = flights \ {f}
        /\ UNCHANGED <<latest, lastMessageAt, shown, overtaken, chartRange, chartPoints, reads>>
    BY <1>2 DEF Live!DeviceFails, Live!chartVars
  <2>2. LiveTypes'
    BY <2>1 DEF LiveInv, LiveTypes, IsRequest
  <2>3. \A kind \in Kinds : Live!Flying(kind)' = Live!Flying(kind)
    BY <1>0, <2>1 DEF Live!Flying
  <2>4. LiveTruth'
    BY <2>1, <2>3 DEF LiveInv, LiveTruth, IsComing
  <2> QED BY <2>2, <2>4 DEF LiveInv
<1> QED BY <1>1, <1>2

\* A document that comes is at least as new as what was acted on, or it is known to be late.
LEMMA DocumentKeeps ==
  ASSUME "device" \notin Kinds, LiveInv, NEW f \in flights,
         Live!DocumentFails(f) \/ \E flag \in BOOLEAN : Live!ApplyDocument(f, flag)
  PROVE  LiveInv'
<1> PICK mine : mine = f.to
  OBVIOUS
<1>0. mine \in Kinds /\ f.at \in [Kinds -> Nat] /\ \A kind \in Kinds : f.at[kind] <= latest[kind]
  BY DEF Live!DocumentFails, Live!ApplyDocument, LiveInv, LiveTypes, IsRequest
<1>1. \A kind \in Kinds : kind # mine => Live!Flying(kind) \subseteq flights \ {f}
  BY DEF Live!Flying
<1>2. CASE Live!DocumentFails(f)
  <2>1. /\ flights' = flights \ {f}
        /\ lastMessageAt' = [lastMessageAt EXCEPT ![mine] = 0]
        /\ UNCHANGED <<latest, shown, overtaken, chartRange, chartPoints, reads>>
    BY <1>2 DEF Live!DocumentFails, Live!chartVars
  <2>2. LiveTypes'
    BY <1>0, <2>1 DEF LiveInv, LiveTypes, IsRequest
  <2>3. ASSUME NEW kind \in Kinds, ~overtaken'[kind]
        PROVE  shown'[kind] >= lastMessageAt'[kind] \/ IsComing(kind)'
    <3>1. CASE kind = mine
      BY <2>1, <3>1 DEF LiveInv, LiveTypes
    <3>2. CASE kind # mine
      <4>1. lastMessageAt'[kind] = lastMessageAt[kind] /\ shown'[kind] = shown[kind]
        BY <2>1, <3>2 DEF LiveInv, LiveTypes
      <4>2. Live!Flying(kind) \subseteq Live!Flying(kind)'
        BY <1>1, <2>1, <3>2 DEF Live!Flying
      <4>3. shown[kind] >= lastMessageAt[kind] \/ IsComing(kind)
        BY <2>1, <2>3 DEF LiveInv, LiveTruth
      <4> QED BY <4>1, <4>2, <4>3 DEF IsComing
    <3> QED BY <3>1, <3>2
  <2>4. LiveTruth'
    BY <2>1, <2>3 DEF LiveInv, LiveTruth
  <2> QED BY <2>2, <2>4 DEF LiveInv
<1>3. ASSUME NEW blank \in BOOLEAN, Live!ApplyDocument(f, blank)
      PROVE  LiveInv'
  <2> DEFINE late == blank \/ f.at[mine] < shown[mine] \/ (overtaken[mine] /\ f.at[mine] < latest[mine])
  <2>1. /\ flights' = flights \ {f}
        /\ shown' = IF blank THEN shown ELSE [shown EXCEPT ![mine] = f.at[mine]]
        /\ UNCHANGED <<latest, lastMessageAt, chartRange, chartPoints, reads>>
    BY <1>3 DEF Live!ApplyDocument, Live!chartVars
  <2>2. overtaken' = [overtaken EXCEPT ![mine] = late]
    BY <1>3 DEF Live!ApplyDocument
  <2>3. late \in BOOLEAN
    OBVIOUS
  <2>4. overtaken'[mine] = late /\ overtaken' \in [Kinds -> BOOLEAN]
    BY <1>0, <2>2, <2>3 DEF LiveInv, LiveTypes
  <2>5. \A kind \in Kinds : kind # mine => overtaken'[kind] = overtaken[kind]
    BY <2>2 DEF LiveInv, LiveTypes
  <2>6. shown' \in [Kinds -> Nat]
    BY <1>0, <2>1 DEF LiveInv, LiveTypes
  <2>7. \A g \in flights' : IsRequest(g)'
    BY <2>1 DEF LiveInv, LiveTypes, IsRequest
  <2>8. LiveTypes'
    BY <2>1, <2>4, <2>6, <2>7 DEF LiveInv, LiveTypes
  <2>9. ASSUME NEW kind \in Kinds, ~overtaken'[kind]
        PROVE  shown'[kind] >= lastMessageAt'[kind] \/ IsComing(kind)'
    <3>1. CASE kind = mine
      <4>1. ~late
        BY <2>4, <2>9, <3>1
      <4>2. shown'[mine] = f.at[mine] /\ lastMessageAt'[mine] = lastMessageAt[mine]
        BY <1>0, <2>1, <4>1 DEF LiveInv, LiveTypes
      <4>3. /\ f.at[mine] \in Nat /\ shown[mine] \in Nat /\ latest[mine] \in Nat
            /\ lastMessageAt[mine] \in Nat /\ lastMessageAt[mine] <= latest[mine]
        BY <1>0 DEF LiveInv, LiveTypes
      <4>4. f.at[mine] >= shown[mine]
        BY <4>1, <4>3
      <4>5. CASE overtaken[mine]
        <5>1. ~(f.at[mine] < latest[mine])
          BY <4>1, <4>5
        <5> QED BY <3>1, <4>2, <4>3, <5>1
      <4>6. CASE ~overtaken[mine] /\ shown[mine] >= lastMessageAt[mine]
        BY <3>1, <4>2, <4>3, <4>4, <4>6
      <4>7. CASE ~overtaken[mine] /\ IsComing(mine)
        <5>1. PICK g \in Live!Flying(mine) : g.at[mine] >= lastMessageAt[mine]
          BY <4>7 DEF IsComing
        <5>2. CASE g = f
          BY <3>1, <4>2, <5>1, <5>2
        <5>3. CASE g # f
          BY <2>1, <3>1, <4>2, <5>1, <5>3 DEF IsComing, Live!Flying
        <5> QED BY <5>2, <5>3
      <4> QED BY <1>0, <4>5, <4>6, <4>7 DEF LiveInv, LiveTruth
    <3>2. CASE kind # mine
      <4>1. lastMessageAt'[kind] = lastMessageAt[kind] /\ shown'[kind] = shown[kind]
        BY <2>1, <3>2 DEF LiveInv, LiveTypes
      <4>2. Live!Flying(kind) \subseteq Live!Flying(kind)'
        BY <1>1, <2>1, <3>2 DEF Live!Flying
      <4>3. shown[kind] >= lastMessageAt[kind] \/ IsComing(kind)
        BY <2>5, <2>9, <3>2 DEF LiveInv, LiveTruth
      <4> QED BY <4>1, <4>2, <4>3 DEF IsComing
    <3> QED BY <3>1, <3>2
  <2>10. LiveTruth'
    BY <2>1, <2>9 DEF LiveInv, LiveTruth
  <2> QED BY <2>8, <2>10 DEF LiveInv
<1> QED BY <1>2, <1>3

\* Every step of the page and of the service.
LEMMA LiveStepKeeps ==
  ASSUME "device" \notin Kinds, LiveInv, [Live!Next]_(Live!liveVars)
  PROVE  LiveInv'
<1>1. CASE UNCHANGED Live!liveVars
  BY <1>1 DEF Live!liveVars, Live!chartVars, LiveInv, LiveTypes, LiveTruth, IsRequest, IsComing, Live!Flying
<1>2. CASE Live!RefreshFromRegistry
  <2> PICK new : new = [to |-> "device", at |-> latest, up |-> running]
    OBVIOUS
  <2>1. /\ flights' = flights \cup {new}
        /\ UNCHANGED <<latest, lastMessageAt, shown, overtaken, chartRange, chartPoints, reads>>
    BY <1>2 DEF Live!RefreshFromRegistry, Live!chartVars
  <2>2. LiveTypes'
    BY <2>1 DEF LiveInv, LiveTypes, IsRequest
  <2>3. \A kind \in Kinds : Live!Flying(kind) \subseteq Live!Flying(kind)'
    BY <2>1 DEF Live!Flying
  <2>4. LiveTruth'
    BY <2>1, <2>3 DEF LiveInv, LiveTruth, IsComing
  <2> QED BY <2>2, <2>4 DEF LiveInv
<1> QED BY <1>1, <1>2, AroundKeeps, DeviceKeeps, DocumentKeeps DEF Live!Next

\* The invariant of the running values.
LEMMA LiveInvariance == ASSUME "device" \notin Kinds PROVE Live!Spec => []LiveInv
<1>1. Live!Init => LiveInv
  BY LiveInitHolds
<1>2. LiveInv /\ [Live!Next]_(Live!liveVars) => LiveInv'
  BY LiveStepKeeps
<1> QED BY <1>1, <1>2, PTL DEF Live!Spec

\* With no request for a document under way the page shows the message it acted on or a later one, unless an
\* answer was blank or overtaken, for any number of documents, messages and requests in any order.
THEOREM ShowsWhatItSawProof == ASSUME "device" \notin Kinds PROVE Live!Spec => []Live!ShowsWhatItSaw
<1>1. LiveInv => Live!ShowsWhatItSaw
  BY DEF LiveInv, LiveTruth, IsComing, Live!ShowsWhatItSaw
<1> QED BY <1>1, LiveInvariance, PTL

\* With no read under way the chart shows the range that is wanted, whichever ranges were chosen and read before.
THEOREM ChartIsOfItsRangeProof == ASSUME "device" \notin Kinds PROVE Live!Spec => []Live!ChartIsOfItsRange
<1>1. LiveInv => Live!ChartIsOfItsRange
  BY DEF LiveInv, LiveTruth, Live!ChartIsOfItsRange
<1> QED BY <1>1, LiveInvariance, PTL

(***************************************************************************)
(* The automations page: what it shows, saves and tests.                   *)
(***************************************************************************)

CONSTANTS Ids, Bodies
VARIABLES document, savedDocument, storedDocument, server, service, saving, sent, told, editing,
          editSnapshot, newIds, testing, asked, mayEdit, edits

Automations == INSTANCE AutomationsPage

\* A document has an entry, or none, under every id.
IsDocument(d) == d = [id \in Ids |-> d[id]]

AutomationsTypes ==
  /\ IsDocument(document) /\ IsDocument(savedDocument)
  /\ IsDocument(storedDocument) /\ IsDocument(server)
  /\ saving = "put" => IsDocument(sent)
  /\ mayEdit \in BOOLEAN /\ doubt \in BOOLEAN

\* Nobody changed what is shown since the request was built, and so what will count as saved
\* is what the server gets; a service that did not reject runs what it read.
AutomationsTruth ==
  /\ ~doubt => savedDocument = server
  /\ saving = "put" /\ mayEdit /\ ~doubt => sent = document
  /\ ~service.rejected => service.document = service.revision

AutomationsInv == AutomationsTypes /\ AutomationsTruth

\* The page counts as the library does.
LEMMA AutomationsCounts == \A S : Automations!Cardinality(S) = Cardinality(S)
BY DEF Automations!Cardinality, Cardinality

\* At first nothing is changed and nothing is sent.
LEMMA AutomationsInitHolds == ASSUME Automations!Init PROVE AutomationsInv
<1>1. IsDocument(Automations!Loaded)
  BY DEF IsDocument, Automations!Loaded
<1>2. AutomationsTypes
  BY <1>1, Zenon DEF Automations!Init, AutomationsTypes
<1>3. AutomationsTruth
  BY DEF Automations!Init, AutomationsTruth
<1> QED BY <1>2, <1>3 DEF AutomationsInv

\* One entry of a document is replaced.
LEMMA DocumentWith ==
  ASSUME NEW d, IsDocument(d), NEW id, NEW entry
  PROVE  IsDocument([d EXCEPT ![id] = entry])
BY DEF IsDocument

\* What the user does changes the page only, and during a save leaves a doubt.
LEMMA ActsKeep ==
  ASSUME AutomationsInv, Automations!Acts, IsDocument(document'),
         UNCHANGED <<savedDocument, storedDocument, server, saving, sent, service, mayEdit>>
  PROVE  AutomationsInv'
<1>1. doubt' <=> (doubt \/ saving \in {"catalog", "put"})
  BY DEF Automations!Acts
<1>2. doubt' \in BOOLEAN
  BY DEF Automations!Acts
<1>3. AutomationsTypes'
  BY <1>2 DEF AutomationsInv, AutomationsTypes, IsDocument
<1>4. AutomationsTruth'
  BY <1>1 DEF AutomationsInv, AutomationsTruth
<1> QED BY <1>3, <1>4 DEF AutomationsInv

\* Editing keeps documents documents.
LEMMA EditingKeeps ==
  ASSUME AutomationsInv, NEW id \in Ids,
         \/ Automations!StartEditing(id)
         \/ Automations!StopEditing(id)
         \/ Automations!DiscardEditing(id)
         \/ Automations!ToggleEnabled(id)
         \/ Automations!InsertEntry(id)
         \/ Automations!RemoveEntry(id)
         \/ Automations!TestRule(id)
         \/ \E body \in Bodies : Automations!Edit(id, body)
  PROVE  AutomationsInv'
<1> USE DEF Automations!saveVars, Automations!fixedVars
<1>0. IsDocument(document)
  BY DEF AutomationsInv, AutomationsTypes
<1>1. ASSUME Automations!StartEditing(id) \/ Automations!StopEditing(id) \/ Automations!TestRule(id)
      PROVE  AutomationsInv'
  <2>1. UNCHANGED <<document, savedDocument, storedDocument, server, saving, sent, service, mayEdit, doubt>>
    BY <1>1 DEF Automations!StartEditing, Automations!StopEditing, Automations!TestRule
  <2> QED BY <2>1 DEF AutomationsInv, AutomationsTypes, AutomationsTruth, IsDocument
<1>2. CASE Automations!DiscardEditing(id)
  <2>1. IsDocument(document')
    BY <1>0, <1>2, DocumentWith DEF Automations!DiscardEditing
  <2> QED BY <1>2, <2>1, ActsKeep DEF Automations!DiscardEditing
<1>3. CASE Automations!ToggleEnabled(id)
  <2>1. IsDocument(document')
    BY <1>0, <1>3, DocumentWith DEF Automations!ToggleEnabled
  <2> QED BY <1>3, <2>1, ActsKeep DEF Automations!ToggleEnabled
<1>4. CASE Automations!InsertEntry(id)
  <2>1. IsDocument(document')
    BY <1>0, <1>4, DocumentWith DEF Automations!InsertEntry
  <2> QED BY <1>4, <2>1, ActsKeep DEF Automations!InsertEntry
<1>5. CASE Automations!RemoveEntry(id)
  <2>1. IsDocument(document')
    BY <1>0, <1>5, DocumentWith DEF Automations!RemoveEntry
  <2> QED BY <1>5, <2>1, ActsKeep DEF Automations!RemoveEntry
<1>6. ASSUME NEW body \in Bodies, Automations!Edit(id, body)
      PROVE  AutomationsInv'
  <2>1. IsDocument(document')
    BY <1>0, <1>6, DocumentWith DEF Automations!Edit
  <2> QED BY <1>6, <2>1, ActsKeep DEF Automations!Edit
<1> QED BY <1>1, <1>2, <1>3, <1>4, <1>5, <1>6

\* Saving: what is sent, what is stored, what is taken for saved.
LEMMA SavingKeeps ==
  ASSUME AutomationsInv,
         \/ Automations!Save
         \/ Automations!SaveOperate
         \/ Automations!PutOk
         \/ \E flag \in BOOLEAN : Automations!SaveSends(flag) \/ Automations!PutFails(flag)
  PROVE  AutomationsInv'
<1> USE DEF Automations!fixedVars
<1>1. CASE Automations!Save
  BY <1>1 DEF Automations!Save, AutomationsInv, AutomationsTypes, AutomationsTruth, IsDocument
<1>2. CASE Automations!SaveOperate
  <2>1. IsDocument(sent')
    BY <1>2 DEF Automations!SaveOperate, Automations!OperatePayload, IsDocument
  <2>2. ~mayEdit'
    BY <1>2 DEF Automations!SaveOperate
  <2> QED BY <1>2, <2>1, <2>2 DEF Automations!SaveOperate, AutomationsInv, AutomationsTypes, AutomationsTruth, IsDocument
<1>3. CASE Automations!PutOk
  <2>1. saving' = "status" /\ server' = sent /\ storedDocument' = sent /\ IsDocument(sent)
    BY <1>3 DEF Automations!PutOk, AutomationsInv, AutomationsTypes
  <2>2. savedDocument' = IF mayEdit THEN document ELSE sent
    BY <1>3 DEF Automations!PutOk
  <2>3. ~doubt => savedDocument' = sent
    BY <1>3, <2>2 DEF Automations!PutOk, AutomationsInv, AutomationsTruth
  <2>4. IsDocument(savedDocument')
    BY <2>1, <2>2 DEF AutomationsInv, AutomationsTypes
  <2> QED BY <1>3, <2>1, <2>3, <2>4 DEF Automations!PutOk, AutomationsInv, AutomationsTypes, AutomationsTruth, IsDocument
<1>4. ASSUME NEW flag \in BOOLEAN, Automations!SaveSends(flag)
      PROVE  AutomationsInv'
  BY <1>4 DEF Automations!SaveSends, AutomationsInv, AutomationsTypes, AutomationsTruth, IsDocument
<1>5. ASSUME NEW flag \in BOOLEAN, Automations!PutFails(flag)
      PROVE  AutomationsInv'
  <2>1. (doubt' <=> (doubt \/ flag)) /\ doubt' \in BOOLEAN
    BY <1>5 DEF Automations!PutFails
  <2>2. server' = (IF flag THEN sent ELSE server) /\ IsDocument(server')
    BY <1>5 DEF Automations!PutFails, AutomationsInv, AutomationsTypes
  <2> QED BY <1>5, <2>1, <2>2 DEF Automations!PutFails, AutomationsInv, AutomationsTypes, AutomationsTruth, IsDocument
<1> QED BY <1>1, <1>2, <1>3, <1>4, <1>5

\* Every step of the page, of the server and of the service.
LEMMA AutomationsStepKeeps ==
  ASSUME AutomationsInv, [Automations!Next]_(Automations!automationsVars)
  PROVE  AutomationsInv'
<1> DEFINE same == UNCHANGED <<document, savedDocument, storedDocument, server, saving, sent, mayEdit, doubt>>
<1> USE DEF Automations!saveVars, Automations!fixedVars
<1>0. ASSUME same, ~service'.rejected => service'.document = service'.revision
      PROVE  AutomationsInv'
  BY <1>0 DEF AutomationsInv, AutomationsTypes, AutomationsTruth, IsDocument
<1>1. ASSUME same, service' = service
      PROVE  AutomationsInv'
  BY <1>0, <1>1 DEF AutomationsInv, AutomationsTruth
<1> HIDE DEF same
<1>2. CASE UNCHANGED Automations!automationsVars
  BY <1>1, <1>2 DEF Automations!automationsVars, same
<1>3. ASSUME Automations!UndoInsert
      PROVE  AutomationsInv'
  <2>1. IsDocument(document')
    BY <1>3, DocumentWith DEF Automations!UndoInsert, AutomationsInv, AutomationsTypes
  <2> QED BY <1>3, <2>1, ActsKeep DEF Automations!UndoInsert
<1>4. ASSUME Automations!UndoExpires \/ Automations!TestAction
      PROVE  AutomationsInv'
  BY <1>1, <1>4 DEF Automations!UndoExpires, Automations!TestAction, same
<1>5. ASSUME Automations!Demoted
      PROVE  AutomationsInv'
  BY <1>5 DEF Automations!Demoted, AutomationsInv, AutomationsTypes, AutomationsTruth, IsDocument
<1>6. ASSUME NEW flag \in BOOLEAN, Automations!WatchEnds(flag)
      PROVE  AutomationsInv'
  BY <1>6 DEF Automations!WatchEnds, AutomationsInv, AutomationsTypes, AutomationsTruth, IsDocument
<1>7. ASSUME NEW flag \in BOOLEAN, Automations!ServiceLoads(flag)
      PROVE  AutomationsInv'
  <2>1. same
    BY <1>7 DEF Automations!ServiceLoads, same
  <2>2. ~service'.rejected => service'.document = service'.revision
    BY <1>7 DEF Automations!ServiceLoads
  <2> QED BY <1>0, <2>1, <2>2
<1> QED BY <1>2, <1>3, <1>4, <1>5, <1>6, <1>7, EditingKeeps, SavingKeeps DEF Automations!Next

\* The invariant of the automations page.
LEMMA AutomationsInvariance == Automations!Spec => []AutomationsInv
<1>1. Automations!Init => AutomationsInv
  BY AutomationsInitHolds
<1>2. AutomationsInv /\ [Automations!Next]_(Automations!automationsVars) => AutomationsInv'
  BY AutomationsStepKeeps
<1> QED BY <1>1, <1>2, PTL DEF Automations!Spec

\* As long as nothing was changed during a save and no answer was lost, the page takes for saved what the
\* server has, and shows just that when it counts no change, for any number of entries, contents and edits.
THEOREM CountsWhatIsStoredProof ==
  ASSUME IsFiniteSet(Ids)
  PROVE  Automations!Spec => []Automations!CountsWhatIsStored
<1>1. AutomationsInv => Automations!CountsWhatIsStored
  <2> SUFFICES ASSUME AutomationsInv, ~doubt
               PROVE  savedDocument = server /\ (Automations!UnsavedCount = 0 => document = server)
    BY DEF Automations!CountsWhatIsStored
  <2> DEFINE unsaved == {id \in Ids : document[id] # savedDocument[id]}
  <2>1. savedDocument = server
    BY DEF AutomationsInv, AutomationsTruth
  <2>2. Automations!UnsavedCount = Cardinality(unsaved)
    BY AutomationsCounts DEF Automations!UnsavedCount, Automations!Dirty
  <2>3. IsFiniteSet(unsaved)
    BY FS_Subset
  <2>4. Automations!UnsavedCount = 0 => unsaved = {}
    BY <2>2, <2>3, FS_EmptySet
  <2>5. unsaved = {} => document = savedDocument
    BY DEF AutomationsInv, AutomationsTypes, IsDocument
  <2> QED BY <2>1, <2>4, <2>5
<1> QED BY <1>1, AutomationsInvariance, PTL

\* Each action of a test asks only for a rule the server has as it is shown.
THEOREM TestsWhatIsStoredProof ==
  Automations!Spec => [][Automations!TestsWhatIsStored]_(Automations!automationsVars)
<1> DEFINE pageVars == Automations!automationsVars
<1>1. AutomationsInv /\ [Automations!Next]_pageVars => [Automations!TestsWhatIsStored]_pageVars
  <2> SUFFICES ASSUME AutomationsInv, Automations!Next, asked' # asked, ~doubt
               PROVE  asked'.shown = server[asked'.id]
    BY DEF Automations!TestsWhatIsStored
  <2>1. Automations!TestAction
    BY DEF Automations!Next, Automations!StartEditing, Automations!StopEditing, Automations!DiscardEditing,
           Automations!ToggleEnabled, Automations!InsertEntry, Automations!RemoveEntry, Automations!TestRule,
           Automations!Edit, Automations!UndoInsert, Automations!UndoExpires, Automations!Demoted,
           Automations!Save, Automations!SaveOperate, Automations!PutOk, Automations!SaveSends,
           Automations!PutFails, Automations!WatchEnds, Automations!ServiceLoads, Automations!testVars
  <2>2. /\ document[testing.id] = savedDocument[testing.id]
        /\ asked' = [id |-> testing.id, shown |-> document[testing.id]]
    BY <2>1 DEF Automations!TestAction, Automations!Permitted, Automations!Dirty
  <2> QED BY <2>2 DEF AutomationsInv, AutomationsTruth
<1> QED BY <1>1, AutomationsInvariance, PTL DEF Automations!Spec

\* "Applied" is told only of the very document the service runs.
THEOREM AppliedIsLoadedProof ==
  Automations!Spec => [][Automations!AppliedIsLoaded]_(Automations!automationsVars)
<1> DEFINE pageVars == Automations!automationsVars
<1>1. AutomationsInv /\ [Automations!Next]_pageVars => [Automations!AppliedIsLoaded]_pageVars
  <2> SUFFICES ASSUME AutomationsInv, Automations!Next, told' # told, told'.state = "applied"
               PROVE  service.document = told'.revision
    BY DEF Automations!AppliedIsLoaded
  <2>0. Automations!Save \/ \E flag \in BOOLEAN : Automations!WatchEnds(flag)
    BY Zenon DEF Automations!Next, Automations!StartEditing, Automations!StopEditing, Automations!DiscardEditing,
           Automations!ToggleEnabled, Automations!InsertEntry, Automations!RemoveEntry, Automations!TestRule,
           Automations!Edit, Automations!UndoInsert, Automations!UndoExpires, Automations!Demoted,
           Automations!SaveOperate, Automations!PutOk, Automations!SaveSends, Automations!PutFails,
           Automations!TestAction, Automations!ServiceLoads, Automations!saveVars
  <2>1. PICK flag \in BOOLEAN : Automations!WatchEnds(flag)
    <3>1. ~Automations!Save
      BY DEF Automations!Save
    <3> QED BY <2>0, <3>1
  <2>2. told'.revision = sent /\ Automations!Classify(sent) = "applied"
    BY <2>1 DEF Automations!WatchEnds
  <2>3. service.revision = sent /\ ~service.rejected
    BY <2>2 DEF Automations!Classify
  <2> QED BY <2>2, <2>3 DEF AutomationsInv, AutomationsTruth
<1> QED BY <1>1, AutomationsInvariance, PTL DEF Automations!Spec

(***************************************************************************)
(* One automation being edited.                                            *)
(***************************************************************************)

CONSTANTS Entities, MaxParts
VARIABLES conditions, actions, repeats, regulator, emptied, picker, topics

Draft == INSTANCE AutomationDraft

ConditionKinds == {"balance", "entity", "time"}
Regulators == [output : Draft!Names \cup {Absent}, direction : {"producer", "consumer"},
               base : {"last", "balance", "entity"}, fallback : {"set", ""}]
Pickers == [for : {"add", "action", "condition", "actuator", "meter"}, at : Nat]

\* "none" is no device, a regulator or a picker is not the value for none, and a device has its two switches.
DraftConstants ==
  /\ Absent \notin Draft!Names /\ Absent \notin Regulators /\ Absent \notin Pickers
  /\ \A id \in Draft!Names : Entities[id].switch \in BOOLEAN /\ Entities[id].bounds \in BOOLEAN

\* An action has the keys its source reads and no others, and a toggle is of a switch.
Actions ==
  [type : {"publish", "notification"}, entity : Draft!Names \cup {Absent}, topic : Draft!Names \cup {Absent, ""},
   source : {"constant", "toggle", "balance", "none"}, payload : {"none", "empty", "number", "on", "off"},
   field : BOOLEAN, bounds : BOOLEAN]
Fits(a) ==
  a.type = "publish" => /\ a.field <=> a.source = "balance"
                        /\ (a.payload # "none") <=> a.source = "constant"
                        /\ a.source = "toggle" => a.entity \in Draft!Names /\ Entities[a.entity].switch
FitActions == {a \in Actions : Fits(a)}

\* A condition has what it compares with.
Conditions == [type : ConditionKinds, comparison : {"above", "below", "equals", "not_equals", "stale", "none"},
               value : BOOLEAN, maxAge : BOOLEAN, entity : Draft!Names \cup {Absent}]
FitConditions ==
  {c \in Conditions : c.type # "time" => IF c.comparison = "stale" THEN c.maxAge ELSE c.value /\ ~c.maxAge}

DraftInv ==
  /\ actions \in Seq(FitActions)
  /\ conditions \in Seq(FitConditions)
  /\ regulator \in Regulators \cup {Absent}
  /\ emptied \in BOOLEAN
  /\ picker \in Pickers \cup {Absent}
  /\ topics \in [Draft!Names -> Draft!Names \cup {Absent}]
  /\ (picker # Absent /\ picker.for \in {"actuator", "meter"}) => regulator # Absent
  /\ Draft!ProducerHasFallback

\* A list without one of its parts is a list of the same things.
LEMMA CutIsAList ==
  ASSUME NEW S, NEW s \in Seq(S), NEW k \in DOMAIN s
  PROVE  Draft!RemoveAt(s, k) \in Seq(S)
<1>1. k \in 1 .. Len(s) /\ Len(s) \in Nat
  OBVIOUS
<1>2. SubSeq(s, 1, k - 1) \in Seq(S)
  BY <1>1, SubSeqProperties
<1>3. SubSeq(s, k + 1, Len(s)) \in Seq(S)
  BY <1>1, SubSeqProperties
<1> QED BY <1>2, <1>3, ConcatProperties DEF Draft!RemoveAt

\* So is one of which a part is exchanged, wherever that is.
LEMMA ExchangedIsAList ==
  ASSUME NEW S, NEW s \in Seq(S), NEW k, NEW e, k \in DOMAIN s => e \in S
  PROVE  [s EXCEPT ![k] = e] \in Seq(S)
<1>1. CASE k \in DOMAIN s
  <2>1. k \in 1 .. Len(s)
    BY <1>1
  <2> QED BY <1>1, <2>1, ExceptSeq
<1>2. CASE k \notin DOMAIN s
  <2>1. [s EXCEPT ![k] = e] = s
    BY <1>2
  <2> QED BY <2>1
<1> QED BY <1>1, <1>2

\* The actions that are built fit.
LEMMA BuiltFits ==
  ASSUME DraftConstants, DraftInv, NEW id \in Draft!Names
  PROVE  /\ \A state \in {"on", "off"} : Draft!BuildSwitchAction(id, state) \in FitActions
         /\ Entities[id].switch => Draft!BuildToggleAction(id) \in FitActions
         /\ \A balance \in BOOLEAN, payload \in {"empty", "number", "on", "off"} :
              Draft!BuildSetpointAction(id, balance, payload) \in FitActions
         /\ Draft!BuildMqttAction \in FitActions
         /\ Draft!BuildNotification \in FitActions
<1>0. topics[id] \in Draft!Names \cup {Absent}
  BY DEF DraftInv
<1>1. ASSUME NEW state \in {"on", "off"} PROVE Draft!BuildSwitchAction(id, state) \in FitActions
  BY <1>0 DEF Draft!BuildSwitchAction, Draft!Publish, FitActions, Fits, Actions
<1>2. ASSUME Entities[id].switch PROVE Draft!BuildToggleAction(id) \in FitActions
  BY <1>0, <1>2 DEF Draft!BuildToggleAction, Draft!Publish, FitActions, Fits, Actions
<1>3. ASSUME NEW balance \in BOOLEAN, NEW payload \in {"empty", "number", "on", "off"}
      PROVE  Draft!BuildSetpointAction(id, balance, payload) \in FitActions
  BY <1>0 DEF Draft!BuildSetpointAction, Draft!Publish, FitActions, Fits, Actions, DraftConstants
<1>4. Draft!BuildMqttAction \in FitActions
  BY DEF Draft!BuildMqttAction, Draft!Publish, FitActions, Fits, Actions
<1>5. Draft!BuildNotification \in FitActions
  BY DEF Draft!BuildNotification, Draft!Publish, FitActions, Fits, Actions
<1> QED BY <1>1, <1>2, <1>3, <1>4, <1>5

\* What is a switch's action is of a switch.
LEMMA SwitchIsASwitch ==
  ASSUME DraftConstants, DraftInv, NEW a \in FitActions, Draft!ActionKind(a) = "switch", Draft!ActionEntity(a) # Absent
  PROVE  Draft!ActionEntity(a) \in Draft!Names /\ Entities[Draft!ActionEntity(a)].switch
<1>1. Draft!ActionEntity(a) \in Draft!Names
  BY DEF Draft!ActionEntity, Draft!Known
<1>2. CASE a.source = "toggle"
  <2>1. a.type = "publish"
    BY DEF Draft!ActionEntity
  <2>2. a.entity \in Draft!Names /\ Entities[a.entity].switch
    BY <1>2, <2>1 DEF FitActions, Fits
  <2>3. Draft!ActionEntity(a) = a.entity
    BY <2>1, <2>2 DEF Draft!ActionEntity, DraftConstants
  <2> QED BY <2>2, <2>3
<1>3. CASE a.source # "toggle"
  BY <1>1, <1>3 DEF Draft!ActionKind
<1> QED BY <1>1, <1>2, <1>3

\* The buttons of the actions.
LEMMA ActionsKeep ==
  ASSUME DraftConstants, DraftInv,
         \/ \E kind \in {"notify", "mqtt"} : Draft!AddPlainAction(kind)
         \/ \E i \in 1 .. MaxParts :
              \/ Draft!RemoveAction(i)
              \/ \E state \in {"on", "off", "toggle"} : Draft!SetSwitchState(i, state)
              \/ \E mode \in {"balance", "constant"} : Draft!SetSetpointSource(i, mode)
              \/ \E id \in Draft!Names : Draft!TypeTopic(i, id)
  PROVE  DraftInv'
<1>1. UNCHANGED <<conditions, regulator, emptied, picker, topics>>
  BY DEF Draft!AddPlainAction, Draft!RemoveAction, Draft!SetSwitchState, Draft!SetSetpointSource, Draft!TypeTopic,
         Draft!regulatorVars
<1>2. SUFFICES actions' \in Seq(FitActions)
  BY <1>1 DEF DraftInv, Draft!ProducerHasFallback
<1>3. ASSUME NEW kind \in {"notify", "mqtt"}, Draft!AddPlainAction(kind) PROVE actions' \in Seq(FitActions)
  <2>1. Draft!BuildMqttAction \in FitActions /\ Draft!BuildNotification \in FitActions
    <3>1. Draft!BuildMqttAction \in FitActions
      BY DEF Draft!BuildMqttAction, Draft!Publish, FitActions, Fits, Actions
    <3>2. Draft!BuildNotification \in FitActions
      BY DEF Draft!BuildNotification, Draft!Publish, FitActions, Fits, Actions
    <3> QED BY <3>1, <3>2
  <2> PICK new : new = IF kind = "notify" THEN Draft!BuildNotification ELSE Draft!BuildMqttAction
    OBVIOUS
  <2>2. new \in FitActions /\ actions' = Append(actions, new) /\ actions \in Seq(FitActions)
    BY <1>3, <2>1 DEF Draft!AddPlainAction, DraftInv
  <2> QED BY <2>2, AppendProperties
<1>4. ASSUME NEW i \in 1 .. MaxParts, Draft!RemoveAction(i) PROVE actions' \in Seq(FitActions)
  <2>1. i \in DOMAIN actions /\ actions' = Draft!RemoveAt(actions, i) /\ actions \in Seq(FitActions)
    BY <1>4 DEF Draft!RemoveAction, DraftInv
  <2> QED BY <2>1, CutIsAList
<1>5. ASSUME NEW i \in 1 .. MaxParts, NEW state \in {"on", "off", "toggle"}, Draft!SetSwitchState(i, state)
      PROVE  actions' \in Seq(FitActions)
  <2> PICK id : id = Draft!ActionEntity(actions[i])
    OBVIOUS
  <2>1. i \in DOMAIN actions /\ id # Absent /\ Draft!ActionKind(actions[i]) = "switch"
    BY <1>5 DEF Draft!SetSwitchState
  <2>2. actions[i] \in FitActions
    BY <2>1 DEF DraftInv
  <2>3. id \in Draft!Names /\ Entities[id].switch
    BY <2>1, <2>2, SwitchIsASwitch
  <2> PICK new : new = IF state = "toggle" THEN Draft!BuildToggleAction(id) ELSE Draft!BuildSwitchAction(id, state)
    OBVIOUS
  <2>4. new \in FitActions
    BY <2>3, BuiltFits
  <2>5. actions' = [actions EXCEPT ![i] = new] /\ actions \in Seq(FitActions)
    BY <1>5 DEF Draft!SetSwitchState, DraftInv
  <2> QED BY <2>4, <2>5, ExchangedIsAList
<1>6. ASSUME NEW i \in 1 .. MaxParts, NEW mode \in {"balance", "constant"}, Draft!SetSetpointSource(i, mode)
      PROVE  actions' \in Seq(FitActions)
  <2>1. i \in DOMAIN actions /\ actions' = [actions EXCEPT ![i] = Draft!FromSource(actions[i], mode)]
    BY <1>6 DEF Draft!SetSetpointSource
  <2>2. actions[i] \in FitActions
    BY <2>1 DEF DraftInv
  <2>3. Draft!FromSource(actions[i], mode) \in FitActions
    BY <2>2 DEF Draft!FromSource, FitActions, Fits, Actions
  <2> QED BY <2>1, <2>3, ExchangedIsAList DEF DraftInv
<1>7. ASSUME NEW i \in 1 .. MaxParts, NEW id \in Draft!Names, Draft!TypeTopic(i, id) PROVE actions' \in Seq(FitActions)
  <2> PICK new : new = [actions[i] EXCEPT !.topic = topics[id]]
    OBVIOUS
  <2>1. i \in DOMAIN actions /\ actions' = [actions EXCEPT ![i] = new]
    BY <1>7 DEF Draft!TypeTopic
  <2>0. actions \in Seq(FitActions) /\ topics[id] \in Draft!Names \cup {Absent}
    BY DEF DraftInv
  <2>2. actions[i] \in FitActions
    BY <2>0, <2>1
  <2>3. new \in FitActions
    BY <2>0, <2>2 DEF FitActions, Fits, Actions
  <2> QED BY <2>1, <2>3, ExchangedIsAList DEF DraftInv
<1> QED BY <1>3, <1>4, <1>5, <1>6, <1>7

\* The buttons of the conditions.
LEMMA ConditionsKeep ==
  ASSUME DraftConstants, DraftInv,
         \/ \E type \in ConditionKinds : Draft!AddCondition(type)
         \/ \E i \in 1 .. MaxParts :
              Draft!RemoveCondition(i) \/ \E comparison \in Draft!Comparisons("entity") : Draft!SetComparison(i, comparison)
  PROVE  DraftInv'
<1>1. UNCHANGED <<actions, regulator, emptied, picker, topics>>
  BY DEF Draft!AddCondition, Draft!RemoveCondition, Draft!SetComparison, Draft!regulatorVars
<1>2. SUFFICES conditions' \in Seq(FitConditions)
  BY <1>1 DEF DraftInv, Draft!ProducerHasFallback
<1>3. ASSUME NEW type \in ConditionKinds, Draft!AddCondition(type) PROVE conditions' \in Seq(FitConditions)
  <2> PICK new : new = Draft!Condition(type, IF type = "balance" THEN "above" ELSE IF type = "entity" THEN "below" ELSE "none")
    OBVIOUS
  <2>1. conditions' = Append(conditions, new)
    BY <1>3 DEF Draft!AddCondition
  <2>2. new \in FitConditions
    BY DEF Draft!Condition, FitConditions, Conditions, ConditionKinds
  <2> QED BY <2>1, <2>2, AppendProperties DEF DraftInv
<1>4. ASSUME NEW i \in 1 .. MaxParts, Draft!RemoveCondition(i) PROVE conditions' \in Seq(FitConditions)
  BY <1>4, CutIsAList DEF Draft!RemoveCondition, DraftInv
<1>5. ASSUME NEW i \in 1 .. MaxParts, NEW comparison \in Draft!Comparisons("entity"), Draft!SetComparison(i, comparison)
      PROVE  conditions' \in Seq(FitConditions)
  <2>1. /\ i \in DOMAIN conditions /\ conditions' = [conditions EXCEPT ![i] = Draft!Compared(conditions[i], comparison)]
        /\ comparison \in {"above", "below", "equals", "not_equals", "stale"}
    BY <1>5 DEF Draft!SetComparison, Draft!Comparisons
  <2>2. conditions[i] \in FitConditions
    BY <2>1 DEF DraftInv
  <2>3. Draft!Compared(conditions[i], comparison) \in FitConditions
    BY <2>1, <2>2 DEF Draft!Compared, FitConditions, Conditions
  <2> QED BY <2>1, <2>3, ExchangedIsAList DEF DraftInv
<1> QED BY <1>3, <1>4, <1>5

\* The regulator's fields.
LEMMA RegulatorKeeps ==
  ASSUME DraftConstants, DraftInv,
         \/ \E mode \in {"none", "hold", "regulate"} : Draft!SetWhileMode(mode)
         \/ \E direction \in {"producer", "consumer"} : Draft!SetRegulatorDirection(direction)
         \/ \E source \in {"balance", "last"} : Draft!SetRegulatorBase(source)
         \/ Draft!EmptyFallback
  PROVE  DraftInv'
<1>1. UNCHANGED <<actions, conditions, picker, topics>> /\ picker = Absent
  BY DEF Draft!SetWhileMode, Draft!SetRegulatorDirection, Draft!SetRegulatorBase, Draft!EmptyFallback, Draft!partVars, Draft!Closed
<1>2. SUFFICES regulator' \in Regulators \cup {Absent} /\ emptied' \in BOOLEAN /\ Draft!ProducerHasFallback'
  BY <1>1 DEF DraftInv
<1>3. ASSUME NEW mode \in {"none", "hold", "regulate"}, Draft!SetWhileMode(mode)
      PROVE  regulator' \in Regulators \cup {Absent} /\ emptied' \in BOOLEAN /\ Draft!ProducerHasFallback'
  BY <1>3 DEF Draft!SetWhileMode, Draft!ProducerHasFallback, Regulators
<1>4. ASSUME NEW direction \in {"producer", "consumer"}, Draft!SetRegulatorDirection(direction)
      PROVE  regulator' \in Regulators \cup {Absent} /\ emptied' \in BOOLEAN /\ Draft!ProducerHasFallback'
  <2>1. /\ regulator \in Regulators /\ regulator' = Draft!Directed(regulator, direction)
        /\ emptied' = (emptied /\ direction # "producer")
    BY <1>4 DEF Draft!SetRegulatorDirection, DraftInv
  <2>2. regulator' \in Regulators /\ regulator'.direction = direction /\ (direction = "producer" => regulator'.fallback = "set")
    BY <2>1 DEF Draft!Directed, Regulators
  <2> QED BY <2>1, <2>2 DEF Draft!ProducerHasFallback, DraftInv
<1>5. ASSUME NEW source \in {"balance", "last"}, Draft!SetRegulatorBase(source)
      PROVE  regulator' \in Regulators \cup {Absent} /\ emptied' \in BOOLEAN /\ Draft!ProducerHasFallback'
  <2>1. regulator \in Regulators /\ regulator' = [regulator EXCEPT !.base = source] /\ emptied' = emptied
    BY <1>5 DEF Draft!SetRegulatorBase, DraftInv
  <2>2. regulator' \in Regulators /\ regulator'.direction = regulator.direction /\ regulator'.fallback = regulator.fallback
    BY <2>1 DEF Regulators
  <2> QED BY <2>1, <2>2 DEF Draft!ProducerHasFallback, DraftInv, DraftConstants
<1>6. CASE Draft!EmptyFallback
  <2>1. regulator \in Regulators /\ regulator' = [regulator EXCEPT !.fallback = ""] /\ emptied' = TRUE
    BY <1>6 DEF Draft!EmptyFallback, DraftInv
  <2> QED BY <2>1 DEF Draft!ProducerHasFallback, Regulators
<1> QED BY <1>3, <1>4, <1>5, <1>6

\* The picker opens and closes; only the catalogue is read behind it.
LEMMA PickerKeeps ==
  ASSUME DraftConstants, DraftInv, MaxParts \in Nat,
         \/ \E i \in 1 .. MaxParts : Draft!ChooseActionDevice(i) \/ Draft!ChooseConditionEntity(i)
         \/ Draft!AddDeviceAction \/ Draft!ChooseActuator \/ Draft!ChooseMeter \/ Draft!Cancelled
         \/ \E on \in BOOLEAN : Draft!SetRepeatMode(on)
         \/ \E id \in Draft!Names : Draft!CatalogueRead(id)
         \/ UNCHANGED Draft!draftVars
  PROVE  DraftInv'
<1>1. UNCHANGED <<actions, conditions, regulator, emptied>>
  BY DEF Draft!ChooseActionDevice, Draft!ChooseConditionEntity, Draft!AddDeviceAction, Draft!ChooseActuator, Draft!ChooseMeter,
         Draft!Open, Draft!Cancelled, Draft!SetRepeatMode, Draft!CatalogueRead, Draft!draftVars, Draft!partVars, Draft!regulatorVars
<1>2. SUFFICES /\ picker' \in Pickers \cup {Absent} /\ topics' \in [Draft!Names -> Draft!Names \cup {Absent}]
               /\ (picker' # Absent /\ picker'.for \in {"actuator", "meter"}) => regulator # Absent
  BY <1>1 DEF DraftInv, Draft!ProducerHasFallback
<1>3. ASSUME NEW purpose \in {"add", "action", "condition", "actuator", "meter"}, NEW at \in Nat, Draft!Open(purpose, at),
             purpose \in {"actuator", "meter"} => regulator # Absent
      PROVE  /\ picker' \in Pickers \cup {Absent} /\ topics' \in [Draft!Names -> Draft!Names \cup {Absent}]
             /\ (picker' # Absent /\ picker'.for \in {"actuator", "meter"}) => regulator # Absent
  BY <1>3 DEF Draft!Open, Pickers, DraftInv
<1>4. CASE \/ \E i \in 1 .. MaxParts : Draft!ChooseActionDevice(i) \/ Draft!ChooseConditionEntity(i)
           \/ Draft!AddDeviceAction \/ Draft!ChooseActuator \/ Draft!ChooseMeter
  <2>1. \E purpose \in {"add", "action", "condition", "actuator", "meter"}, at \in Nat :
          Draft!Open(purpose, at) /\ (purpose \in {"actuator", "meter"} => regulator # Absent)
    BY <1>4 DEF Draft!ChooseActionDevice, Draft!ChooseConditionEntity, Draft!AddDeviceAction, Draft!ChooseActuator, Draft!ChooseMeter
  <2> QED BY <2>1, <1>3
<1>5. CASE Draft!Cancelled \/ (\E on \in BOOLEAN : Draft!SetRepeatMode(on)) \/ UNCHANGED Draft!draftVars
  <2>1. picker' \in {picker, Absent} /\ topics' = topics
    BY <1>5 DEF Draft!Cancelled, Draft!SetRepeatMode, Draft!draftVars
  <2> QED BY <2>1 DEF DraftInv
<1>6. ASSUME NEW id \in Draft!Names, Draft!CatalogueRead(id)
      PROVE  /\ picker' \in Pickers \cup {Absent} /\ topics' \in [Draft!Names -> Draft!Names \cup {Absent}]
             /\ (picker' # Absent /\ picker'.for \in {"actuator", "meter"}) => regulator # Absent
  <2>1. picker' = picker /\ topics' = [topics EXCEPT ![id] = IF topics[id] = Absent THEN id ELSE Absent]
    BY <1>6 DEF Draft!CatalogueRead
  <2> QED BY <2>1 DEF DraftInv
<1> QED BY <1>4, <1>5, <1>6

\* The regulator on the device that was picked.
LEMMA WithOutputFits ==
  ASSUME NEW r \in Regulators, NEW id \in Draft!Names
  PROVE  /\ Draft!WithOutput(r, id) \in Regulators
         /\ Draft!WithOutput(r, id).direction = "producer" => Draft!WithOutput(r, id).fallback = "set"
<1> PICK turned : turned = CASE Entities[id].group \in {"wallbox", "heat_pump"} -> Draft!Directed(r, "consumer")
                             [] Entities[id].group = "inverter" -> Draft!Directed(r, "producer")
                             [] OTHER -> r
  OBVIOUS
<1>1. \A direction \in {"producer", "consumer"} : Draft!Directed(r, direction) \in Regulators
  BY DEF Draft!Directed, Regulators
<1>2. turned \in Regulators
  BY <1>1
<1>3. Draft!WithOutput(r, id) = [turned EXCEPT !.output = id, !.fallback = IF turned.direction = "producer" THEN "set" ELSE @]
  BY DEF Draft!WithOutput
<1> QED BY <1>2, <1>3 DEF Regulators

\* The picker's answer.
LEMMA PickedKeeps ==
  ASSUME DraftConstants, DraftInv, NEW id \in Draft!Names, Draft!Picked(id)
  PROVE  DraftInv'
<1>0. picker \in Pickers /\ picker' = Absent /\ topics' = topics
  BY DEF Draft!Picked, Draft!Closed, DraftInv
<1>1. actions' \in Seq(FitActions)
  <2>1. CASE picker.for = "add"
    <3> PICK new : new = IF Entities[id].switch THEN Draft!BuildSwitchAction(id, "on") ELSE Draft!BuildSetpointAction(id, FALSE, "number")
      OBVIOUS
    <3>1. new \in FitActions
      BY BuiltFits
    <3>2. actions' = Append(actions, new)
      BY <2>1 DEF Draft!Picked
    <3> QED BY <3>1, <3>2, AppendProperties DEF DraftInv
  <2>2. CASE picker.for = "action"
    <3> PICK new : new = Draft!OnDevice(actions[picker.at], id)
      OBVIOUS
    <3>1. actions' = [actions EXCEPT ![picker.at] = new]
      BY <2>2 DEF Draft!Picked
    <3>2. ASSUME picker.at \in DOMAIN actions PROVE new \in FitActions
      <4>1. actions[picker.at] \in FitActions
        BY <3>2 DEF DraftInv
      <4>2. CASE Draft!ActionKind(actions[picker.at]) = "switch"
        <5>1. id \in Draft!SwitchCandidates
          BY <2>2, <4>2 DEF Draft!Picked, Draft!PickerCandidates
        <5>2. Entities[id].switch
          BY <5>1 DEF Draft!SwitchCandidates
        <5> QED BY <4>2, <5>2, BuiltFits DEF Draft!OnDevice
      <4>3. CASE Draft!ActionKind(actions[picker.at]) # "switch"
        <5> PICK payload : payload = IF actions[picker.at].payload = "none" THEN "empty" ELSE actions[picker.at].payload
          OBVIOUS
        <5>1. payload \in {"empty", "number", "on", "off"}
          BY <4>1 DEF FitActions, Actions
        <5>2. (actions[picker.at].source = "balance") \in BOOLEAN
          OBVIOUS
        <5>3. new = Draft!BuildSetpointAction(id, actions[picker.at].source = "balance", payload)
          BY <4>3 DEF Draft!OnDevice
        <5> QED BY <5>1, <5>2, <5>3, BuiltFits
      <4> QED BY <4>2, <4>3
    <3> QED BY <3>1, <3>2, ExchangedIsAList DEF DraftInv
  <2>3. CASE picker.for \notin {"add", "action"}
    BY <2>3 DEF Draft!Picked, DraftInv
  <2> QED BY <2>1, <2>2, <2>3
<1>2. conditions' \in Seq(FitConditions)
  <2>1. CASE picker.for = "condition"
    <3> PICK new : new = [conditions[picker.at] EXCEPT !.entity = id]
      OBVIOUS
    <3>1. conditions' = [conditions EXCEPT ![picker.at] = new]
      BY <2>1 DEF Draft!Picked
    <3>2. ASSUME picker.at \in DOMAIN conditions PROVE new \in FitConditions
      <4>1. conditions[picker.at] \in FitConditions
        BY <3>2 DEF DraftInv
      <4> QED BY <4>1 DEF FitConditions, Conditions
    <3> QED BY <3>1, <3>2, ExchangedIsAList DEF DraftInv
  <2>2. CASE picker.for # "condition"
    BY <2>2 DEF Draft!Picked, DraftInv
  <2> QED BY <2>1, <2>2
<1>3. regulator' \in Regulators \cup {Absent} /\ emptied' \in BOOLEAN /\ Draft!ProducerHasFallback'
  <2>0. emptied' = (emptied /\ regulator' # Absent /\ regulator'.fallback = "")
    BY DEF Draft!Picked
  <2>1. CASE picker.for = "actuator"
    <3>1. regulator \in Regulators /\ regulator' = Draft!WithOutput(regulator, id)
      BY <1>0, <2>1 DEF Draft!Picked, DraftInv, Draft!Closed
    <3> QED BY <2>0, <3>1, WithOutputFits DEF Draft!ProducerHasFallback
  <2>2. CASE picker.for = "meter"
    <3>1. regulator \in Regulators /\ regulator' = [regulator EXCEPT !.base = "entity"]
      BY <1>0, <2>2 DEF Draft!Picked, DraftInv, Draft!Closed
    <3>2. regulator' \in Regulators /\ regulator'.direction = regulator.direction /\ regulator'.fallback = regulator.fallback
      BY <3>1 DEF Regulators
    <3>3. regulator.fallback \in {"set", ""} /\ regulator # Absent
      BY <3>1 DEF Regulators, DraftConstants
    <3> QED BY <2>0, <3>1, <3>2, <3>3 DEF Draft!ProducerHasFallback, DraftInv, DraftConstants
  <2>3. CASE picker.for \notin {"actuator", "meter"}
    <3>1. regulator' = regulator
      BY <2>3 DEF Draft!Picked
    <3>2. regulator # Absent => regulator.fallback \in {"set", ""}
      BY DEF DraftInv, Regulators
    <3> QED BY <2>0, <3>1, <3>2 DEF Draft!ProducerHasFallback, DraftInv
  <2> QED BY <2>1, <2>2, <2>3
<1> QED BY <1>0, <1>1, <1>2, <1>3 DEF DraftInv

\* The invariant holds of every behaviour.
LEMMA DraftInvariant == ASSUME DraftConstants, MaxParts \in Nat PROVE Draft!Spec => []DraftInv
<1>1. Draft!Init => DraftInv
  <2> SUFFICES ASSUME Draft!Init PROVE DraftInv
    OBVIOUS
  <2>1. <<>> \in Seq(FitActions) /\ <<>> \in Seq(FitConditions)
    OBVIOUS
  <2> QED BY <2>1 DEF Draft!Init, DraftInv, Draft!ProducerHasFallback
<1>2. DraftInv /\ [Draft!Next]_(Draft!draftVars) => DraftInv'
  BY ActionsKeep, ConditionsKeep, RegulatorKeeps, PickerKeeps, PickedKeeps DEF Draft!Next, ConditionKinds
<1> QED BY <1>1, <1>2, PTL DEF Draft!Spec

\* Whatever order the buttons of an automation are pressed in, and whatever the catalogue does behind the picker: an
\* action has the keys its source reads and no others, a condition has what it compares with, and a regulated inverter
\* has a fallback the user did not empty (automations.page.js, automations-scenario.js); for every catalogue.
THEOREM DraftFitsProof ==
  ASSUME DraftConstants, MaxParts \in Nat
  PROVE  Draft!Spec => [](Draft!SourceFits /\ Draft!OperandFits /\ Draft!ProducerHasFallback)
<1>1. DraftInv => Draft!SourceFits /\ Draft!OperandFits /\ Draft!ProducerHasFallback
  <2> SUFFICES ASSUME DraftInv PROVE Draft!SourceFits /\ Draft!OperandFits
    BY DEF DraftInv
  <2>1. \A i \in DOMAIN actions : actions[i] \in FitActions
    BY DEF DraftInv
  <2>2. \A i \in DOMAIN conditions : conditions[i] \in FitConditions
    BY DEF DraftInv
  <2> QED BY <2>1, <2>2 DEF Draft!SourceFits, Draft!OperandFits, FitActions, Fits, FitConditions
<1> QED BY <1>1, DraftInvariant, PTL

(***************************************************************************)
(* The device tiles.                                                       *)
(***************************************************************************)

CONSTANTS Pages, MaxClicks, MaxQueue, MaxFailures
VARIABLES tab, activePage, viewMode, queue, tiles, drawnPage, drawnMode, due, requests, modal,
          stale, crossed, failed, changes, clicks, failures

Panel == INSTANCE DevicesPanel

Revisions == [Devices -> Nat]
TileJobs == [mode : Panel!Modes, toggle : Panel!Modes \cup {Absent}]
Exchanges == [mode : Panel!Modes, toggle : Panel!Modes \cup {Absent}, page : Pages,
              read : Revisions \cup {Absent}, crossed : BOOLEAN]
TileRequests == [here : BOOLEAN, read : Nat \cup {Absent}, pending : Nat \cup {Absent}]

\* No revision, no exchange and no request is the value for none.
PanelConstants == Absent \notin Nat /\ Absent \notin Revisions /\ Absent \notin Exchanges /\ Absent \notin TileRequests

PanelTypes ==
  /\ activePage \in Pages /\ viewMode \in Panel!Modes
  /\ queue \in Seq(TileJobs) /\ running \in Exchanges \cup {Absent}
  /\ tiles \in Revisions /\ server \in Revisions
  /\ requests \in [Devices -> TileRequests \cup {Absent}]
  /\ failures \in Nat

\* The last exchange of the chain draws the page that was chosen last,
PageFollows ==
  queue = <<>> => IF running # Absent THEN running.page = activePage ELSE failed \/ drawnPage = activePage

\* and in the mode of the toggle.
ModeOfChain ==
  IF queue # <<>> THEN queue[Len(queue)].mode ELSE IF running # Absent THEN running.mode ELSE drawnMode
ModeFollows == failures = 0 => ModeOfChain = viewMode

\* A tile never runs ahead of the server, and an answer never falls behind the tile it is to replace.
InOrder(d) ==
  /\ tiles[d] <= server[d]
  /\ (running # Absent /\ running.read # Absent) => running.read[d] <= server[d]
  /\ (requests[d] # Absent /\ requests[d].read # Absent) =>
       requests[d].read <= server[d] /\ (requests[d].here => tiles[d] <= requests[d].read)
  /\ (requests[d] # Absent /\ requests[d].pending # Absent) => requests[d].pending <= server[d]

\* A request that will bring the tile what the server has now, or ask again for it.
Brings(d) ==
  /\ requests[d] # Absent
  /\ \/ requests[d].here /\ requests[d].read \in {Absent, server[d]}
     \/ requests[d].pending = server[d]

\* What is missing on a tile is still to come: by a push, by what closing the device asks for, by an exchange or by a
\* request of its own.
Pushed(d) == d \in due \/ stale
Comes(d) ==
  \/ Pushed(d)
  \/ queue # <<>>
  \/ running # Absent /\ (running.crossed \/ running.read = Absent \/ running.read[d] = server[d])
  \/ running = Absent /\ (crossed \/ failed \/ tiles[d] = server[d] \/ Brings(d))

TilesFollow ==
  /\ stale => modal
  /\ \A d \in Devices : InOrder(d) /\ Comes(d)

PanelInv == PanelTypes /\ PageFollows /\ ModeFollows /\ TilesFollow

\* An exchange is asked for: it starts at once with what the server has by then, or waits.
Asks(mode, page) ==
  \/ \E job \in Exchanges : /\ running' = job /\ job.mode = mode /\ job.page = page /\ job.read = Absent /\ ~job.crossed
                            /\ running = Absent /\ queue = <<>> /\ queue' = queue
  \/ \E job \in TileJobs : queue' = Append(queue, job) /\ job.mode = mode /\ running' = running

\* A new exchange is asked for with the mode and the page that were chosen.
LEMMA ExchangeAsks ==
  ASSUME PanelTypes, NEW mode \in Panel!Modes, NEW toggle \in Panel!Modes \cup {Absent}, NEW page \in Pages,
         Panel!Exchange(mode, toggle, page)
  PROVE  Asks(mode, page)
<1> PICK job : job = [mode |-> mode, toggle |-> toggle]
  OBVIOUS
<1>0. job \in TileJobs /\ job.mode = mode /\ job.toggle = toggle
  BY DEF TileJobs
<1>1. CASE running = Absent /\ queue = <<>>
  <2>1. running' = Panel!Started(job, page) /\ UNCHANGED queue
    BY <1>1 DEF Panel!Exchange
  <2>2. Panel!Started(job, page) = [mode |-> mode, toggle |-> toggle, page |-> page, read |-> Absent, crossed |-> FALSE]
    BY <1>0 DEF Panel!Started
  <2> PICK new : new = Panel!Started(job, page)
    OBVIOUS
  <2>3. new \in Exchanges /\ new.mode = mode /\ new.page = page /\ new.read = Absent /\ ~new.crossed
    <3>1. /\ new.mode = mode /\ new.toggle = toggle /\ new.page = page /\ new.read = Absent /\ new.crossed = FALSE
          /\ new = [mode |-> mode, toggle |-> toggle, page |-> page, read |-> Absent, crossed |-> FALSE]
      BY <2>2
    <3>2. new \in Exchanges
      BY <3>1 DEF Exchanges
    <3> QED BY <3>1, <3>2
  <2> QED BY <1>1, <2>1, <2>3 DEF Asks
<1>2. CASE ~(running = Absent /\ queue = <<>>)
  <2>1. queue' = Append(queue, job) /\ UNCHANGED running
    BY <1>2 DEF Panel!Exchange, Panel!Behind
  <2> QED BY <1>0, <2>1 DEF Asks
<1> QED BY <1>1, <1>2

\* An exchange that is asked for in the toggle's mode and for the chosen page keeps everything that is to come.
LEMMA AsksKeep ==
  ASSUME PanelConstants, PanelTypes, TilesFollow, Asks(viewMode', activePage'),
         activePage' \in Pages, viewMode' \in Panel!Modes, failures' \in Nat
  PROVE  /\ queue' \in Seq(TileJobs) /\ running' \in Exchanges \cup {Absent}
         /\ PageFollows' /\ ModeFollows'
         /\ queue' # <<>> \/ (running' # Absent /\ running'.read = Absent)
         /\ \A d \in Devices : (running' # Absent /\ running'.read # Absent) =>
                                 running # Absent /\ running.read # Absent /\ running'.read = running.read
<1>1. CASE \E job \in Exchanges : /\ running' = job /\ job.mode = viewMode' /\ job.page = activePage' /\ job.read = Absent
                                  /\ ~job.crossed /\ running = Absent /\ queue = <<>> /\ queue' = queue
  <2>1. running' \in Exchanges /\ running'.mode = viewMode' /\ running'.page = activePage' /\ running'.read = Absent
        /\ queue' = <<>> /\ running' # Absent
    BY <1>1 DEF PanelConstants
  <2> QED BY <2>1 DEF PageFollows, ModeFollows, ModeOfChain
<1>2. ASSUME NEW job \in TileJobs, queue' = Append(queue, job), job.mode = viewMode', running' = running
      PROVE  /\ queue' \in Seq(TileJobs) /\ queue' # <<>> /\ queue'[Len(queue')].mode = viewMode'
  BY <1>2, AppendProperties DEF PanelTypes
<1> QED BY <1>1, <1>2 DEF Asks, PanelTypes, PageFollows, ModeFollows, ModeOfChain

\* Nothing moves but what the device that is open swallowed.
LEMMA StillKeeps ==
  ASSUME PanelInv, stale' => modal',
         UNCHANGED <<activePage, viewMode, queue, running, tiles, drawnPage, drawnMode, server, due, requests, crossed,
                     failed, failures>>,
         stale' = stale
  PROVE  PanelInv'
BY DEF PanelInv, PanelTypes, PageFollows, ModeFollows, ModeOfChain, TilesFollow, InOrder, Comes, Pushed, Brings

\* What the user does: it asks for an exchange, or for nothing.
LEMMA UserKeeps ==
  ASSUME PanelConstants, PanelInv,
         \/ \E p \in Pages : Panel!ClickPage(p)
         \/ \E m \in Panel!Modes : Panel!SetViewMode(m) \/ Panel!ModeFromSettings(m)
         \/ Panel!OpenModal \/ Panel!CloseModal
         \/ \E d \in Devices : Panel!PushUncovered(d)
  PROVE  PanelInv'
<1>1. ASSUME Asks(viewMode', activePage'), activePage' \in Pages, viewMode' \in Panel!Modes,
             UNCHANGED <<tiles, server, requests, failures>>, stale' => modal'
      PROVE  PanelInv'
  <2>1. \A d \in Devices : InOrder(d)'
    BY <1>1, AsksKeep DEF PanelInv, PanelTypes, TilesFollow, InOrder
  <2>2. \A d \in Devices : Comes(d)'
    BY <1>1, AsksKeep DEF PanelInv, PanelTypes, Comes
  <2> QED BY <1>1, <2>1, <2>2, AsksKeep DEF PanelInv, PanelTypes, TilesFollow
<1>2. viewMode \in Panel!Modes /\ activePage \in Pages /\ Absent \in Panel!Modes \cup {Absent} /\ PanelTypes
  BY DEF PanelInv, PanelTypes
<1>3. ASSUME NEW p \in Pages, Panel!ClickPage(p)
      PROVE  PanelInv'
  <2>1. Asks(viewMode', activePage')
    BY <1>2, <1>3, ExchangeAsks DEF Panel!ClickPage, Panel!RefreshMode
  <2> QED BY <1>1, <1>2, <1>3, <2>1 DEF Panel!ClickPage, PanelInv, TilesFollow
<1>4. ASSUME NEW m \in Panel!Modes, Panel!SetViewMode(m) \/ Panel!ModeFromSettings(m)
      PROVE  PanelInv'
  <2>1. Asks(viewMode', activePage')
    BY <1>2, <1>4, ExchangeAsks DEF Panel!SetViewMode, Panel!ModeFromSettings
  <2> QED BY <1>1, <1>2, <1>4, <2>1 DEF Panel!SetViewMode, Panel!ModeFromSettings, PanelInv, TilesFollow
<1>5. CASE Panel!OpenModal
  BY <1>5, StillKeeps DEF Panel!OpenModal
<1>6. CASE Panel!CloseModal /\ stale
  <2>1. Asks(viewMode', activePage')
    BY <1>2, <1>6, ExchangeAsks DEF Panel!CloseModal, Panel!CatchUp, Panel!RefreshMode
  <2> QED BY <1>1, <1>2, <1>6, <2>1 DEF Panel!CloseModal
<1>7. CASE Panel!CloseModal /\ ~stale
  <2>1. ~stale' /\ \A d : Pushed(d)' = Pushed(d)
    BY <1>7 DEF Panel!CloseModal, Pushed
  <2>2. UNCHANGED <<activePage, viewMode, queue, running, tiles, drawnPage, drawnMode, server, due, requests, crossed,
                    failed, failures>>
    BY <1>7 DEF Panel!CloseModal, Panel!CatchUp, Panel!Quiet
  <2> QED BY <2>1, <2>2 DEF PanelInv, PanelTypes, PageFollows, ModeFollows, ModeOfChain, TilesFollow, InOrder, Comes, Brings
<1>8. ASSUME NEW d \in Devices, Panel!PushUncovered(d)
      PROVE  PanelInv'
  <2>1. Asks(viewMode', activePage')
    BY <1>2, <1>8, ExchangeAsks DEF Panel!PushUncovered, Panel!RefreshMode
  <2> QED BY <1>1, <1>2, <1>8, <2>1 DEF Panel!PushUncovered, PanelInv, TilesFollow
<1> QED BY <1>3, <1>4, <1>5, <1>6, <1>7, <1>8

\* The chain of exchanges.
LEMMA ChainKeeps ==
  ASSUME PanelConstants, PanelInv, Panel!NextExchange \/ Panel!ExchangeRead
  PROVE  PanelInv'
<1>1. CASE Panel!NextExchange
  <2> PICK job : job = Head(queue)
    OBVIOUS
  <2>1. /\ running = Absent /\ queue # <<>> /\ running' = Panel!Started(job, activePage) /\ queue' = Tail(queue)
        /\ UNCHANGED <<activePage, viewMode, tiles, drawnPage, drawnMode, server, due, requests, modal, stale, crossed, failed,
                       failures>>
    BY <1>1 DEF Panel!NextExchange
  <2>2. job \in TileJobs /\ queue' \in Seq(TileJobs)
    BY <2>1 DEF PanelInv, PanelTypes
  <2>3. running' = [mode |-> job.mode, toggle |-> job.toggle, page |-> activePage, read |-> Absent, crossed |-> FALSE]
    BY <2>1 DEF Panel!Started
  <2>4. running'.mode = job.mode /\ running'.page = activePage /\ running'.read = Absent
    BY <2>3
  <2>5. running' \in Exchanges
    BY <2>2, <2>3 DEF Exchanges, TileJobs, PanelInv, PanelTypes
  <2>6. running' # Absent
    BY <2>5 DEF PanelConstants
  <2>7. IF queue' # <<>> THEN queue'[Len(queue')] = queue[Len(queue)] ELSE job = queue[Len(queue)]
    <3>1. queue \in Seq(TileJobs) /\ queue # <<>>
      BY <2>1 DEF PanelInv, PanelTypes
    <3>2. /\ queue' \in Seq(TileJobs) /\ Len(queue') = Len(queue) - 1 /\ Len(queue) \in Nat \ {0}
          /\ \A i \in 1 .. Len(queue') : queue'[i] = queue[i + 1]
      BY <2>1, <3>1, HeadTailProperties
    <3>3. CASE queue' # <<>>
      <4>1. Len(queue') \in 1 .. Len(queue')
        BY <3>2, <3>3
      <4> QED BY <3>2, <3>3, <4>1
    <3>4. CASE queue' = <<>>
      <4>1. Len(queue) = 1
        BY <3>2, <3>4
      <4> QED BY <3>1, <3>4, <4>1
    <3> QED BY <3>3, <3>4
  <2>8. ModeFollows'
    BY <2>1, <2>4, <2>6, <2>7 DEF PanelInv, ModeFollows, ModeOfChain
  <2>9. TilesFollow'
    BY <2>1, <2>4, <2>6 DEF PanelInv, TilesFollow, InOrder, Comes
  <2> QED BY <2>1, <2>2, <2>4, <2>5, <2>6, <2>8, <2>9 DEF PanelInv, PanelTypes, PageFollows
<1>2. CASE Panel!ExchangeRead
  <2>1. /\ running \in Exchanges /\ running' = [running EXCEPT !.read = server] /\ server \in Revisions
        /\ UNCHANGED <<activePage, viewMode, queue, tiles, drawnPage, drawnMode, server, due, requests, modal, stale, crossed,
                       failed, failures>>
    BY <1>2 DEF Panel!ExchangeRead, PanelInv, PanelTypes
  <2>2. running' \in Exchanges /\ running'.read = server /\ running'.mode = running.mode /\ running'.page = running.page
    BY <2>1 DEF Exchanges
  <2>3. running' # Absent /\ running # Absent
    BY <2>1, <2>2 DEF PanelConstants
  <2>4. \A d \in Devices : server[d] \in Nat
    BY <2>1 DEF Revisions
  <2>5. TilesFollow'
    BY <2>1, <2>2, <2>3, <2>4 DEF PanelInv, TilesFollow, InOrder, Comes
  <2> QED BY <2>1, <2>2, <2>3, <2>5 DEF PanelInv, PanelTypes, PageFollows, ModeFollows, ModeOfChain
<1> QED BY <1>1, <1>2

\* An exchange comes back: every tile is what it read, and no request finds its tile in the page any more.
LEMMA ExchangeEnds ==
  ASSUME PanelConstants, PanelInv, Panel!ExchangeDone \/ Panel!ExchangeFails
  PROVE  PanelInv'
<1>0. running \in Exchanges /\ running # Absent /\ running' = Absent
  BY DEF Panel!ExchangeDone, Panel!ExchangeFails, PanelInv, PanelTypes
<1>1. CASE Panel!ExchangeDone
  <2>1. /\ running.read # Absent /\ tiles' = running.read /\ drawnPage' = running.page /\ drawnMode' = running.mode
        /\ crossed' = running.crossed /\ failed' = FALSE
        /\ requests' = [d \in Devices |-> IF requests[d] = Absent THEN Absent ELSE [requests[d] EXCEPT !.here = FALSE]]
        /\ UNCHANGED <<activePage, viewMode, queue, server, due, modal, stale, failures>>
    BY <1>1 DEF Panel!ExchangeDone
  <2>2. tiles' \in Revisions
    BY <1>0, <2>1 DEF Exchanges
  <2>3. ASSUME NEW d \in Devices
        PROVE  /\ requests'[d] \in TileRequests \cup {Absent}
               /\ requests'[d] # Absent => /\ ~requests'[d].here /\ requests[d] # Absent
                                           /\ requests'[d].read = requests[d].read
                                           /\ requests'[d].pending = requests[d].pending
    <3>1. CASE requests[d] = Absent
      BY <2>1, <3>1
    <3>2. CASE requests[d] # Absent
      <4>1. requests[d] \in TileRequests /\ requests'[d] = [requests[d] EXCEPT !.here = FALSE]
        BY <2>1, <3>2 DEF PanelInv, PanelTypes
      <4> QED BY <3>2, <4>1 DEF TileRequests
    <3> QED BY <3>1, <3>2
  <2>4. requests' \in [Devices -> TileRequests \cup {Absent}]
    BY <2>1, <2>3
  <2>5. \A d \in Devices : InOrder(d)'
    BY <1>0, <2>1, <2>3 DEF PanelInv, TilesFollow, InOrder
  <2>6. \A d \in Devices : Comes(d)'
    BY <1>0, <2>1 DEF PanelInv, TilesFollow, Comes, Pushed
  <2>7. PageFollows' /\ ModeFollows'
    BY <1>0, <2>1 DEF PanelInv, PageFollows, ModeFollows, ModeOfChain
  <2> QED BY <1>0, <2>1, <2>2, <2>4, <2>5, <2>6, <2>7 DEF PanelInv, PanelTypes, TilesFollow
<1>2. CASE Panel!ExchangeFails
  <2>1. /\ failures' = failures + 1 /\ failed' = TRUE /\ failures \in Nat
        /\ viewMode' = (IF running.toggle # Absent THEN running.toggle ELSE viewMode)
        /\ UNCHANGED <<activePage, queue, tiles, drawnPage, drawnMode, server, due, requests, modal, stale, crossed>>
    BY <1>2 DEF Panel!ExchangeFails, PanelInv, PanelTypes
  <2>2. viewMode' \in Panel!Modes
    BY <1>0, <2>1 DEF Exchanges, PanelInv, PanelTypes
  <2>3. TilesFollow'
    BY <1>0, <2>1 DEF PanelInv, TilesFollow, InOrder, Comes, Pushed, Brings
  <2>4. PageFollows' /\ ModeFollows'
    BY <1>0, <2>1 DEF PageFollows, ModeFollows
  <2> QED BY <1>0, <2>1, <2>2, <2>3, <2>4 DEF PanelInv, PanelTypes
<1> QED BY <1>1, <1>2

\* The structure of a device changes, and the browser is told.
LEMMA PushesKeep ==
  ASSUME PanelConstants, PanelInv, NEW d \in Devices, Panel!Change(d) \/ Panel!Push(d)
  PROVE  PanelInv'
<1>0. PanelTypes /\ TilesFollow
  BY DEF PanelInv
<1>1. CASE Panel!Change(d)
  <2>1. /\ server' = [server EXCEPT ![d] = server[d] + 1] /\ due' = due \cup {d} /\ server \in Revisions
        /\ UNCHANGED <<activePage, viewMode, queue, running, tiles, drawnPage, drawnMode, requests, modal, stale, crossed, failed,
                       failures>>
    BY <1>0, <1>1 DEF Panel!Change, PanelTypes
  <2>2. server' \in Revisions /\ \A e \in Devices : server'[e] \in Nat /\ server[e] \in Nat /\ server'[e] >= server[e]
    BY <2>1 DEF Revisions
  <2>3. \A e \in Devices : tiles[e] \in Nat
    BY <1>0 DEF PanelTypes, Revisions
  <2>4. \A e \in Devices : (running # Absent /\ running.read # Absent) => running.read[e] \in Nat
    BY <1>0 DEF PanelTypes, Exchanges, Revisions
  <2>5. \A e \in Devices : requests[e] # Absent =>
          requests[e].read \in Nat \cup {Absent} /\ requests[e].pending \in Nat \cup {Absent}
    BY <1>0 DEF PanelTypes, TileRequests
  <2>6. \A e \in Devices : InOrder(e)'
    BY <1>0, <2>1, <2>2, <2>3, <2>4, <2>5 DEF TilesFollow, InOrder
  <2>7. \A e \in Devices : e = d \/ server'[e] = server[e]
    BY <2>1 DEF Revisions
  <2>8. \A e \in Devices : Comes(e)'
    BY <1>0, <2>1, <2>7 DEF TilesFollow, Comes, Pushed, Brings
  <2> QED BY <1>0, <2>1, <2>2, <2>6, <2>8 DEF PanelInv, PanelTypes, PageFollows, ModeFollows, ModeOfChain, TilesFollow
<1>2. CASE Panel!Push(d) /\ modal
  <2>1. /\ stale' = TRUE /\ running' = running
        /\ UNCHANGED <<activePage, viewMode, queue, tiles, drawnPage, drawnMode, server, requests, modal, crossed, failed, failures>>
    BY <1>2 DEF Panel!Push
  <2> QED BY <1>2, <2>1 DEF PanelInv, PanelTypes, PageFollows, ModeFollows, ModeOfChain, TilesFollow, InOrder, Comes, Pushed
<1>3. CASE Panel!Push(d) /\ ~modal
  <2>1. /\ due' = due \ {d}
        /\ requests' = IF tiles[d] = server[d] THEN requests ELSE [requests EXCEPT ![d] = Panel!Wish(d)]
        /\ running' = IF running = Absent THEN running ELSE [running EXCEPT !.crossed = TRUE]
        /\ ~stale /\ ~stale'
        /\ UNCHANGED <<activePage, viewMode, queue, tiles, drawnPage, drawnMode, server, modal, stale, crossed, failed, failures>>
    BY <1>0, <1>3 DEF Panel!Push, TilesFollow
  <2>2. /\ running' \in Exchanges \cup {Absent}
        /\ (running' = Absent) <=> (running = Absent)
        /\ running # Absent => /\ running'.mode = running.mode /\ running'.page = running.page /\ running'.read = running.read
                               /\ running'.crossed
    <3>1. CASE running = Absent
      BY <2>1, <3>1
    <3>2. CASE running # Absent
      <4>1. running \in Exchanges /\ running' = [running EXCEPT !.crossed = TRUE]
        BY <1>0, <2>1, <3>2 DEF PanelTypes
      <4>2. running' \in Exchanges
        BY <4>1 DEF Exchanges
      <4> QED BY <3>2, <4>1, <4>2 DEF Exchanges, PanelConstants
    <3> QED BY <3>1, <3>2
  <2>3. /\ server[d] \in Nat /\ tiles[d] \in Nat /\ server \in Revisions
        /\ requests \in [Devices -> TileRequests \cup {Absent}]
    BY <1>0 DEF PanelTypes, Revisions
  <2> PICK wish : wish = Panel!Wish(d)
    OBVIOUS
  <2>4. /\ wish \in TileRequests
        /\ wish.pending # Absent => wish.pending = server[d]
        /\ requests[d] = Absent => wish.here /\ wish.read = Absent
        /\ requests[d] # Absent => wish.here = requests[d].here /\ wish.read = requests[d].read /\ wish.pending = server[d]
    <3>1. CASE requests[d] = Absent
      <4>1. wish = [here |-> TRUE, read |-> Absent, pending |-> Absent]
        BY <3>1 DEF Panel!Wish, Panel!AskTile
      <4> QED BY <3>1, <4>1 DEF TileRequests
    <3>2. CASE requests[d] # Absent
      <4>1. requests[d] \in TileRequests /\ wish = [requests[d] EXCEPT !.pending = server[d]]
        BY <2>3, <3>2 DEF Panel!Wish
      <4> QED BY <2>3, <3>2, <4>1 DEF TileRequests
    <3> QED BY <3>1, <3>2
  <2>5. wish # Absent
    BY <2>4 DEF PanelConstants
  <2>6. /\ requests' \in [Devices -> TileRequests \cup {Absent}]
        /\ \A e \in Devices : e # d => requests'[e] = requests[e]
        /\ tiles[d] = server[d] => requests'[d] = requests[d]
        /\ tiles[d] # server[d] => requests'[d] = wish
    BY <2>1, <2>3, <2>4
  <2>7. \A e \in Devices : InOrder(e)'
    <3> SUFFICES ASSUME NEW e \in Devices PROVE InOrder(e)'
      OBVIOUS
    <3>1. InOrder(e)
      BY <1>0 DEF TilesFollow
    <3>2. CASE e = d /\ tiles[d] # server[d]
      <4>1. server[d] <= server[d]
        BY <2>3
      <4> QED BY <2>1, <2>2, <2>4, <2>6, <3>1, <3>2, <4>1 DEF InOrder
    <3>3. CASE e # d \/ tiles[d] = server[d]
      BY <2>1, <2>2, <2>6, <3>1, <3>3 DEF InOrder
    <3> QED BY <3>2, <3>3
  <2>8. \A e \in Devices : Comes(e)'
    <3> SUFFICES ASSUME NEW e \in Devices PROVE Comes(e)'
      OBVIOUS
    <3>1. Comes(e)
      BY <1>0 DEF TilesFollow
    <3>2. CASE e = d /\ tiles[d] # server[d]
      BY <2>1, <2>2, <2>4, <2>5, <2>6, <3>2 DEF Comes, Brings
    <3>3. CASE e = d /\ tiles[d] = server[d]
      BY <2>1, <2>2, <3>3 DEF Comes
    <3>4. CASE e # d
      BY <2>1, <2>2, <2>6, <3>1, <3>4 DEF Comes, Pushed, Brings
    <3> QED BY <3>2, <3>3, <3>4
  <2>9. PanelTypes'
    BY <1>0, <2>1, <2>2, <2>6 DEF PanelTypes
  <2>10. PageFollows' /\ ModeFollows'
    BY <2>1, <2>2 DEF PanelInv, PageFollows, ModeFollows, ModeOfChain
  <2>11. TilesFollow'
    BY <2>1, <2>7, <2>8 DEF TilesFollow
  <2> QED BY <2>9, <2>10, <2>11 DEF PanelInv
<1> QED BY <1>1, <1>2, <1>3

\* A request of one tile changes nothing but that tile and what is asked of it.
LEMMA RequestKeeps ==
  ASSUME PanelConstants, PanelInv, NEW d \in Devices,
         requests' \in [Devices -> TileRequests \cup {Absent}], tiles' \in Revisions,
         \A e \in Devices : e # d => requests'[e] = requests[e] /\ tiles'[e] = tiles[e],
         InOrder(d)', Comes(d)',
         UNCHANGED <<activePage, viewMode, queue, running, drawnPage, drawnMode, server, due, modal, stale, crossed, failed>>,
         failures' \in Nat, failures' = 0 => failures = 0
  PROVE  PanelInv'
<1>1. \A e \in Devices : InOrder(e)' /\ Comes(e)'
  <2> SUFFICES ASSUME NEW e \in Devices, e # d PROVE InOrder(e)' /\ Comes(e)'
    OBVIOUS
  <2>1. InOrder(e) /\ Comes(e)
    BY DEF PanelInv, TilesFollow
  <2> QED BY <2>1 DEF InOrder, Comes, Pushed, Brings
<1>2. PageFollows' /\ ModeFollows'
  BY DEF PanelInv, PageFollows, ModeFollows, ModeOfChain
<1> QED BY <1>1, <1>2 DEF PanelInv, PanelTypes, TilesFollow

\* What is asked again brings the tile what its request was to bring.
LEMMA AgainBrings ==
  ASSUME PanelConstants, PanelInv, NEW d \in Devices, requests[d] # Absent, NEW tile \in Nat,
         NEW again, again = Panel!Again(d, tile)
  PROVE  /\ again \in TileRequests \cup {Absent}
         /\ again # Absent => again.here /\ again.read = Absent /\ again.pending = Absent
         /\ requests[d].pending = server[d] => again # Absent \/ tile = server[d]
<1>1. requests[d] \in TileRequests /\ server[d] \in Nat
  BY DEF PanelInv, PanelTypes, Revisions
<1>2. Panel!AskTile = [here |-> TRUE, read |-> Absent, pending |-> Absent]
  BY DEF Panel!AskTile
<1> PICK ask : ask = Panel!AskTile
  OBVIOUS
<1>3. ask \in TileRequests /\ ask.here = TRUE /\ ask.read = Absent /\ ask.pending = Absent
  <2>1. ask = [here |-> TRUE, read |-> Absent, pending |-> Absent]
    BY <1>2
  <2> QED BY <2>1 DEF TileRequests
<1>4. ask # Absent
  BY <1>3 DEF PanelConstants
<1>5. again = IF requests[d].pending # Absent /\ tile # requests[d].pending THEN ask ELSE Absent
  BY DEF Panel!Again
<1>6. requests[d].pending = server[d] => requests[d].pending # Absent
  BY <1>1 DEF PanelConstants
<1> QED BY <1>3, <1>4, <1>5, <1>6

\* A tile is read, replaced, or not to be had.
LEMMA TileKeeps ==
  ASSUME PanelConstants, PanelInv, NEW d \in Devices,
         Panel!TileRead(d) \/ Panel!TileDone(d) \/ Panel!TileFails(d)
  PROVE  PanelInv'
<1>0. /\ requests[d] \in TileRequests /\ requests[d] # Absent
      /\ server[d] \in Nat /\ tiles[d] \in Nat /\ tiles \in Revisions /\ server \in Revisions
      /\ requests \in [Devices -> TileRequests \cup {Absent}]
  BY DEF Panel!TileRead, Panel!TileDone, Panel!TileFails, PanelInv, PanelTypes, Revisions
<1>1. InOrder(d) /\ Comes(d)
  BY DEF PanelInv, TilesFollow
<1>2. CASE Panel!TileRead(d)
  <2> PICK new : new = [requests[d] EXCEPT !.read = server[d]]
    OBVIOUS
  <2>1. /\ requests[d].read = Absent /\ requests' = [requests EXCEPT ![d] = new]
        /\ UNCHANGED <<activePage, viewMode, queue, running, tiles, drawnPage, drawnMode, server, due, modal, stale, crossed, failed,
                       failures>>
    BY <1>2 DEF Panel!TileRead
  <2>2. new \in TileRequests /\ new.here = requests[d].here /\ new.read = server[d] /\ new.pending = requests[d].pending
    BY <1>0 DEF TileRequests
  <2>3. requests' \in [Devices -> TileRequests \cup {Absent}] /\ requests'[d] = new
        /\ \A e \in Devices : e # d => requests'[e] = requests[e]
    BY <1>0, <2>1, <2>2
  <2>4. InOrder(d)'
    BY <1>0, <1>1, <2>1, <2>2, <2>3 DEF InOrder
  <2>5. Comes(d)'
    BY <1>0, <1>1, <2>1, <2>2, <2>3 DEF PanelConstants, Comes, Pushed, Brings
  <2> QED BY <1>0, <2>1, <2>3, <2>4, <2>5, RequestKeeps DEF PanelInv, PanelTypes
<1>3. CASE Panel!TileDone(d)
  <2> PICK fresh : fresh = IF requests[d].here THEN requests[d].read ELSE tiles[d]
    OBVIOUS
  <2> PICK again : again = Panel!Again(d, fresh)
    OBVIOUS
  <2>1. /\ requests[d].read # Absent
        /\ tiles' = [tiles EXCEPT ![d] = fresh] /\ requests' = [requests EXCEPT ![d] = again]
        /\ UNCHANGED <<activePage, viewMode, queue, running, drawnPage, drawnMode, server, due, modal, stale, crossed, failed,
                       failures>>
    BY <1>3 DEF Panel!TileDone
  <2>2. requests[d].read \in Nat
    BY <1>0, <2>1 DEF TileRequests
  <2>3. fresh \in Nat /\ tiles[d] <= fresh /\ fresh <= server[d] /\ (requests[d].here => fresh = requests[d].read)
    BY <1>0, <1>1, <2>1, <2>2 DEF InOrder
  <2>4. /\ again \in TileRequests \cup {Absent}
        /\ again # Absent => again.here /\ again.read = Absent /\ again.pending = Absent
        /\ requests[d].pending = server[d] => again # Absent \/ fresh = server[d]
    BY <1>0, <2>3, AgainBrings
  <2>5. /\ requests' \in [Devices -> TileRequests \cup {Absent}] /\ requests'[d] = again
        /\ \A e \in Devices : e # d => requests'[e] = requests[e]
    BY <1>0, <2>1, <2>4
  <2>6. tiles' \in Revisions /\ tiles'[d] = fresh /\ \A e \in Devices : e # d => tiles'[e] = tiles[e]
    BY <1>0, <2>1, <2>3 DEF Revisions
  <2>7. InOrder(d)'
    BY <1>1, <2>1, <2>3, <2>4, <2>5, <2>6 DEF InOrder
  <2>8. tiles[d] = server[d] => fresh = server[d]
    BY <1>0, <2>3
  <2>9. Brings(d) => fresh = server[d] \/ again # Absent
    BY <1>0, <2>1, <2>3, <2>4 DEF Brings
  <2>10. Comes(d)'
    BY <1>1, <2>1, <2>4, <2>5, <2>6, <2>8, <2>9 DEF Comes, Pushed, Brings
  <2> QED BY <2>1, <2>5, <2>6, <2>7, <2>10, RequestKeeps DEF PanelInv, PanelTypes
<1>4. CASE Panel!TileFails(d) /\ ~requests[d].here
  <2> PICK again : again = Panel!Again(d, tiles[d])
    OBVIOUS
  <2>1. /\ requests' = [requests EXCEPT ![d] = again] /\ failures' = failures + 1
        /\ UNCHANGED <<activePage, viewMode, queue, running, tiles, drawnPage, drawnMode, server, due, modal, stale, crossed, failed>>
    BY <1>4 DEF Panel!TileFails, Panel!Quiet
  <2>2. /\ again \in TileRequests \cup {Absent}
        /\ again # Absent => again.here /\ again.read = Absent /\ again.pending = Absent
        /\ requests[d].pending = server[d] => again # Absent \/ tiles[d] = server[d]
    BY <1>0, AgainBrings
  <2>3. /\ requests' \in [Devices -> TileRequests \cup {Absent}] /\ requests'[d] = again
        /\ \A e \in Devices : e # d => requests'[e] = requests[e]
    BY <1>0, <2>1, <2>2
  <2>4. InOrder(d)'
    BY <1>1, <2>1, <2>2, <2>3 DEF InOrder
  <2>5. Comes(d)'
    BY <1>1, <1>4, <2>1, <2>2, <2>3 DEF Comes, Pushed, Brings
  <2>6. failures' \in Nat /\ failures' # 0
    BY <2>1 DEF PanelInv, PanelTypes
  <2> QED BY <1>0, <2>1, <2>3, <2>4, <2>5, <2>6, RequestKeeps
<1>5. CASE Panel!TileFails(d) /\ requests[d].here
  <2>1. /\ requests' = [requests EXCEPT ![d] = Absent] /\ failures' = failures + 1
        /\ Panel!Exchange(viewMode, Absent, activePage)
        /\ UNCHANGED <<activePage, viewMode, tiles, drawnPage, drawnMode, server, due, modal, stale, crossed, failed>>
    BY <1>5 DEF Panel!TileFails, Panel!RefreshMode
  <2>2. /\ requests' \in [Devices -> TileRequests \cup {Absent}] /\ requests'[d] = Absent
        /\ \A e \in Devices : e # d => requests'[e] = requests[e]
    BY <1>0, <2>1
  <2>3. /\ PanelTypes /\ TilesFollow /\ activePage' \in Pages /\ viewMode' \in Panel!Modes /\ failures' \in Nat
        /\ viewMode' = viewMode /\ activePage' = activePage
    BY <2>1 DEF PanelInv, PanelTypes
  <2>4. Asks(viewMode', activePage')
    BY <2>1, <2>3, ExchangeAsks DEF PanelTypes
  <2>5. \A e \in Devices : InOrder(e)'
    <3> SUFFICES ASSUME NEW e \in Devices PROVE InOrder(e)'
      OBVIOUS
    <3>1. InOrder(e)
      BY <2>3 DEF TilesFollow
    <3> QED BY <2>1, <2>2, <2>3, <2>4, <3>1, AsksKeep DEF InOrder
  <2>6. \A e \in Devices : Comes(e)'
    BY <2>3, <2>4, AsksKeep DEF Comes
  <2> QED BY <2>1, <2>2, <2>3, <2>4, <2>5, <2>6, AsksKeep DEF PanelInv, PanelTypes, TilesFollow
<1> QED BY <1>2, <1>3, <1>4, <1>5

\* At first every tile shows what the server has.
LEMMA PanelInitHolds == ASSUME PanelConstants, Panel!Init PROVE PanelInv
<1>1. /\ activePage \in Pages /\ drawnPage = activePage /\ viewMode \in Panel!Modes /\ drawnMode = viewMode
      /\ queue = <<>> /\ running = Absent /\ failures = 0 /\ stale = FALSE
      /\ server = [d \in Devices |-> 0] /\ tiles = server /\ requests = [d \in Devices |-> Absent]
  BY DEF Panel!Init
<1>2. server \in Revisions /\ tiles \in Revisions /\ requests \in [Devices -> TileRequests \cup {Absent}]
  BY <1>1 DEF Revisions
<1>3. PanelTypes
  BY <1>1, <1>2 DEF PanelTypes
<1>4. \A d \in Devices : InOrder(d) /\ Comes(d)
  BY <1>1 DEF InOrder, Comes
<1> QED BY <1>1, <1>3, <1>4 DEF PanelInv, PageFollows, ModeFollows, ModeOfChain, TilesFollow

\* The invariant of the device tiles.
LEMMA PanelInvariance == ASSUME PanelConstants PROVE Panel!Spec => []PanelInv
<1>1. Panel!Init => PanelInv
  BY PanelInitHolds
<1>2. PanelInv /\ [Panel!Next]_(Panel!panelVars) => PanelInv'
  <2> SUFFICES ASSUME PanelInv, [Panel!Next]_(Panel!panelVars) PROVE PanelInv'
    OBVIOUS
  <2>1. CASE UNCHANGED Panel!panelVars
    BY <2>1, StillKeeps DEF Panel!panelVars, PanelInv, TilesFollow
  <2> QED BY <2>1, UserKeeps, ChainKeeps, ExchangeEnds, PushesKeep, TileKeeps DEF Panel!Next
<1> QED BY <1>1, <1>2, PTL DEF Panel!Spec

\* When nothing is under way every tile shows its device's structure, for any number of devices, pushes, clicks and
\* requests, unless the last exchange failed or a push met it on its way.
THEOREM TilesCatchUpProof == ASSUME PanelConstants PROVE Panel!Spec => []Panel!TilesCatchUp
<1>1. PanelInv => Panel!TilesCatchUp
  BY DEF PanelInv, TilesFollow, Comes, Pushed, Brings, Panel!TilesCatchUp, Panel!AtRest
<1> QED BY <1>1, PanelInvariance, PTL

\* Of any number of clicks on page tabs the last one counts, once nothing is under way and no exchange failed.
THEOREM LastClickWinsProof == ASSUME PanelConstants PROVE Panel!Spec => []Panel!LastClickWins
<1>1. PanelInv => Panel!LastClickWins
  BY DEF PanelInv, PageFollows, Panel!LastClickWins, Panel!AtRest
<1> QED BY <1>1, PanelInvariance, PTL

\* The tiles are drawn in the mode of the toggle once nothing is under way, for any chain of exchanges, as long as none failed.
THEOREM ToggleMatchesTilesProof == ASSUME PanelConstants PROVE Panel!Spec => []Panel!ToggleMatchesTiles
<1>1. PanelInv => Panel!ToggleMatchesTiles
  BY DEF PanelInv, ModeFollows, ModeOfChain, Panel!ToggleMatchesTiles, Panel!AtRest
<1> QED BY <1>1, PanelInvariance, PTL

(***************************************************************************)
(* The frame of the dashboard.                                             *)
(***************************************************************************)

CONSTANTS Panels, Grids, Widths, Rooms, MoreWidth, Gap, MaxMoves
VARIABLES activePanel, loaded, errors, grid, liveSource, liveFallback, focus, opened, navMode, room,
          overflow, moves

Shell == INSTANCE DashboardShell

\* A panel is asked for exactly while its text or its assets are under way.
ShellTypes ==
  /\ activePanel \in Panels
  /\ flights \in [Panels -> {"html", "assets", Absent}]
  /\ requests = {p \in Panels : flights[p] # Absent}

ShellInv == ShellTypes /\ Shell!StreamCoversPanel /\ Shell!ActiveIsServed /\ Shell!FocusIsTaken

\* At first the panel in sight is there or asked for.
LEMMA ShellInitHolds == ASSUME Absent \notin {"html", "assets"}, Shell!Init PROVE ShellInv
<1>1. ShellTypes
  BY DEF Shell!Init, ShellTypes
<1>2. Shell!StreamCoversPanel /\ Shell!ActiveIsServed /\ Shell!FocusIsTaken
  BY DEF Shell!Init, Shell!StreamCoversPanel, Shell!ActiveIsServed, Shell!FocusIsTaken
<1> QED BY <1>1, <1>2 DEF ShellInv

\* A panel that is shown is there or asked for, and the stream follows it.
LEMMA ShowKeeps ==
  ASSUME Absent \notin {"html", "assets"}, ShellInv, NEW p \in Panels, Shell!Show(p), UNCHANGED <<loaded, grid, viewMode, liveFallback>>
  PROVE  ShellTypes' /\ Shell!StreamCoversPanel' /\ Shell!ActiveIsServed'
<1>1. Shell!StreamCoversPanel'
  BY DEF Shell!Show, Shell!SyncLive, Shell!StreamCoversPanel
<1>2. CASE p \in loaded \cup requests
  BY <1>1, <1>2 DEF ShellInv, ShellTypes, Shell!Show, Shell!Ask, Shell!ActiveIsServed
<1>3. CASE p \notin loaded \cup requests
  <2>1. flights' = [flights EXCEPT ![p] = "html"] /\ requests' = requests \cup {p} /\ activePanel' = p
    BY <1>3 DEF Shell!Show, Shell!Ask
  <2> QED BY <1>1, <2>1 DEF ShellInv, ShellTypes, Shell!ActiveIsServed
<1> QED BY <1>2, <1>3

\* Clicks and deep links.
LEMMA NavigationKeeps ==
  ASSUME Absent \notin {"html", "assets"}, ShellInv,
         \/ \E p \in Panels : Shell!SetActivePanel(p)
         \/ \E id \in Ids : Shell!OpenPanel(id) \/ Shell!OpenHeldBack(id)
  PROVE  ShellInv'
<1>1. CASE \E p \in Panels : Shell!SetActivePanel(p)
  BY <1>1, ShowKeeps DEF Shell!SetActivePanel, ShellInv, Shell!FocusIsTaken
<1>2. ASSUME NEW id \in Ids, Shell!OpenPanel(id)
      PROVE  ShellInv'
  <2>1. "devices" \in Panels /\ Shell!Show("devices") /\ UNCHANGED <<loaded, grid, viewMode, liveFallback>>
    BY <1>2 DEF Shell!OpenPanel
  <2>2. Shell!FocusIsTaken'
    BY <1>2 DEF Shell!OpenPanel, Shell!Taken, Shell!FocusIsTaken
  <2> QED BY <2>1, <2>2, ShowKeeps DEF ShellInv
<1>3. ASSUME NEW id \in Ids, Shell!OpenHeldBack(id)
      PROVE  ShellInv'
  BY <1>3 DEF Shell!OpenHeldBack, Shell!Taken, ShellInv, ShellTypes, Shell!StreamCoversPanel,
              Shell!ActiveIsServed, Shell!FocusIsTaken
<1> QED BY <1>1, <1>2, <1>3

\* What comes of a panel that was asked for.
LEMMA PanelComes ==
  ASSUME Absent \notin {"html", "assets"}, ShellInv, NEW p \in Panels,
         Shell!PanelHtml(p) \/ Shell!AssetsLoaded(p) \/ Shell!PanelFails(p)
  PROVE  ShellInv'
<1>1. CASE Shell!PanelHtml(p)
  <2>1. CASE activePanel = p
    BY <1>1, <2>1 DEF Shell!PanelHtml, ShellInv, ShellTypes, Shell!StreamCoversPanel, Shell!ActiveIsServed, Shell!FocusIsTaken
  <2>2. CASE activePanel # p
    BY <1>1, <2>2 DEF Shell!PanelHtml, Shell!Settled, ShellInv, ShellTypes, Shell!StreamCoversPanel, Shell!ActiveIsServed,
                      Shell!FocusIsTaken
  <2> QED BY <2>1, <2>2
<1>2. CASE Shell!AssetsLoaded(p)
  <2>1. Shell!StreamCoversPanel'
    BY <1>2 DEF Shell!AssetsLoaded, Shell!SyncLoaded, Shell!SyncLive, Shell!StreamCoversPanel
  <2>2. ShellTypes' /\ Shell!ActiveIsServed'
    BY <1>2 DEF Shell!AssetsLoaded, ShellInv, ShellTypes, Shell!ActiveIsServed
  <2>3. Shell!FocusIsTaken'
    BY <1>2 DEF Shell!AssetsLoaded, ShellInv, Shell!FocusIsTaken
  <2> QED BY <2>1, <2>2, <2>3 DEF ShellInv
<1>3. CASE Shell!PanelFails(p)
  BY <1>3 DEF Shell!PanelFails, ShellInv, ShellTypes, Shell!StreamCoversPanel, Shell!ActiveIsServed, Shell!FocusIsTaken
<1> QED BY <1>1, <1>2, <1>3

\* What changes under the panel in sight.
LEMMA SurroundingsKeep ==
  ASSUME ShellInv,
         \/ \E g \in Grids : Shell!SwapGrid(g)
         \/ \E m \in {"control", "compact"} : Shell!SwapTiles(m)
         \/ Shell!StreamFails
         \/ \E m \in {"more", "menu"}, r \in Rooms : Shell!Refit(m, r)
         \/ UNCHANGED Shell!shellVars
  PROVE  ShellInv'
<1>1. UNCHANGED <<activePanel, loaded, requests, flights, errors, focus>>
  BY DEF Shell!SwapGrid, Shell!SwapTiles, Shell!StreamFails, Shell!Refit, Shell!shellVars
<1>2. Shell!StreamCoversPanel'
  BY DEF Shell!SwapGrid, Shell!SwapTiles, Shell!StreamFails, Shell!Refit, Shell!shellVars, Shell!SyncLive, ShellInv,
         Shell!StreamCoversPanel
<1> QED BY <1>1, <1>2 DEF ShellInv, ShellTypes, Shell!ActiveIsServed, Shell!FocusIsTaken

\* The invariant of the frame.
LEMMA ShellInvariance == ASSUME Absent \notin {"html", "assets"} PROVE Shell!Spec => []ShellInv
<1>1. Shell!Init => ShellInv
  BY ShellInitHolds
<1>2. ShellInv /\ [Shell!Next]_(Shell!shellVars) => ShellInv'
  <2> SUFFICES ASSUME ShellInv, [Shell!Next]_(Shell!shellVars) PROVE ShellInv'
    OBVIOUS
  <2> QED BY NavigationKeeps, PanelComes, SurroundingsKeep DEF Shell!Next
<1> QED BY <1>1, <1>2, PTL DEF Shell!Spec

\* Unless it broke, the stream carries what the panel in sight displays, for any panels, cards and answers in any
\* order.
THEOREM StreamCoversPanelProof == ASSUME Absent \notin {"html", "assets"} PROVE Shell!Spec => []Shell!StreamCoversPanel
<1>1. ShellInv => Shell!StreamCoversPanel
  BY DEF ShellInv
<1> QED BY <1>1, ShellInvariance, PTL

\* The panel in sight is there, on its way, or says why it is not, however the user comes and goes meanwhile.
THEOREM ActiveIsServedProof == ASSUME Absent \notin {"html", "assets"} PROVE Shell!Spec => []Shell!ActiveIsServed
<1>1. ShellInv => Shell!ActiveIsServed
  BY DEF ShellInv
<1> QED BY <1>1, ShellInvariance, PTL

\* No deep link is left over once the devices panel is there, however many were followed while it loaded.
THEOREM FocusIsTakenProof == ASSUME Absent \notin {"html", "assets"} PROVE Shell!Spec => []Shell!FocusIsTaken
<1>1. ShellInv => Shell!FocusIsTaken
  BY DEF ShellInv
<1> QED BY <1>1, ShellInvariance, PTL

(***************************************************************************)
(* The values of the cards.                                                *)
(***************************************************************************)

CONSTANTS Page, Values
VARIABLES focused

Cells == INSTANCE LiveCells

\* The first cell of an entity shows what the stream sent last, unless that was that it is forgotten.
CellsInv ==
  /\ sent \in [Cells!Entities -> Values \cup {Absent}] /\ server \in [Cells!Entities -> Values \cup {Absent}]
  /\ \A i \in Cells!Named(Cells!Entities) :
       (sent[Page[i].entity] # Absent /\ Cells!Free(i)) => shown[i] = Cells!Display(Page[i], sent[Page[i].entity])

\* A cell that is the first of an entity is a cell of that entity.
LEMMA NamedAreOfTheEntity ==
  ASSUME NEW S \in SUBSET Cells!Entities
  PROVE  \A i : i \in Cells!Named(S) <=> i \in Cells!Named(Cells!Entities) /\ Page[i].entity \in S
<1>1. \A e, g : \A i \in Cells!FirstCell(e, g) : i \in 1 .. Len(Page) /\ Page[i].entity = e
  BY DEF Cells!FirstCell
<1>2. \A T, i : i \in Cells!Named(T) <=> \E e \in T, g \in 1 .. Len(Cells!Groups) : i \in Cells!FirstCell(e, g)
  BY DEF Cells!Named
<1> QED BY <1>1, <1>2

\* What an entity is at is what its free cells display.
LEMMA FreeIsDrawn ==
  ASSUME NEW i, Cells!Free(i), NEW v, v # Absent
  PROVE  Cells!Drawn(i, Cells!Merge(v)) = Cells!Display(Page[i], v)
BY DEF Cells!Free, Cells!Drawn, Cells!Merge

\* Every step of the registry, the stream and the user.
LEMMA CellsStepKeeps ==
  ASSUME Absent \notin Values, CellsInv, [Cells!Next]_(Cells!cellVars)
  PROVE  CellsInv'
<1>0. \A i \in Cells!Named(Cells!Entities) : i \in 1 .. Len(Page) /\ Page[i].entity \in Cells!Entities
  BY DEF Cells!Named, Cells!FirstCell, Cells!Entities
<1>1. CASE UNCHANGED <<sent, shown>> /\ server' \in [Cells!Entities -> Values \cup {Absent}]
  BY <1>1 DEF CellsInv
<1>2. ASSUME NEW e \in Cells!Entities, NEW v \in Values \cup {Absent}, Cells!Change(e, v)
      PROVE  CellsInv'
  BY <1>1, <1>2 DEF Cells!Change, CellsInv
<1>3. CASE Cells!PushDelta
  <2> DEFINE news == [e \in Cells!News |-> server[e]]
  <2>1. sent' = server /\ server' = server /\ shown' = Cells!Delta(news)
    BY <1>3 DEF Cells!PushDelta
  <2>2. DOMAIN news = Cells!News /\ Cells!News \in SUBSET Cells!Entities
    BY DEF Cells!News
  <2>3. ASSUME NEW i \in Cells!Named(Cells!Entities), sent'[Page[i].entity] # Absent, Cells!Free(i)
        PROVE  shown'[i] = Cells!Display(Page[i], sent'[Page[i].entity])
    <3>1. CASE Page[i].entity \in Cells!News
      <4>1. i \in Cells!Named(DOMAIN news)
        BY <2>2, <2>3, <3>1, NamedAreOfTheEntity
      <4>2. shown'[i] = Cells!Drawn(i, Cells!Merge(news[Page[i].entity]))
        BY <1>0, <2>1, <4>1 DEF Cells!Delta
      <4>3. news[Page[i].entity] = sent'[Page[i].entity]
        BY <2>1, <3>1
      <4> QED BY <2>3, <4>2, <4>3, FreeIsDrawn
    <3>2. CASE Page[i].entity \notin Cells!News
      <4>1. i \notin Cells!Named(DOMAIN news)
        BY <2>2, <3>2, NamedAreOfTheEntity
      <4>2. shown'[i] = shown[i]
        BY <1>0, <2>1, <4>1 DEF Cells!Delta
      <4>3. sent'[Page[i].entity] = sent[Page[i].entity]
        BY <1>0, <2>1, <2>3, <3>2 DEF Cells!News
      <4> QED BY <2>3, <4>2, <4>3 DEF CellsInv
    <3> QED BY <3>1, <3>2
  <2>4. \A i : Cells!Free(i)' = Cells!Free(i)
    BY DEF Cells!Free
  <2> QED BY <2>1, <2>3, <2>4 DEF CellsInv
<1>4. CASE Cells!PushFull
  <2>1. sent' = server /\ server' = server /\ shown' = Cells!Full(server)
    BY <1>4 DEF Cells!PushFull
  <2>2. \A i \in 1 .. Len(Page) : shown'[i] = Cells!Drawn(i, Cells!Merge(server[Page[i].entity]))
    BY <2>1 DEF Cells!Full
  <2> QED BY <1>0, <2>1, <2>2, FreeIsDrawn DEF CellsInv, Cells!Free
<1>5. ASSUME NEW i \in 0 .. Len(Page), Cells!Focus(i)
      PROVE  CellsInv'
  BY <1>1, <1>5 DEF Cells!Focus, CellsInv
<1>6. CASE UNCHANGED Cells!cellVars
  BY <1>1, <1>6 DEF Cells!cellVars, CellsInv
<1> QED BY <1>2, <1>3, <1>4, <1>5, <1>6 DEF Cells!Next

\* However full pushes and deltas follow one another, the first cell of an entity shows what drawing it anew would
\* show, for any page, entities and values.
THEOREM FirstCellsFollowProof == ASSUME Absent \notin Values PROVE Cells!Spec => []Cells!FirstCellsFollow
<1>1. ASSUME Cells!Init PROVE CellsInv
  <2>1. /\ sent \in [Cells!Entities -> Values] /\ server = sent
        /\ shown = [i \in 1 .. Len(Page) |-> Cells!Display(Page[i], Cells!Merge(server[Page[i].entity]))]
    BY <1>1 DEF Cells!Init
  <2>2. \A i \in Cells!Named(Cells!Entities) : i \in 1 .. Len(Page) /\ Page[i].entity \in Cells!Entities
    BY DEF Cells!Named, Cells!FirstCell, Cells!Entities
  <2> QED BY <2>1, <2>2 DEF CellsInv, Cells!Merge
<1>2. ASSUME CellsInv PROVE Cells!FirstCellsFollow
  <2>1. ASSUME NEW i \in Cells!Named(Cells!Entities),
               server[Page[i].entity] # Absent, server[Page[i].entity] = sent[Page[i].entity], Cells!Free(i)
        PROVE  Cells!Same(i)
    BY <1>2, <2>1 DEF CellsInv, Cells!Same
  <2> QED BY <2>1 DEF Cells!FirstCellsFollow
<1>3. CellsInv /\ [Cells!Next]_(Cells!cellVars) => CellsInv'
  BY CellsStepKeeps
<1> QED BY <1>1, <1>2, <1>3, PTL DEF Cells!Spec

(***************************************************************************)
(* The layout editor.                                                      *)
(***************************************************************************)

CONSTANTS Layouts
VARIABLES keptLayout, layout, dressed, sheet, editorMode, layoutReads, readFailed, layoutWrite,
          dirty, question, chosenPage

Layout == INSTANCE LayoutEditor WITH unsaved <- dirty

LayoutInv == layoutReads \in Nat /\ Layout!CleanIsStored

\* Entering, reading, and the grid that is exchanged under the editor.
LEMMA SessionKeeps ==
  ASSUME LayoutInv, Layout!EnterEdit \/ Layout!LayoutRead \/ Layout!ReadFails \/ Layout!Refresh
  PROVE  LayoutInv'
<1>1. CASE Layout!EnterEdit
  BY <1>1 DEF Layout!EnterEdit, LayoutInv, Layout!CleanIsStored
<1>2. CASE Layout!LayoutRead
  BY <1>2 DEF Layout!LayoutRead, LayoutInv, Layout!CleanIsStored
<1>3. CASE Layout!ReadFails
  BY <1>3 DEF Layout!ReadFails, LayoutInv, Layout!CleanIsStored
<1>4. CASE Layout!Refresh
  BY <1>4 DEF Layout!Refresh, LayoutInv, Layout!CleanIsStored
<1> QED BY <1>1, <1>2, <1>3, <1>4

\* Saving, discarding, and the question before either loses something.
LEMMA LeavingKeeps ==
  ASSUME LayoutInv,
         \/ Layout!Save \/ Layout!SaveOk \/ Layout!SaveFails \/ Layout!Discard \/ Layout!GuardDiscard \/ Layout!GuardCancel
         \/ \E p : Layout!ClickPage(p)
  PROVE  LayoutInv'
<1>1. CASE Layout!Left
  BY <1>1 DEF Layout!Left, LayoutInv, Layout!CleanIsStored
<1>2. CASE UNCHANGED <<keptLayout, layout, editorMode, layoutReads, readFailed, dirty>>
  BY <1>2 DEF LayoutInv, Layout!CleanIsStored
<1>3. CASE Layout!GuardDiscard
  <2>1. CASE question \in {"mode", "discard"}
    BY <1>1, <1>3, <2>1 DEF Layout!GuardDiscard
  <2>2. CASE question \notin {"mode", "discard"}
    BY <1>3, <2>2 DEF Layout!GuardDiscard, LayoutInv, Layout!CleanIsStored
  <2> QED BY <2>1, <2>2
<1>4. CASE Layout!SaveFails
  <2>1. CASE dirty
    BY <1>2, <1>4, <2>1 DEF Layout!SaveFails
  <2>2. CASE ~dirty
    BY <1>1, <1>4, <2>2 DEF Layout!SaveFails
  <2> QED BY <2>1, <2>2
<1>5. CASE Layout!Save \/ Layout!Discard \/ Layout!GuardCancel \/ \E p : Layout!ClickPage(p)
  BY <1>2, <1>5 DEF Layout!Save, Layout!Discard, Layout!GuardCancel, Layout!ClickPage
<1> QED BY <1>1, <1>3, <1>4, <1>5 DEF Layout!SaveOk

\* Every gesture leaves the layout marked dirty.
LEMMA LayoutGesturesKeep ==
  ASSUME LayoutInv,
         \/ Layout!CardGesture \/ Layout!CloseSheet \/ Layout!ChangeOption
         \/ \E id, before : Layout!AddCard(id, before)
         \/ \E id : Layout!AddPage(id)
         \/ Layout!RemovePage \/ Layout!ChangePage
  PROVE  LayoutInv'
<1>1. CASE dirty' /\ UNCHANGED layoutReads
  BY <1>1 DEF LayoutInv, Layout!CleanIsStored
<1>2. CASE UNCHANGED <<keptLayout, layout, editorMode, layoutReads, readFailed, dirty>>
  BY <1>2 DEF LayoutInv, Layout!CleanIsStored
<1>3. CASE Layout!CloseSheet \/ \E id : Layout!OpenSheet(id)
  BY <1>2, <1>3 DEF Layout!CloseSheet, Layout!OpenSheet
<1>4. CASE Layout!Gesture
  BY <1>1, <1>4 DEF Layout!Gesture
<1>5. CASE Layout!PageGesture
  BY <1>1, <1>5 DEF Layout!PageGesture
<1>6. ASSUME NEW id,
             \/ Layout!ChangeCard(id) \/ Layout!RemoveCard(id)
             \/ \E before : Layout!MoveCard(id, before) \/ Layout!AddCard(id, before)
      PROVE  Layout!Gesture
  BY <1>6 DEF Layout!ChangeCard, Layout!RemoveCard, Layout!MoveCard, Layout!AddCard
<1>7. Layout!ChangeOption => Layout!Gesture
  BY DEF Layout!ChangeOption
<1>8. (\E id : Layout!AddPage(id)) \/ Layout!RemovePage \/ Layout!ChangePage => Layout!PageGesture
  BY DEF Layout!AddPage, Layout!RemovePage, Layout!ChangePage
<1> QED BY <1>3, <1>4, <1>5, <1>6, <1>7, <1>8 DEF Layout!CardGesture

\* While nothing is marked dirty the layout in the editor is the stored one, for any layouts and any sequence of
\* gestures, saves and discards, unless a load failed.
THEOREM CleanIsStoredProof == Layout!Spec => []Layout!CleanIsStored
<1>1. Layout!Init => LayoutInv
  BY DEF Layout!Init, LayoutInv, Layout!CleanIsStored
<1>2. LayoutInv /\ [Layout!Next]_(Layout!layoutVars) => LayoutInv'
  <2> SUFFICES ASSUME LayoutInv, [Layout!Next]_(Layout!layoutVars) PROVE LayoutInv'
    OBVIOUS
  <2>1. CASE UNCHANGED Layout!layoutVars
    BY <2>1 DEF Layout!layoutVars, Layout!sessionVars, LayoutInv, Layout!CleanIsStored
  <2> QED BY <2>1, SessionKeeps, LeavingKeeps, LayoutGesturesKeep DEF Layout!Next
<1>3. LayoutInv => Layout!CleanIsStored
  BY DEF LayoutInv
<1> QED BY <1>1, <1>2, <1>3, PTL DEF Layout!Spec

(***************************************************************************)
(* The selection of steps on its way through the installer.                *)
(***************************************************************************)

CONSTANTS Optional, Services, Default, Needs
VARIABLES wirt, flowScreen, wayIn, connected, fingerprint, blocked, sudoAsked, selection,
          selectionAtEntry, servicesOnly, choice, passwords, installInput, cameWith

Flow == INSTANCE InstallFlow WITH entry <- wayIn, draft <- choice

\* No step of a manifest that is required requires another one itself.
FlowConstants ==
  /\ \A id \in Optional : Needs[id] # Absent => Needs[id] \in Optional /\ Needs[Needs[id]] = Absent
  /\ Absent \notin BOOLEAN /\ Absent \notin Flow!Choice /\ Absent \notin [steps : Flow!Choice]

\* A selection that asks for no opt-in without the step it is for.
Sound(choices) == choices \in Flow!Choice /\ Flow!Consistent(choices)

FlowInv ==
  /\ Sound(stored)
  /\ selection # Absent => Sound(selection)
  /\ selectionAtEntry # Absent => Sound(selectionAtEntry)
  /\ choice # Absent => Sound(choice)
  /\ installInput # Absent => Sound(installInput.steps)
  /\ flowScreen = "configure" => choice # Absent
  /\ flowScreen = "dashboard" => installInput # Absent
  /\ flowScreen = "preview" => selection = stored

\* What the page drops leaves a selection that is sound.
LEMMA DropUnmetIsSound ==
  ASSUME FlowConstants, NEW choices \in Flow!Choice
  PROVE  Sound(Flow!DropUnmet(choices))
<1> PICK kept : kept = Flow!DropUnmet(choices)
  OBVIOUS
<1>1. \A id \in Optional : kept[id] = IF choices[id] = TRUE /\ ~Flow!RequiresMet(id, choices) THEN FALSE ELSE choices[id]
  BY DEF Flow!DropUnmet
<1>2. kept \in Flow!Choice
  BY DEF Flow!DropUnmet, Flow!Choice
<1>3. \A id \in Optional : Needs[id] = Absent => kept[id] = choices[id]
  BY <1>1 DEF Flow!RequiresMet
<1>4. ASSUME NEW id \in Optional, kept[id] = TRUE PROVE Flow!RequiresMet(id, kept)
  <2>1. Flow!RequiresMet(id, choices)
    BY <1>1, <1>4
  <2>2. CASE Needs[id] = Absent
    BY <2>2 DEF Flow!RequiresMet
  <2>3. CASE Needs[id] # Absent
    <3>1. Needs[id] \in Optional /\ kept[Needs[id]] = choices[Needs[id]]
      BY <2>3, <1>3 DEF FlowConstants
    <3> QED BY <2>1, <3>1 DEF Flow!RequiresMet, Flow!IsSelected
  <2> QED BY <2>2, <2>3
<1> QED BY <1>2, <1>4 DEF Sound, Flow!Consistent

\* A switch of a row, of one step or of all devices, leaves a selection that is sound.
LEMMA ToggleIsSound ==
  ASSUME FlowConstants, Sound(choice), NEW row \in Flow!Toggles(choice) \cup Flow!Chips(choice), Flow!Toggle(row)
  PROVE  Sound(choice')
<1> PICK switched : switched = [id \in Optional |-> IF id \in row.ids THEN ~row.on ELSE choice[id]]
  OBVIOUS
<1>1. switched \in Flow!Choice
  <2>1. (~row.on) \in BOOLEAN
    OBVIOUS
  <2>2. \A id \in Optional : choice[id] \in {TRUE, FALSE, Absent}
    BY DEF Sound, Flow!Choice
  <2> QED BY <2>1, <2>2 DEF Flow!Choice
<1>2. choice' = Flow!DropUnmet(switched)
  BY DEF Flow!Toggle
<1> QED BY <1>1, <1>2, DropUnmetIsSound

\* The configuration opens with a selection that is sound.
LEMMA OpenConfigureKeeps ==
  ASSUME FlowConstants, FlowInv, Flow!OpenConfigure, UNCHANGED <<stored, installInput>>
  PROVE  FlowInv'
<1> PICK read : read = IF selection # Absent THEN selection ELSE stored
  OBVIOUS
<1>1. Sound(read) /\ read # Absent
  BY DEF FlowInv, FlowConstants, Sound
<1>2. /\ selection' = read /\ flowScreen' = "configure" /\ UNCHANGED selectionAtEntry
      /\ choice' = IF installInput # Absent THEN installInput.steps ELSE Flow!DropUnmet(read)
  BY DEF Flow!OpenConfigure, Flow!Appears
<1>3. Sound(choice')
  BY <1>1, <1>2, DropUnmetIsSound DEF FlowInv, Sound
<1>4. choice' # Absent
  BY <1>3 DEF Sound, FlowConstants
<1> QED BY <1>1, <1>2, <1>3, <1>4 DEF FlowInv

\* Arriving at a screen with what is stored and kept unchanged; the configuration opens, and the dashboard's inputs
\* are there when they are kept.
LEMMA GoesKeeps ==
  ASSUME FlowConstants, FlowInv, NEW name, Flow!Goes(name), stored' = stored, choice' \in {choice, Absent},
         \/ installInput' = installInput
         \/ installInput' = Absent
         \/ choice # Absent /\ installInput' = [steps |-> choice],
         name # "configure", name = "dashboard" => installInput' # Absent
  PROVE  FlowInv'
<1>1. flowScreen' = name
  BY DEF Flow!Goes, Flow!Appears
<1>2. CASE name = "preview"
  <2>1. selection' = stored /\ selectionAtEntry' \in {stored, selectionAtEntry}
    BY <1>2 DEF Flow!Goes, Flow!Previewed
  <2> QED BY <1>1, <1>2, <2>1 DEF FlowInv
<1>3. CASE name # "preview"
  <2>1. UNCHANGED <<selection, selectionAtEntry>>
    BY <1>3 DEF Flow!Goes
  <2> QED BY <1>1, <1>3, <2>1 DEF FlowInv
<1> QED BY <1>2, <1>3

\* The steps that only look, ask or turn back.
LEMMA LooksKeep ==
  ASSUME FlowConstants, FlowInv,
         \/ \E name \in {"install", "redeploy", "diagnose"} : Flow!SwitchEntry(name)
         \/ Flow!Connected \/ Flow!PrepareBack \/ Flow!PrecheckBack \/ Flow!OpenChangelog \/ Flow!ChangelogBack
         \/ Flow!FinishRun \/ Flow!Repair \/ Flow!Retry
  PROVE  FlowInv'
<1>1. ASSUME NEW name \in {"install", "redeploy", "diagnose"}, Flow!SwitchEntry(name) PROVE FlowInv'
  <2>1. PICK to \in {"precheck", "preview", "diagnose", "connect"} : Flow!GoesTo(to)
    BY <1>1 DEF Flow!SwitchEntry, Flow!FirstScreen
  <2>2. UNCHANGED <<stored, installInput>>
    BY <1>1 DEF Flow!SwitchEntry
  <2>3. choice' \in {choice, Absent} /\ to # "configure" /\ to # "dashboard" /\ Flow!Goes(to)
    BY <2>1 DEF Flow!GoesTo
  <2> QED BY <2>2, <2>3, GoesKeeps
<1>2. CASE Flow!Connected \/ Flow!PrepareBack \/ Flow!PrecheckBack \/ Flow!OpenChangelog \/ Flow!ChangelogBack
           \/ Flow!FinishRun \/ Flow!Repair
  <2>1. UNCHANGED <<stored, installInput>>
    BY <1>2 DEF Flow!Connected, Flow!PrepareBack, Flow!PrecheckBack, Flow!OpenChangelog, Flow!ChangelogBack, Flow!FinishRun, Flow!Repair
  <2>2. \E to \in {"prepare", "connect", "changelog", "preview", "result", "run"} : Flow!GoesTo(to)
    BY <1>2 DEF Flow!Connected, Flow!PrepareBack, Flow!PrecheckBack, Flow!OpenChangelog, Flow!ChangelogBack, Flow!FinishRun, Flow!Repair
  <2> QED BY <2>1, <2>2, GoesKeeps DEF Flow!GoesTo
<1>3. CASE Flow!Retry
  <2>1. UNCHANGED <<stored, installInput>>
    BY <1>3 DEF Flow!Retry
  <2>2. Flow!OpenConfigure \/ \E to \in {"preview", "diagnose"} : Flow!GoesTo(to)
    BY <1>3 DEF Flow!Retry
  <2> QED BY <2>1, <2>2, GoesKeeps, OpenConfigureKeeps DEF Flow!GoesTo
<1> QED BY <1>1, <1>2, <1>3

\* The configuration.
LEMMA ConfigurationKeeps ==
  ASSUME FlowConstants, FlowInv,
         \/ Flow!Proceed \/ Flow!EditServices \/ Flow!DashboardBack
         \/ flowScreen = "configure" /\ \E row \in Flow!Toggles(choice) \cup Flow!Chips(choice) : Flow!Toggle(row)
         \/ Flow!ConfigureStart \/ Flow!ConfigureApply \/ Flow!ConfigureBack
         \/ \E flag \in BOOLEAN : Flow!DashboardStart(flag)
  PROVE  FlowInv'
<1>1. CASE Flow!Proceed \/ Flow!EditServices \/ Flow!DashboardBack
  BY <1>1, OpenConfigureKeeps DEF Flow!Proceed, Flow!EditServices, Flow!DashboardBack
<1>2. ASSUME flowScreen = "configure", NEW row \in Flow!Toggles(choice) \cup Flow!Chips(choice), Flow!Toggle(row) PROVE FlowInv'
  <2>1. Sound(choice)
    BY <1>2 DEF FlowInv
  <2>2. Sound(choice') /\ choice' # Absent
    BY <1>2, <2>1, ToggleIsSound DEF Sound, FlowConstants
  <2>3. UNCHANGED <<flowScreen, stored, selection, selectionAtEntry, installInput>>
    BY <1>2 DEF Flow!Toggle, Flow!shellVars
  <2> QED BY <2>2, <2>3 DEF FlowInv
<1>3. CASE Flow!ConfigureStart
  <2>1. /\ flowScreen = "configure" /\ installInput' = [steps |-> choice] /\ choice' = Absent /\ stored' = stored
        /\ Flow!Goes("dashboard")
    BY <1>3 DEF Flow!ConfigureStart
  <2>2. choice # Absent /\ installInput' # Absent
    BY <2>1 DEF FlowInv, FlowConstants, Sound
  <2> QED BY <2>1, <2>2, GoesKeeps
<1>4. CASE Flow!ConfigureApply
  <2>1. /\ choice # Absent /\ Sound(choice)
    BY <1>4 DEF Flow!ConfigureApply, FlowInv
  <2>2. /\ stored' = choice /\ selection' = choice /\ choice' = Absent /\ flowScreen' = "preview"
        /\ UNCHANGED <<selectionAtEntry, installInput>>
    BY <1>4 DEF Flow!ConfigureApply, Flow!Appears
  <2> QED BY <2>1, <2>2 DEF FlowInv
<1>5. CASE Flow!ConfigureBack
  <2>1. /\ installInput' = Absent /\ choice' = Absent /\ stored' = stored
        /\ \E to \in {"preview", "precheck"} : Flow!Goes(to)
    BY <1>5 DEF Flow!ConfigureBack
  <2> QED BY <2>1, GoesKeeps
<1>6. ASSUME NEW flag \in BOOLEAN, Flow!DashboardStart(flag) PROVE FlowInv'
  <2>1. Sound(installInput.steps)
    BY <1>6 DEF Flow!DashboardStart, FlowInv
  <2>2. /\ flowScreen = "dashboard" /\ stored' = installInput.steps /\ selection' = installInput.steps
        /\ UNCHANGED <<selectionAtEntry, choice>>
    BY <1>6 DEF Flow!DashboardStart
  <2>3. UNCHANGED <<flowScreen, installInput>> \/ (flowScreen' = "run" /\ installInput' = Absent)
    BY <1>6 DEF Flow!DashboardStart, Flow!Appears
  <2> QED BY <2>1, <2>2, <2>3 DEF FlowInv
<1> QED BY <1>1, <1>2, <1>3, <1>4, <1>5, <1>6

\* The preview.
LEMMA PreviewKeeps ==
  ASSUME FlowConstants, FlowInv, Flow!Prepared \/ Flow!PreviewStart \/ Flow!PreviewCancel
  PROVE  FlowInv'
<1>1. CASE Flow!Prepared
  <2>1. /\ flowScreen' \in {"precheck", "preview", "diagnose"} /\ UNCHANGED <<stored, choice, installInput>>
        /\ (flowScreen' = "preview" => selection' = stored)
        /\ selection' \in {stored, Absent} /\ selectionAtEntry' \in {stored, selectionAtEntry}
    BY <1>1 DEF Flow!Prepared, Flow!Appears, Flow!Previewed, Flow!FirstScreen
  <2> QED BY <2>1 DEF FlowInv
<1>2. CASE Flow!PreviewStart
  <2>1. flowScreen' = "run" /\ selectionAtEntry' = Absent /\ UNCHANGED <<stored, selection, choice, installInput>>
    BY <1>2 DEF Flow!PreviewStart, Flow!Appears
  <2> QED BY <2>1 DEF FlowInv
<1>3. CASE Flow!PreviewCancel
  <2>1. flowScreen' \in {"connect", "prepare"} /\ selectionAtEntry' = Absent /\ UNCHANGED <<choice, installInput>>
    BY <1>3 DEF Flow!PreviewCancel, Flow!Appears
  <2>2. \/ UNCHANGED <<stored, selection>>
        \/ selectionAtEntry # Absent /\ stored' = selectionAtEntry /\ selection' = selectionAtEntry
    BY <1>3 DEF Flow!PreviewCancel, Flow!PutBack, Flow!SelectionChanged
  <2> QED BY <2>1, <2>2 DEF FlowInv
<1> QED BY <1>1, <1>2, <1>3

\* Every step of the installer's screens.
LEMMA FlowStepKeeps ==
  ASSUME FlowConstants, FlowInv, [Flow!Next]_(Flow!flowVars)
  PROVE  FlowInv'
<1>1. CASE UNCHANGED <<flowScreen, stored, selection, selectionAtEntry, choice, installInput>>
  BY <1>1 DEF FlowInv
<1>2. CASE \/ Flow!AskFingerprint \/ Flow!ConnectFails \/ (\E bad, sudo \in BOOLEAN : Flow!Precheck(bad, sudo))
           \/ Flow!TypePasswords \/ UNCHANGED Flow!flowVars
  BY <1>1, <1>2 DEF Flow!AskFingerprint, Flow!ConnectFails, Flow!Precheck, Flow!TypePasswords, Flow!flowVars, Flow!shellVars, Flow!choiceVars
<1> QED BY <1>2, LooksKeep, ConfigurationKeeps, PreviewKeeps DEF Flow!Next

\* The invariant holds of every behaviour.
LEMMA FlowInvariant == ASSUME FlowConstants PROVE Flow!Spec => []FlowInv
<1>1. Flow!Init => FlowInv
  BY DEF Flow!Init, FlowInv, Sound
<1> QED BY <1>1, FlowStepKeeps, PTL DEF Flow!Spec

\* No opt-in reaches the node without the step it is for, whatever was switched, in whatever order and however
\* often the screens were left (services.js dropUnmetOptIns); for every manifest in which a required step
\* requires nothing itself.
THEOREM NoHiddenOptInProof == ASSUME FlowConstants PROVE Flow!Spec => []Flow!NoHiddenOptIn
<1>1. FlowInv => Flow!NoHiddenOptIn
  BY DEF FlowInv, Sound, Flow!NoHiddenOptIn
<1> QED BY <1>1, FlowInvariant, PTL

\* Cancelling the preview puts back every service and every opt-in as it was when the page remembered them
\* (screen-preview.js), although only a change of the keys that are on is written back.
THEOREM CancelRestoresProof == ASSUME FlowConstants PROVE Flow!Spec => [][Flow!CancelRestores]_(Flow!flowVars)
<1>1. FlowInv /\ [Flow!Next]_(Flow!flowVars) => [Flow!CancelRestores]_(Flow!flowVars)
  <2> SUFFICES ASSUME FlowInv, Flow!Next, Flow!Cancelled, FlowConstants, NEW id \in Optional \ Default
               PROVE  Flow!IsSelected(id, stored') = Flow!IsSelected(id, selectionAtEntry)
    BY DEF Flow!CancelRestores
  <2>1. flowScreen = "preview" /\ selectionAtEntry # Absent /\ selectionAtEntry' = Absent /\ flowScreen' # "run"
    BY DEF Flow!Cancelled
  <2>2. selectionAtEntry' # selectionAtEntry
    BY <2>1
  <2>3. ~ \E name : Flow!Goes(name)
    BY <2>1 DEF Flow!Goes, Flow!Previewed, FlowInv, Sound, FlowConstants
  <2>4. ~Flow!OpenConfigure
    BY <2>2 DEF Flow!OpenConfigure
  <2>a. ~ \E name \in {"install", "redeploy", "diagnose"} : Flow!SwitchEntry(name)
    BY <2>3 DEF Flow!SwitchEntry, Flow!GoesTo
  <2>b. ~(Flow!Connected \/ Flow!PrepareBack \/ Flow!PrecheckBack \/ Flow!OpenChangelog \/ Flow!ChangelogBack \/ Flow!FinishRun \/ Flow!Repair)
    BY <2>3 DEF Flow!Connected, Flow!PrepareBack, Flow!PrecheckBack, Flow!OpenChangelog, Flow!ChangelogBack, Flow!FinishRun,
       Flow!Repair, Flow!GoesTo
  <2>c. ~(Flow!AskFingerprint \/ Flow!ConnectFails \/ \E bad, sudo \in BOOLEAN : Flow!Precheck(bad, sudo))
    BY <2>2 DEF Flow!AskFingerprint, Flow!ConnectFails, Flow!Precheck, Flow!choiceVars
  <2>d. ~(\/ Flow!Proceed \/ Flow!EditServices \/ Flow!DashboardBack \/ Flow!Retry \/ Flow!ConfigureStart \/ Flow!ConfigureBack)
    BY <2>3, <2>4 DEF Flow!Proceed, Flow!EditServices, Flow!DashboardBack, Flow!Retry, Flow!ConfigureStart, Flow!ConfigureBack, Flow!GoesTo
  <2>e. ~(Flow!TypePasswords \/ Flow!ConfigureApply \/ \E flag \in BOOLEAN : Flow!DashboardStart(flag))
    BY <2>2 DEF Flow!TypePasswords, Flow!ConfigureApply, Flow!DashboardStart
  <2>f. flowScreen # "configure" /\ flowScreen # "prepare"
    BY <2>1
  <2>g. ~Flow!PreviewStart
    BY <2>1 DEF Flow!PreviewStart, Flow!Appears
  <2>h. ~Flow!Prepared
    BY <2>f DEF Flow!Prepared
  <2>5. Flow!PreviewCancel
    BY <2>a, <2>b, <2>c, <2>d, <2>e, <2>f, <2>g, <2>h DEF Flow!Next
  <2>6. selection = stored /\ Sound(stored) /\ Sound(selectionAtEntry) /\ stored # Absent
    BY <2>1 DEF FlowInv, Sound, FlowConstants
  <2>7. CASE Flow!SelectionChanged
    BY <2>5, <2>7 DEF Flow!PreviewCancel, Flow!PutBack
  <2>8. CASE ~Flow!SelectionChanged
    <3>1. stored' = stored /\ Flow!On(selectionAtEntry) = Flow!On(stored)
      BY <2>1, <2>5, <2>6, <2>8 DEF Flow!PreviewCancel, Flow!PutBack, Flow!SelectionChanged
    <3>2. stored[id] = TRUE <=> selectionAtEntry[id] = TRUE
      BY <3>1 DEF Flow!On
    <3>3. stored[id] \in {TRUE, FALSE, Absent} /\ selectionAtEntry[id] \in {TRUE, FALSE, Absent}
      BY <2>6 DEF Sound, Flow!Choice
    <3> QED BY <3>1, <3>2, <3>3 DEF Flow!IsSelected
  <2> QED BY <2>7, <2>8
<1> QED BY <1>1, FlowInvariant, PTL DEF Flow!Spec

(***************************************************************************)
(* What the installer sets up on the finished dashboard.                   *)
(***************************************************************************)

CONSTANTS Groups, Chips, Standard, MaxUsers
VARIABLES prefs, adminUser, later, heldBefore, prefsOpen, runSent

Prefs == INSTANCE InstallPrefs WITH before <- heldBefore

\* The users are no group of chips, and "untouched" is no choice of chips.
PrefsConstants == "users" \notin Groups /\ Absent \notin SUBSET Chips

Accounts == [name : Names \cup {""}, password : BOOLEAN]
Lists == Seq(Accounts)
ValueOf(group) == IF group = "users" THEN Lists ELSE (SUBSET Chips) \cup {Absent}

PrefsTypes ==
  /\ prefs \in [Groups -> (SUBSET Chips) \cup {Absent}]
  /\ users \in Lists
  /\ later \subseteq Prefs!AllGroups
  /\ DOMAIN heldBefore = Prefs!AllGroups
  /\ \A group \in Prefs!AllGroups : heldBefore[group] # Absent => heldBefore[group][1] \in ValueOf(group)

\* A group that is put off stands at its default for as long as it is.
LaterIsUntouched == \A group \in later : Prefs!Value(group) = Prefs!Untouched(group)

PrefsInv == PrefsTypes /\ LaterIsUntouched /\ Prefs!LaterIsNotSent /\ Prefs!AccountsDiffer

\* A value that is put into a group is that group's and no other's.
LEMMA PutIsPut ==
  ASSUME "users" \notin Groups, PrefsTypes, NEW group \in Prefs!AllGroups, NEW value \in ValueOf(group), Prefs!Put(group, value)
  PROVE  /\ prefs' \in [Groups -> (SUBSET Chips) \cup {Absent}]
         /\ users' \in Lists
         /\ Prefs!Value(group)' = value
         /\ \A h \in Prefs!AllGroups \ {group} : Prefs!Value(h)' = Prefs!Value(h)
<1>1. CASE group = "users"
  BY <1>1 DEF Prefs!Put, Prefs!Value, PrefsTypes, ValueOf
<1>2. CASE group # "users"
  <2>1. group \in Groups /\ prefs' = [prefs EXCEPT ![group] = value] /\ users' = users /\ value \in (SUBSET Chips) \cup {Absent}
    BY <1>2 DEF Prefs!Put, Prefs!AllGroups, ValueOf
  <2> QED BY <2>1, <1>2 DEF Prefs!Value, Prefs!AllGroups, PrefsTypes
<1> QED BY <1>1, <1>2

\* Every group's default and every group's value is a value of that group.
LEMMA ValuesAreOfTheGroup ==
  ASSUME PrefsTypes, NEW group \in Prefs!AllGroups
  PROVE  Prefs!Value(group) \in ValueOf(group) /\ Prefs!Untouched(group) \in ValueOf(group)
<1>1. <<>> \in Lists
  BY DEF Lists
<1> QED BY <1>1 DEF Prefs!Value, Prefs!Untouched, ValueOf, Prefs!AllGroups, PrefsTypes

\* "Later" and "now after all".
LEMMA LaterKeeps ==
  ASSUME PrefsConstants, PrefsInv, NEW group \in Prefs!AllGroups, Prefs!ToggleLater(group)
  PROVE  PrefsInv'
<1>0. UNCHANGED runSent
  BY DEF Prefs!ToggleLater
<1>s. Prefs!LaterIsNotSent' /\ Prefs!AccountsDiffer'
  BY <1>0 DEF PrefsInv, Prefs!LaterIsNotSent, Prefs!AccountsDiffer
<1>1. CASE group \in later
  <2> PICK value : value = IF heldBefore[group] = Absent THEN Prefs!Untouched(group) ELSE heldBefore[group][1]
    OBVIOUS
  <2>1. /\ Prefs!Put(group, value) /\ heldBefore' = [heldBefore EXCEPT ![group] = Absent] /\ later' = later \ {group}
    BY <1>1 DEF Prefs!ToggleLater, Prefs!TakeUp
  <2>2. value \in ValueOf(group)
    BY ValuesAreOfTheGroup DEF PrefsInv, PrefsTypes
  <2>3. PrefsTypes'
    BY <2>1, <2>2, PutIsPut DEF PrefsInv, PrefsTypes, PrefsConstants, Prefs!AllGroups, ValueOf
  <2>4. LaterIsUntouched'
    <3> SUFFICES ASSUME NEW h \in later' PROVE Prefs!Value(h)' = Prefs!Untouched(h)
      BY DEF LaterIsUntouched, Prefs!Untouched
    <3>1. h \in later /\ h \in Prefs!AllGroups \ {group}
      BY <2>1 DEF PrefsInv, PrefsTypes
    <3> QED BY <3>1, <2>1, <2>2, PutIsPut DEF PrefsInv, LaterIsUntouched, PrefsConstants
  <2> QED BY <2>3, <2>4, <1>s DEF PrefsInv
<1>2. CASE group \notin later
  <2> PICK value : value = Prefs!Untouched(group)
    OBVIOUS
  <2>1. /\ Prefs!Put(group, value) /\ heldBefore' = [heldBefore EXCEPT ![group] = <<Prefs!Value(group)>>]
        /\ later' = later \cup {group}
    BY <1>2 DEF Prefs!ToggleLater, Prefs!PutOff
  <2>2. value \in ValueOf(group) /\ Prefs!Value(group) \in ValueOf(group)
    BY ValuesAreOfTheGroup DEF PrefsInv
  <2>3. PrefsTypes'
    BY <2>1, <2>2, PutIsPut DEF PrefsInv, PrefsTypes, PrefsConstants, Prefs!AllGroups, ValueOf
  <2>4. LaterIsUntouched'
    <3> SUFFICES ASSUME NEW h \in later' PROVE Prefs!Value(h)' = Prefs!Untouched(h)
      BY DEF LaterIsUntouched, Prefs!Untouched
    <3>1. CASE h = group
      BY <3>1, <2>1, <2>2, PutIsPut DEF PrefsInv, PrefsConstants
    <3>2. CASE h # group
      <4>1. h \in later /\ h \in Prefs!AllGroups \ {group}
        BY <3>2, <2>1 DEF PrefsInv, PrefsTypes
      <4> QED BY <4>1, <2>1, <2>2, PutIsPut DEF PrefsInv, LaterIsUntouched, PrefsConstants
    <3> QED BY <3>1, <3>2
  <2> QED BY <2>3, <2>4, <1>s DEF PrefsInv
<1> QED BY <1>1, <1>2

\* The chips of a group.
LEMMA ChipsKeep ==
  ASSUME PrefsConstants, PrefsInv, NEW group \in Groups, NEW chips \in SUBSET Chips, group \notin later,
         prefs' = [prefs EXCEPT ![group] = chips], UNCHANGED <<users, adminUser, later, heldBefore, runSent>>
  PROVE  PrefsInv'
<1>1. PrefsTypes'
  BY DEF PrefsInv, PrefsTypes, ValueOf
<1>2. \A h \in later : Prefs!Value(h)' = Prefs!Value(h)
  BY DEF PrefsInv, PrefsTypes, Prefs!Value, Prefs!AllGroups
<1>3. LaterIsUntouched'
  BY <1>2 DEF PrefsInv, LaterIsUntouched, Prefs!Untouched
<1>4. Prefs!LaterIsNotSent' /\ Prefs!AccountsDiffer'
  BY DEF PrefsInv, Prefs!LaterIsNotSent, Prefs!AccountsDiffer
<1> QED BY <1>1, <1>3, <1>4 DEF PrefsInv

\* A list of users without one of them is a list of users.
LEMMA RemovedIsAList ==
  ASSUME NEW list \in Lists, NEW k \in DOMAIN list
  PROVE  Prefs!RemoveAt(list, k) \in Lists
<1>1. k \in 1 .. Len(list) /\ Len(list) \in Nat
  BY DEF Lists
<1>2. SubSeq(list, 1, k - 1) \in Lists
  BY <1>1, SubSeqProperties DEF Lists
<1>3. SubSeq(list, k + 1, Len(list)) \in Lists
  BY <1>1, SubSeqProperties DEF Lists
<1> QED BY <1>2, <1>3, ConcatProperties DEF Lists, Prefs!RemoveAt

\* The list of users.
LEMMA UsersKeep ==
  ASSUME PrefsConstants, PrefsInv, NEW list \in Lists, Prefs!EditUsers(list)
  PROVE  PrefsInv'
<1>0. /\ "users" \notin later /\ users' = list
      /\ UNCHANGED <<prefs, later, heldBefore, runSent>>
  BY DEF Prefs!EditUsers
<1>1. PrefsTypes'
  BY <1>0 DEF PrefsInv, PrefsTypes, ValueOf
<1>2. \A h \in later : Prefs!Value(h)' = Prefs!Value(h)
  BY <1>0 DEF Prefs!Value
<1>3. LaterIsUntouched'
  BY <1>0, <1>2 DEF PrefsInv, LaterIsUntouched, Prefs!Untouched
<1>4. Prefs!LaterIsNotSent' /\ Prefs!AccountsDiffer'
  BY <1>0 DEF PrefsInv, Prefs!LaterIsNotSent, Prefs!AccountsDiffer
<1> QED BY <1>1, <1>3, <1>4 DEF PrefsInv

\* Every account of a run that starts has a name of its own.
LEMMA AccountsAreCounted ==
  ASSUME PrefsInv, \A k \in DOMAIN users : Prefs!UserValid(k)
  PROVE  Prefs!Cardinality({users[k].name : k \in DOMAIN users}) = Len(users)
<1> PICK names : names = {users[k].name : k \in DOMAIN users}
  OBVIOUS
<1>0. DOMAIN users = 1 .. Len(users) /\ Len(users) \in Nat
  BY DEF PrefsInv, PrefsTypes, Lists
<1> PICK nameOf : nameOf = [k \in 1 .. Len(users) |-> users[k].name]
  OBVIOUS
<1>1. nameOf \in [1 .. Len(users) -> names]
  BY <1>0
<1>2. \A j, k \in 1 .. Len(users) : nameOf[j] = nameOf[k] => j = k
  BY <1>0 DEF Prefs!UserValid
<1>3. \A n \in names : \E k \in 1 .. Len(users) : nameOf[k] = n
  BY <1>0
<1>4. nameOf \in Bijection(1 .. Len(users), names)
  BY <1>1, <1>2, <1>3 DEF Bijection, Injection, Surjection, IsInjective
<1>5. ExistsBijection(1 .. Len(users), names)
  BY <1>4 DEF ExistsBijection
<1>6. IsFiniteSet(names) /\ Cardinality(names) = Len(users)
  BY <1>0, <1>5, FS_CountingElements, FS_NatBijection
<1>7. \A S : Prefs!Cardinality(S) = Cardinality(S)
  BY DEF Prefs!Cardinality, Cardinality
<1> QED BY <1>6, <1>7

\* The run that is asked for.
LEMMA StartKeeps ==
  ASSUME PrefsConstants, PrefsInv, Prefs!Start
  PROVE  PrefsInv'
<1> PICK names : names = {users[k].name : k \in DOMAIN users}
  OBVIOUS
<1> PICK set : set = {group \in Prefs!AllGroups : Prefs!IsSet(group)}
  OBVIOUS
<1>0. /\ runSent' = [names |-> names, count |-> Len(users), admin |-> adminUser, set |-> set, later |-> later]
      /\ users' = [k \in DOMAIN users |-> [users[k] EXCEPT !.password = FALSE]]
      /\ heldBefore' = [group \in Prefs!AllGroups |-> Absent]
      /\ UNCHANGED <<prefs, adminUser, later>>
  BY DEF Prefs!Start
<1>1. /\ runSent'.names = names /\ runSent'.count = Len(users) /\ runSent'.admin = adminUser
      /\ runSent'.set = set /\ runSent'.later = later
  BY <1>0
<1>2. set \cap later = {}
  BY DEF PrefsInv, LaterIsUntouched, Prefs!IsSet
<1>3. Prefs!LaterIsNotSent'
  BY <1>1, <1>2 DEF Prefs!LaterIsNotSent
<1>4. Prefs!AccountsDiffer'
  <2>1. Prefs!Cardinality(names) = Len(users)
    BY AccountsAreCounted DEF Prefs!Start
  <2>2. Prefs!AdminName \notin names
    BY DEF Prefs!Start, Prefs!UserValid
  <2> QED BY <1>1, <2>1, <2>2 DEF Prefs!AccountsDiffer, Prefs!AdminName
<1>5. users' \in Lists
  <2>1. \A k \in DOMAIN users : users[k] \in Accounts
    BY DEF PrefsInv, PrefsTypes, Lists
  <2>2. \A k \in DOMAIN users : [users[k] EXCEPT !.password = FALSE] \in Accounts
    BY <2>1 DEF Accounts
  <2>3. DOMAIN users = 1 .. Len(users) /\ Len(users) \in Nat
    BY DEF PrefsInv, PrefsTypes, Lists
  <2> QED BY <1>0, <2>2, <2>3 DEF Lists
<1>6. PrefsTypes'
  BY <1>0, <1>5 DEF PrefsInv, PrefsTypes, ValueOf
<1>7. users = <<>> => users' = <<>>
  BY <1>0, <1>5, EmptySeq DEF Lists
<1>8. LaterIsUntouched'
  <2> SUFFICES ASSUME NEW h \in later PROVE Prefs!Value(h)' = Prefs!Untouched(h)
    BY <1>0 DEF LaterIsUntouched, Prefs!Untouched
  <2>1. Prefs!Value(h) = Prefs!Untouched(h)
    BY DEF PrefsInv, LaterIsUntouched
  <2> QED BY <2>1, <1>0, <1>7 DEF Prefs!Value, Prefs!Untouched
<1> QED BY <1>3, <1>4, <1>6, <1>8 DEF PrefsInv

\* Every step of the screen.
LEMMA PrefsStepKeeps ==
  ASSUME PrefsConstants, PrefsInv, [Prefs!Next]_(Prefs!prefsVars)
  PROVE  PrefsInv'
<1>1. ASSUME NEW group \in Prefs!AllGroups, Prefs!ToggleLater(group) PROVE PrefsInv'
  BY <1>1, LaterKeeps
<1>2. ASSUME NEW group \in Groups, NEW id \in Chips, Prefs!ToggleChip(group, id) PROVE PrefsInv'
  BY <1>2, ChipsKeep DEF Prefs!ToggleChip
<1>3. ASSUME NEW group \in Groups, NEW on \in BOOLEAN, Prefs!SetAllChips(group, on) PROVE PrefsInv'
  <2>1. (IF on THEN Chips ELSE {}) \in SUBSET Chips
    OBVIOUS
  <2> QED BY <1>3, <2>1, ChipsKeep DEF Prefs!SetAllChips
<1>4. CASE Prefs!AddUser
  <2>1. [name |-> "", password |-> FALSE] \in Accounts
    BY DEF Accounts
  <2>2. Append(users, [name |-> "", password |-> FALSE]) \in Lists
    BY <2>1, AppendProperties DEF PrefsInv, PrefsTypes, Lists
  <2> QED BY <1>4, <2>2, UsersKeep DEF Prefs!AddUser
<1>5. ASSUME NEW k \in DOMAIN users, Prefs!RemoveUser(k) PROVE PrefsInv'
  BY <1>5, RemovedIsAList, UsersKeep DEF Prefs!RemoveUser, PrefsInv, PrefsTypes
<1>6. ASSUME NEW k \in DOMAIN users, NEW name \in Names, NEW password \in BOOLEAN, Prefs!TypeUser(k, name, password) PROVE PrefsInv'
  <2>1. [users EXCEPT ![k] = [name |-> name, password |-> password]] \in Lists
    <3>1. [name |-> name, password |-> password] \in Accounts
      BY DEF Accounts
    <3>2. users \in Seq(Accounts) /\ k \in 1 .. Len(users)
      BY DEF PrefsInv, PrefsTypes, Lists
    <3> QED BY <3>1, <3>2, ExceptSeq DEF Lists
  <2> QED BY <1>6, <2>1, UsersKeep DEF Prefs!TypeUser
<1>7. CASE UNCHANGED <<prefs, users, later, runSent>> /\ heldBefore' \in {heldBefore, [group \in Prefs!AllGroups |-> Absent]}
  BY <1>7 DEF PrefsInv, PrefsTypes, LaterIsUntouched, Prefs!Value, Prefs!Untouched, Prefs!LaterIsNotSent, Prefs!AccountsDiffer, ValueOf
<1>8. CASE Prefs!Start
  BY <1>8, StartKeeps
<1>9. CASE Prefs!Open
  <2>1. runSent' = Absent /\ UNCHANGED <<prefs, users, later, heldBefore>>
    BY <1>9 DEF Prefs!Open
  <2> QED BY <2>1 DEF PrefsInv, PrefsTypes, LaterIsUntouched, Prefs!Value, Prefs!Untouched, Prefs!LaterIsNotSent, Prefs!AccountsDiffer, ValueOf
<1>a. CASE Prefs!Leave \/ (\E name \in Names \cup {""} : Prefs!SetAdmin(name)) \/ UNCHANGED Prefs!prefsVars
  BY <1>a, <1>7 DEF Prefs!Leave, Prefs!SetAdmin, Prefs!prefsVars
<1> QED BY <1>1, <1>2, <1>3, <1>4, <1>5, <1>6, <1>8, <1>9, <1>a DEF Prefs!Next

\* The invariant holds of every behaviour.
LEMMA PrefsInvariant == ASSUME PrefsConstants PROVE Prefs!Spec => []PrefsInv
<1>1. Prefs!Init => PrefsInv
  <2> SUFFICES ASSUME Prefs!Init PROVE PrefsInv
    OBVIOUS
  <2>1. <<>> \in Lists
    BY DEF Lists
  <2> QED BY <2>1 DEF Prefs!Init, PrefsInv, PrefsTypes, LaterIsUntouched, Prefs!LaterIsNotSent, Prefs!AccountsDiffer, ValueOf
<1> QED BY <1>1, PrefsStepKeeps, PTL DEF Prefs!Spec

\* The run that is asked for sends nothing of a group that is put off, in whichever order groups were set,
\* put off and taken up (screen-dashboard.js toggleLater), and every account it makes has a name of its own
\* that is not the administrator's (userErrors); whatever the groups, the chips and the names.
THEOREM LaterIsNotSentProof ==
  ASSUME PrefsConstants
  PROVE  Prefs!Spec => [](Prefs!LaterIsNotSent /\ Prefs!AccountsDiffer)
<1>1. PrefsInv => Prefs!LaterIsNotSent /\ Prefs!AccountsDiffer
  BY DEF PrefsInv
<1> QED BY <1>1, PrefsInvariant, PTL

\* A group that is put off and taken up again while the screen stays open is what it was.
THEOREM LaterGivesBackProof ==
  ASSUME PrefsConstants
  PROVE  Prefs!Spec => [][Prefs!LaterGivesBack]_(Prefs!prefsVars)
<1>1. PrefsInv /\ [Prefs!Next]_(Prefs!prefsVars) => [Prefs!LaterGivesBack]_(Prefs!prefsVars)
  <2> SUFFICES ASSUME PrefsInv, Prefs!Next,
                      NEW group \in Prefs!AllGroups, group \in later, group \notin later', heldBefore[group] # Absent
               PROVE  Prefs!Value(group)' = heldBefore[group][1]
    BY DEF Prefs!LaterGivesBack
  <2>1. later' # later
    OBVIOUS
  <2>2. PICK h \in Prefs!AllGroups : Prefs!ToggleLater(h)
    BY <2>1 DEF Prefs!Next, Prefs!ToggleChip, Prefs!SetAllChips, Prefs!AddUser, Prefs!RemoveUser, Prefs!TypeUser,
                Prefs!EditUsers, Prefs!SetAdmin, Prefs!Start, Prefs!Leave, Prefs!Open
  <2>3. h = group /\ Prefs!TakeUp(group)
    BY <2>2 DEF Prefs!ToggleLater, Prefs!TakeUp, Prefs!PutOff
  <2>4. heldBefore[group][1] \in ValueOf(group)
    BY DEF PrefsInv, PrefsTypes
  <2> QED BY <2>3, <2>4, PutIsPut DEF Prefs!TakeUp, PrefsInv, PrefsConstants
<1> QED BY <1>1, PrefsInvariant, PTL DEF Prefs!Spec

(***************************************************************************)
(* The preparation of a package.                                           *)
(***************************************************************************)

CONSTANTS MaxVisits
VARIABLES visit, onScreen, prepState, failCode, unsigned, listening, hostPrepares, packageOf,
          leftAsking, ledOn

Prepare == INSTANCE InstallPrepare

\* Who asks or listens is on the screen, or left it with a question under way.
Excused(v) == (onScreen /\ v = visit) \/ v \in leftAsking
PrepareInv ==
  /\ visit \in Nat /\ onScreen \in BOOLEAN
  /\ \A q \in asked : Excused(q.visit)
  /\ \A v \in listening : Excused(v)
  /\ Prepare!QuietOnceLeft
  /\ Prepare!WorkGoesOn

\* A visit begins, or tries again.
LEMMA VisitKeeps == ASSUME PrepareInv, Prepare!Enter \/ Prepare!TryAgain PROVE PrepareInv'
<1> PICK v : v = IF onScreen THEN visit ELSE visit + 1
  OBVIOUS
<1> PICK new : new = [visit |-> v, about |-> "run"]
  OBVIOUS
<1>1. CASE Prepare!Enter
  <2>1. /\ ~onScreen /\ visit' = v /\ onScreen' = TRUE /\ asked' = asked \cup {new} /\ v \in Nat
        /\ UNCHANGED <<listening, hostPrepares, leftAsking, ledOn>>
    BY <1>1 DEF Prepare!Enter, Prepare!StartOf, PrepareInv
  <2> QED BY <2>1 DEF PrepareInv, Excused, Prepare!QuietOnceLeft, Prepare!WorkGoesOn
<1>2. CASE Prepare!TryAgain
  <2>1. onScreen /\ asked' = asked \cup {new} /\ v = visit /\ UNCHANGED <<visit, onScreen, listening, hostPrepares, leftAsking, ledOn>>
    BY <1>2 DEF Prepare!TryAgain, Prepare!CanForceFull, Prepare!CanAllowOnline, Prepare!StartOf
  <2> QED BY <2>1 DEF PrepareInv, Excused, Prepare!QuietOnceLeft, Prepare!WorkGoesOn
<1> QED BY <1>1, <1>2

\* The host takes the run or refuses it, and its run ends.
LEMMA HostKeeps ==
  ASSUME Absent \notin Nat, PrepareInv,
         \/ \E q \in asked : Prepare!StartAnswered(q)
         \/ Prepare!RunSucceeds
         \/ \E code \in Prepare!Codes : Prepare!RunFails(code)
  PROVE  PrepareInv'
<1>0. Prepare!QuietOnceLeft'
  BY DEF Prepare!StartAnswered, Prepare!RunSucceeds, Prepare!RunFails, PrepareInv, Prepare!QuietOnceLeft
<1>1. ASSUME NEW q \in asked, Prepare!StartAnswered(q)
      PROVE  PrepareInv'
  <2>1. CASE hostPrepares = Absent
    BY <1>0, <1>1, <2>1 DEF Prepare!StartAnswered, PrepareInv, Excused, Prepare!WorkGoesOn
  <2>2. CASE hostPrepares # Absent
    BY <1>0, <1>1, <2>2 DEF Prepare!StartAnswered, Prepare!Show, PrepareInv, Excused, Prepare!WorkGoesOn
  <2> QED BY <2>1, <2>2
<1>2. CASE Prepare!RunSucceeds
  <2> PICK new : new = [visit |-> hostPrepares, about |-> "package"]
    OBVIOUS
  <2>1. /\ listening' = listening \ {hostPrepares}
        /\ asked' = IF hostPrepares \in listening THEN asked \cup {new} ELSE asked
        /\ UNCHANGED <<visit, onScreen, prepState, leftAsking, ledOn>>
    BY <1>2 DEF Prepare!RunSucceeds
  <2> QED BY <1>0, <2>1 DEF PrepareInv, Excused, Prepare!WorkGoesOn
<1>3. ASSUME NEW code \in Prepare!Codes, Prepare!RunFails(code)
      PROVE  PrepareInv'
  BY <1>0, <1>3 DEF Prepare!RunFails, Prepare!Show, PrepareInv, Excused, Prepare!WorkGoesOn
<1> QED BY <1>1, <1>2, <1>3

\* The screen gives way: what it asked excuses it, what it only listened to ends.
LEMMA GoneKeeps ==
  ASSUME PrepareInv, Prepare!Gone, asked' \subseteq asked, UNCHANGED visit
  PROVE  /\ \A q \in asked' : Excused(q.visit)'
         /\ \A v \in listening' : Excused(v)'
         /\ leftAsking \subseteq leftAsking' /\ onScreen' = FALSE
BY DEF Prepare!Gone, Prepare!Stop, PrepareInv, Excused

\* Who leads on is on the screen or excused.
LEMMA LeadKeeps ==
  ASSUME PrepareInv, NEW v, Excused(v), Prepare!LeadOn(v), asked' \subseteq asked, UNCHANGED visit
  PROVE  PrepareInv'
<1>1. ledOn' = [by |-> v, from |-> IF onScreen THEN visit ELSE 0] /\ Prepare!Gone
  BY DEF Prepare!LeadOn
<1>2. Prepare!QuietOnceLeft'
  BY <1>1, GoneKeeps DEF Prepare!QuietOnceLeft, Excused
<1> QED BY <1>1, <1>2, GoneKeeps DEF PrepareInv, Prepare!WorkGoesOn

\* What is answered about the package, and the way on or back.
LEMMA PackageKeeps ==
  ASSUME PrepareInv,
         \/ \E q \in asked : Prepare!PackageAnswered(q) \/ Prepare!PackageFails(q)
         \/ Prepare!Continue \/ Prepare!Back
  PROVE  PrepareInv'
<1>1. ASSUME NEW q \in asked, Prepare!Show(q.visit, "done", Absent) \/ Prepare!Show(q.visit, "failed", Absent),
             asked' = asked \ {q}, UNCHANGED <<visit, onScreen, listening, hostPrepares, leftAsking, ledOn>>
      PROVE  PrepareInv'
  BY <1>1 DEF Prepare!Show, PrepareInv, Excused, Prepare!QuietOnceLeft, Prepare!WorkGoesOn
<1>2. ASSUME NEW q \in asked, Prepare!PackageFails(q)
      PROVE  PrepareInv'
  BY <1>1, <1>2 DEF Prepare!PackageFails
<1>3. ASSUME NEW q \in asked, Prepare!PackageAnswered(q)
      PROVE  PrepareInv'
  <2>1. asked' = asked \ {q} /\ UNCHANGED <<visit, hostPrepares>> /\ Excused(q.visit)
    BY <1>3 DEF Prepare!PackageAnswered, PrepareInv
  <2>2. CASE Prepare!LeadOn(q.visit)
    BY <2>1, <2>2, LeadKeeps
  <2>3. CASE ~Prepare!LeadOn(q.visit)
    BY <1>1, <1>3, <2>1, <2>3 DEF Prepare!PackageAnswered, Prepare!PackageKnown
  <2> QED BY <2>2, <2>3
<1>4. CASE Prepare!Continue
  BY <1>4, LeadKeeps DEF Prepare!Continue, Excused
<1>5. CASE Prepare!Back
  BY <1>5, GoneKeeps DEF Prepare!Back, PrepareInv, Prepare!QuietOnceLeft, Prepare!WorkGoesOn
<1> QED BY <1>2, <1>3, <1>4, <1>5

\* The invariant of the preparation.
LEMMA PrepareInvariance == ASSUME Absent \notin Nat PROVE Prepare!Spec => []PrepareInv
<1>1. Prepare!Init => PrepareInv
  <2> SUFFICES ASSUME Prepare!Init PROVE PrepareInv
    OBVIOUS
  <2>1. visit = 0 /\ onScreen = FALSE /\ asked = {} /\ listening = {} /\ ledOn = Absent
    BY DEF Prepare!Init
  <2> QED BY <2>1 DEF PrepareInv, Prepare!QuietOnceLeft, Prepare!WorkGoesOn
<1>2. PrepareInv /\ [Prepare!Next]_(Prepare!prepVars) => PrepareInv'
  <2> SUFFICES ASSUME PrepareInv, [Prepare!Next]_(Prepare!prepVars) PROVE PrepareInv'
    OBVIOUS
  <2>1. CASE UNCHANGED Prepare!prepVars
    BY <2>1 DEF Prepare!prepVars, PrepareInv, Excused, Prepare!QuietOnceLeft, Prepare!WorkGoesOn
  <2> QED BY <2>1, VisitKeeps, HostKeeps, PackageKeeps DEF Prepare!Next
<1> QED BY <1>1, <1>2, PTL DEF Prepare!Spec

\* A screen that was left while it only listened leads nowhere any more, for any number of visits, runs and answers.
THEOREM QuietOnceLeftProof == ASSUME Absent \notin Nat PROVE Prepare!Spec => []Prepare!QuietOnceLeft
<1>1. PrepareInv => Prepare!QuietOnceLeft
  BY DEF PrepareInv
<1> QED BY <1>1, PrepareInvariance, PTL

\* A screen that shows work under way has a question, a run or an answer of its own under way.
THEOREM WorkGoesOnProof == ASSUME Absent \notin Nat PROVE Prepare!Spec => []Prepare!WorkGoesOn
<1>1. PrepareInv => Prepare!WorkGoesOn
  BY DEF PrepareInv
<1> QED BY <1>1, PrepareInvariance, PTL

(***************************************************************************)
(* The live log of the installer's diagnosis.                              *)
(***************************************************************************)

CONSTANTS Units, Steps, NeedsInput, Capacity, Backlog, MaxLines, MaxBreaks
VARIABLES journal, stream, cursor, ring, begun, liveUnit, empty, element, breaks, loads, busy,
          repairs, dialog, left

Diagnose == INSTANCE InstallDiagnose

\* "" is no unit, and neither an element of the page nor a line is the value for none.
Elements == [unit : Units \cup {""}, lines : Seq(Nat)]
DiagnoseConstants ==
  /\ First \in Units /\ "" \notin Units
  /\ Absent \notin Elements /\ Absent \notin Nat
  /\ Capacity \in Nat \ {0} /\ Backlog \in Nat /\ MaxLines \in Nat

DiagnoseInv ==
  /\ journal \in Seq(Units)
  /\ sent \in Nat /\ cursor \in Nat \cup {Absent}
  /\ ring \in [Units -> Seq(Nat)]
  /\ liveUnit \in Units
  /\ empty \in BOOLEAN
  /\ element \in Elements \cup {Absent}
  /\ Diagnose!PageShowsRing

\* A ring that gets a line is a ring, and is not empty.
LEMMA PushKeepsARing ==
  ASSUME Capacity \in Nat \ {0}, NEW r \in Seq(Nat), NEW i \in Nat
  PROVE  Diagnose!Push(r, i) \in Seq(Nat) /\ Diagnose!Push(r, i) # <<>>
<1>1. \A s \in Seq(Nat) : Append(s, i) \in Seq(Nat) /\ Append(s, i) # <<>>
  BY AppendProperties
<1>2. CASE Len(r) >= Capacity
  <2>1. r # <<>>
    BY <1>2
  <2>2. Tail(r) \in Seq(Nat)
    BY <2>1
  <2> QED BY <1>1, <1>2, <2>2 DEF Diagnose!Push
<1>3. CASE ~(Len(r) >= Capacity)
  BY <1>1, <1>3 DEF Diagnose!Push
<1> QED BY <1>2, <1>3

\* At first nothing is there, and the note says so.
LEMMA DiagnoseInitHolds == ASSUME DiagnoseConstants, Diagnose!Init PROVE DiagnoseInv
<1>1. journal \in Seq(Units)
  <2>1. CASE journal = <<>>
    BY <2>1
  <2>2. ASSUME NEW n \in 1 .. MaxLines - 1, journal = [i \in 1 .. n |-> First]
        PROVE  journal \in Seq(Units)
    <3>0. MaxLines \in Nat /\ First \in Units
      BY Zenon DEF DiagnoseConstants
    <3>1. n \in Nat
      BY <3>0
    <3>2. journal \in [1 .. n -> Units]
      BY <2>2, <3>0
    <3> QED BY <3>1, <3>2, SeqDef
  <2> QED BY <2>1, <2>2 DEF Diagnose!Init
<1>2. ring \in [Units -> Seq(Nat)] /\ \A u \in Units : ring[u] = <<>>
  BY DEF Diagnose!Init
<1> QED BY <1>1, <1>2 DEF Diagnose!Init, DiagnoseInv, DiagnoseConstants, Diagnose!PageShowsRing

\* A line that arrives goes to its ring, and to the page when its unit is on display.
LEMMA LineKeeps == ASSUME DiagnoseConstants, DiagnoseInv, Diagnose!Line PROVE DiagnoseInv'
<1> PICK i : i = sent + 1
  OBVIOUS
<1> PICK u : u = journal[i]
  OBVIOUS
<1> PICK kept : kept = Diagnose!Push(ring[u], i)
  OBVIOUS
<1>1. /\ sent < Len(journal) /\ sent' = i /\ cursor' = i /\ ring' = [ring EXCEPT ![u] = kept]
      /\ empty' = (IF u = liveUnit THEN FALSE ELSE empty)
      /\ element' = (IF u = liveUnit THEN Diagnose!Shown(u, kept, i) ELSE element)
      /\ UNCHANGED <<journal, liveUnit>>
  BY DEF Diagnose!Line
<1>2. i \in Nat /\ u \in Units
  BY <1>1 DEF DiagnoseInv
<1>3. ring[u] \in Seq(Nat) /\ ring \in [Units -> Seq(Nat)]
  BY <1>2 DEF DiagnoseInv
<1>4. kept \in Seq(Nat) /\ kept # <<>>
  BY <1>2, <1>3, PushKeepsARing DEF DiagnoseConstants
<1>5. ring' \in [Units -> Seq(Nat)] /\ ring'[u] = kept /\ \A v \in Units : v # u => ring'[v] = ring[v]
  BY <1>1, <1>2, <1>3, <1>4
<1>6. CASE u # liveUnit
  BY <1>1, <1>2, <1>5, <1>6 DEF DiagnoseInv, Diagnose!PageShowsRing
<1>7. CASE u = liveUnit
  <2>1. empty' = FALSE /\ element' = Diagnose!Shown(u, kept, i) /\ liveUnit' = u
    BY <1>1, <1>7
  <2>2. CASE element = Absent
    BY <1>1, <1>2, <1>4, <1>5, <2>1, <2>2 DEF Diagnose!Shown, DiagnoseInv, Diagnose!PageShowsRing
  <2>3. CASE element # Absent /\ element.unit # u
    <3>1. element' = [unit |-> u, lines |-> kept]
      BY <2>1, <2>3 DEF Diagnose!Shown
    <3>2. element' \in Elements /\ element'.unit = u /\ element'.lines = kept
      BY <1>2, <1>4, <3>1 DEF Elements
    <3> QED BY <1>1, <1>2, <1>4, <1>5, <2>1, <3>2 DEF DiagnoseInv, Diagnose!PageShowsRing
  <2>4. CASE element # Absent /\ element.unit = u
    <3>1. element \in Elements /\ element.lines = ring[u]
      BY <1>2, <1>7, <2>4 DEF DiagnoseInv, Diagnose!PageShowsRing, DiagnoseConstants
    <3>2. element' = [element EXCEPT !.lines = kept]
      BY <2>1, <2>4, <3>1 DEF Diagnose!Shown
    <3>3. element' \in Elements /\ element'.unit = u /\ element'.lines = kept
      BY <1>2, <1>4, <2>4, <3>1, <3>2 DEF Elements
    <3> QED BY <1>1, <1>2, <1>4, <1>5, <2>1, <3>3 DEF DiagnoseInv, Diagnose!PageShowsRing
  <2> QED BY <2>2, <2>3, <2>4
<1> QED BY <1>6, <1>7

\* The journal grows, the stream comes and goes, the card is drawn and another unit chosen.
LEMMA LogKeeps ==
  ASSUME DiagnoseConstants, DiagnoseInv,
         \/ \E u \in Units : Diagnose!Writes(u) \/ Diagnose!LiveSelect(u)
         \/ Diagnose!Hello \/ Diagnose!Breaks \/ Diagnose!Ends \/ Diagnose!CardDrawn
  PROVE  DiagnoseInv'
<1>1. ASSUME NEW u \in Units, Diagnose!Writes(u)
      PROVE  DiagnoseInv'
  <2>1. journal' \in Seq(Units)
    BY <1>1, AppendProperties DEF Diagnose!Writes, DiagnoseInv
  <2> QED BY <1>1, <2>1 DEF Diagnose!Writes, DiagnoseInv, Diagnose!PageShowsRing
<1>2. ASSUME NEW u \in Units, Diagnose!LiveSelect(u)
      PROVE  DiagnoseInv'
  <2>1. ring[u] \in Seq(Nat)
    BY DEF DiagnoseInv
  <2>2. CASE element = Absent
    BY <1>2, <2>1, <2>2 DEF Diagnose!LiveSelect, DiagnoseInv, Diagnose!PageShowsRing
  <2>3. CASE element # Absent
    <3>1. element' = [unit |-> u, lines |-> ring[u]]
      BY <1>2, <2>3 DEF Diagnose!LiveSelect
    <3>2. element' \in Elements /\ element'.unit = u /\ element'.lines = ring[u]
      BY <2>1, <3>1 DEF Elements
    <3> QED BY <1>2, <2>1, <3>2 DEF Diagnose!LiveSelect, DiagnoseInv, Diagnose!PageShowsRing
  <2> QED BY <2>2, <2>3
<1>3. CASE Diagnose!Hello
  <2>1. sent' = Diagnose!StartsAfter(cursor) /\ empty' = (ring[liveUnit] = <<>>)
        /\ UNCHANGED <<journal, cursor, ring, liveUnit, element>>
    BY <1>3 DEF Diagnose!Hello
  <2>2. journal \in Seq(Units) /\ Backlog \in Nat /\ cursor \in Nat \cup {Absent}
    BY Zenon DEF DiagnoseInv, DiagnoseConstants
  <2>3. sent' \in Nat
    BY <2>1, <2>2 DEF Diagnose!StartsAfter
  <2>4. empty' \in BOOLEAN
    BY <2>1
  <2> QED BY <2>1, <2>3, <2>4 DEF DiagnoseInv, Diagnose!PageShowsRing
<1>4. CASE Diagnose!Breaks \/ Diagnose!Ends
  <2>1. UNCHANGED <<journal, sent, cursor, ring, liveUnit, empty, element>>
    BY <1>4 DEF Diagnose!Breaks, Diagnose!Ends
  <2> QED BY <2>1 DEF DiagnoseInv, Diagnose!PageShowsRing
<1>5. CASE Diagnose!CardDrawn
  <2>1. element' = [unit |-> "", lines |-> <<>>]
    BY <1>5 DEF Diagnose!CardDrawn
  <2>2. element' \in Elements /\ element'.unit = ""
    <3>1. "" \in Units \cup {""} /\ <<>> \in Seq(Nat)
      OBVIOUS
    <3> QED BY <2>1, <3>1 DEF Elements
  <2>3. UNCHANGED <<journal, sent, cursor, ring, liveUnit, empty>>
    BY <1>5 DEF Diagnose!CardDrawn
  <2> QED BY <2>2, <2>3 DEF DiagnoseInv, Diagnose!PageShowsRing
<1> QED BY <1>1, <1>2, <1>3, <1>4, <1>5

\* The check list and its repairs leave the log alone.
LEMMA RepairsKeep ==
  ASSUME DiagnoseInv,
         \/ Diagnose!Load \/ Diagnose!Loaded \/ Diagnose!SubmitRepair \/ Diagnose!CancelRepair
         \/ \E s \in Steps : Diagnose!Retry(s) \/ Diagnose!RepairStarted(s) \/ Diagnose!RepairRefused(s)
         \/ UNCHANGED Diagnose!diagnoseVars
  PROVE  DiagnoseInv'
<1>1. UNCHANGED <<journal, sent, cursor, ring, liveUnit, empty, element>>
  BY DEF Diagnose!Load, Diagnose!Loaded, Diagnose!SubmitRepair, Diagnose!CancelRepair, Diagnose!Retry, Diagnose!RepairStarted,
         Diagnose!RepairRefused, Diagnose!diagnoseVars, Diagnose!logVars
<1> QED BY <1>1 DEF DiagnoseInv, Diagnose!PageShowsRing

\* The page shows what the ring of its unit holds, and the note stands exactly when that is nothing, for any number of
\* units, lines and connections.
THEOREM PageShowsRingProof == ASSUME DiagnoseConstants PROVE Diagnose!Spec => []Diagnose!PageShowsRing
<1>1. Diagnose!Init => DiagnoseInv
  BY DiagnoseInitHolds
<1>2. DiagnoseInv /\ [Diagnose!Next]_(Diagnose!diagnoseVars) => DiagnoseInv'
  <2> SUFFICES ASSUME DiagnoseInv, [Diagnose!Next]_(Diagnose!diagnoseVars) PROVE DiagnoseInv'
    OBVIOUS
  <2> QED BY LineKeeps, LogKeeps, RepairsKeep DEF Diagnose!Next
<1>3. DiagnoseInv => Diagnose!PageShowsRing
  BY DEF DiagnoseInv
<1> QED BY <1>1, <1>2, <1>3, PTL DEF Diagnose!Spec
================================================================================
