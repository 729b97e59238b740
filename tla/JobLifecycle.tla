----------------------------- MODULE JobLifecycle -----------------------------
(***************************************************************************)
(* What the job directory promises (dashboard/internal/updaterjob and       *)
(* dashboard/energy-node-updater.sh): one job at a time.  A job is staged    *)
(* only while no other job waits or is worked on, it is claimed once, and it *)
(* ends once, unless its updater is killed outright and the job is lost.     *)
(***************************************************************************)
CONSTANTS None, Jobs, Results

VARIABLES pending,   \* the job that waits, or None
          claimed,   \* the job an updater works on, or None
          result     \* how each job ended, None before that

vars == <<pending, claimed, result>>

Init ==
  /\ pending = None
  /\ claimed = None
  /\ result = [j \in Jobs |-> None]

Stage(j) ==
  /\ pending = None
  /\ claimed = None
  /\ result[j] = None
  /\ pending' = j
  /\ UNCHANGED <<claimed, result>>

Claim ==
  /\ pending # None
  /\ claimed = None
  /\ claimed' = pending
  /\ pending' = None
  /\ UNCHANGED result

End(r) ==
  /\ claimed # None
  /\ result' = [result EXCEPT ![claimed] = r]
  /\ claimed' = None
  /\ UNCHANGED pending

Next == (\E j \in Jobs : Stage(j)) \/ Claim \/ (\E r \in Results : End(r))

Spec == Init /\ [][Next]_vars
===============================================================================
