-------------------------- MODULE ScenarioLifecycle --------------------------
(***************************************************************************)
(* What the scenario engine promises about the chains of a scenario: after   *)
(* on_start of a definition comes on_end of the same definition before       *)
(* anything starts again, and a scenario that its duration ended starts      *)
(* again only once its conditions were unmet (unlocked).  A crash forgets    *)
(* what runs and runs nothing.  ScenarioEngine implements this.              *)
(***************************************************************************)
CONSTANTS Scenarios, Actions, None

VARIABLES
  running,   \* the chains of the definition a scenario was started with, or None
  ran,       \* the chains the last step ran of each scenario
  locked     \* not to be started

vars == <<running, ran, locked>>

Quiet == [on_start |-> None, on_end |-> None]

Init ==
  /\ running = [s \in Scenarios |-> None]
  /\ ran = [s \in Scenarios |-> Quiet]
  /\ locked = [s \in Scenarios |-> FALSE]

Starts(s) ==
  /\ running[s] = None /\ ~locked[s]
  /\ running'[s] \in Actions
  /\ ran'[s] = [Quiet EXCEPT !.on_start = running'[s]]
  /\ ~locked'[s]

Ends(s) ==
  /\ running[s] # None
  /\ running'[s] = None
  /\ ran'[s] = [Quiet EXCEPT !.on_end = running[s]]

\* Nothing runs; a lock may open, never close.
Stays(s) ==
  /\ running'[s] = running[s]
  /\ ran'[s] = Quiet
  /\ locked'[s] => locked[s]

Work == \A s \in Scenarios : Starts(s) \/ Ends(s) \/ Stays(s)

Crash ==
  /\ running' = [s \in Scenarios |-> None]
  /\ ran' = [s \in Scenarios |-> Quiet]
  /\ locked' = [s \in Scenarios |-> FALSE]

Next == Work \/ Crash

Spec == Init /\ [][Next]_vars
==============================================================================
