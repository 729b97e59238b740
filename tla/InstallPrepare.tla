----------------------------- MODULE InstallPrepare -----------------------------
(***************************************************************************)
(* The preparation of a package (installer/webui/static/js/                  *)
(* screen-prepare.js): the screen asks the host for a run, follows it, and   *)
(* when it ended well reads what came of it and leads on.  A screen that is  *)
(* left ends its stream; a question it has asked is answered all the same.   *)
(* Every visit to the screen has a number.                                   *)
(***************************************************************************)
EXTENDS Naturals, FiniteSets

CONSTANTS Absent, MaxVisits  \* bound on visits and on attempts

VARIABLES
  visit,       \* number of the screen shown, or of the last one
  onScreen,    \* the preparation is shown
  prepState,   \* "working", "done", "failed"
  failCode,    \* of a failure with a way out of its own
  unsigned,
  asked,       \* visits with a question under way: [visit, about], "run" or "package"
  listening,   \* visits with an open stream
  hostPrepares,\* visit whose run the host works on, or Absent
  packageOf,   \* visit whose package the page knows
  leftAsking,  \* history: visits left with a question under way
  ledOn        \* history: the last visit that led on, and the one shown then, or 0

prepVars == <<visit, onScreen, prepState, failCode, unsigned, asked, listening, hostPrepares, packageOf,
              leftAsking, ledOn>>

Codes == {"delta", "abi", "other"}

StartOf(v) == asked' = asked \cup {[visit |-> v, about |-> "run"]}

Enter ==
  /\ ~onScreen /\ visit < MaxVisits /\ visit' = visit + 1 /\ onScreen' = TRUE
  /\ prepState' = "working" /\ failCode' = Absent /\ unsigned' = FALSE /\ StartOf(visit + 1)
  /\ UNCHANGED <<listening, hostPrepares, packageOf, leftAsking, ledOn>>

\* Only the screen that is shown has a state of its own.
Show(v, state, code) ==
  IF v = visit /\ onScreen THEN prepState' = state /\ failCode' = code ELSE UNCHANGED <<prepState, failCode>>

\* The host refuses a second run.
StartAnswered(q) ==
  /\ q.about = "run" /\ asked' = asked \ {q}
  /\ IF hostPrepares = Absent
     THEN /\ hostPrepares' = q.visit /\ listening' = listening \cup {q.visit}
          /\ UNCHANGED <<prepState, failCode>>
     ELSE Show(q.visit, "failed", Absent) /\ UNCHANGED <<hostPrepares, listening>>
  /\ UNCHANGED <<visit, onScreen, unsigned, packageOf, leftAsking, ledOn>>

\* The run ended well: the screen that follows it asks what is there now.
RunSucceeds ==
  /\ hostPrepares # Absent /\ hostPrepares' = Absent
  /\ listening' = listening \ {hostPrepares}
  /\ asked' = IF hostPrepares \in listening THEN asked \cup {[visit |-> hostPrepares, about |-> "package"]} ELSE asked
  /\ UNCHANGED <<visit, onScreen, prepState, failCode, unsigned, packageOf, leftAsking, ledOn>>

\* Two failures have a way out on this screen.
RunFails(code) ==
  /\ hostPrepares # Absent /\ hostPrepares' = Absent
  /\ listening' = listening \ {hostPrepares}
  /\ IF hostPrepares \in listening THEN Show(hostPrepares, "failed", code) ELSE UNCHANGED <<prepState, failCode>>
  /\ UNCHANGED <<visit, onScreen, unsigned, asked, packageOf, leftAsking, ledOn>>

CanForceFull == onScreen /\ prepState = "failed" /\ failCode = "delta"
CanAllowOnline == onScreen /\ prepState = "failed" /\ failCode = "abi"

TryAgain ==
  /\ CanForceFull \/ CanAllowOnline
  /\ prepState' = "working" /\ failCode' = Absent /\ StartOf(visit)
  /\ UNCHANGED <<visit, onScreen, unsigned, listening, hostPrepares, packageOf, leftAsking, ledOn>>

Stop == listening' = listening \ {visit}

\* The screen gives way to another one.
Gone ==
  /\ onScreen' = FALSE
  /\ IF onScreen
     THEN Stop /\ leftAsking' = (IF \E q \in asked' : q.visit = visit THEN leftAsking \cup {visit} ELSE leftAsking)
     ELSE UNCHANGED <<listening, leftAsking>>

\* The way on, from whichever screen is shown by now.
LeadOn(v) == Gone /\ ledOn' = [by |-> v, from |-> IF onScreen THEN visit ELSE 0]

\* An unsigned package waits for the user's consent.
PackageKnown(q) ==
  /\ packageOf' = q.visit
  /\ \/ /\ unsigned' = (IF q.visit = visit /\ onScreen THEN TRUE ELSE unsigned)
        /\ Show(q.visit, "done", Absent) /\ UNCHANGED <<onScreen, listening, leftAsking, ledOn>>
     \/ Show(q.visit, "done", Absent) /\ LeadOn(q.visit) /\ UNCHANGED unsigned

PackageAnswered(q) ==
  /\ q.about = "package" /\ asked' = asked \ {q} /\ PackageKnown(q)
  /\ UNCHANGED <<visit, hostPrepares>>

PackageFails(q) ==
  /\ q.about = "package" /\ asked' = asked \ {q} /\ Show(q.visit, "failed", Absent)
  /\ UNCHANGED <<visit, onScreen, unsigned, listening, hostPrepares, packageOf, leftAsking, ledOn>>

Continue ==
  /\ onScreen /\ prepState = "done" /\ unsigned /\ UNCHANGED asked /\ LeadOn(visit)
  /\ UNCHANGED <<visit, prepState, failCode, unsigned, hostPrepares, packageOf>>

Back ==
  /\ onScreen /\ UNCHANGED asked /\ Gone
  /\ UNCHANGED <<visit, prepState, failCode, unsigned, hostPrepares, packageOf, ledOn>>

Init ==
  /\ visit = 0 /\ onScreen = FALSE /\ prepState = "working" /\ failCode = Absent /\ unsigned = FALSE
  /\ asked = {} /\ listening = {} /\ hostPrepares = Absent /\ packageOf = 0 /\ leftAsking = {} /\ ledOn = Absent

Next ==
  \/ Enter \/ RunSucceeds \/ \E code \in Codes : RunFails(code)
  \/ TryAgain \/ Continue \/ Back
  \/ \E q \in asked : StartAnswered(q) \/ PackageAnswered(q) \/ PackageFails(q)

Spec == Init /\ [][Next]_prepVars

--------------------------------------------------------------------------
\* A screen that was left while it only listened leads nowhere any more; one that had asked
\* something may still take the user away from where they are.
QuietOnceLeft ==
  (ledOn # Absent /\ ledOn.by # ledOn.from) => ledOn.by \in leftAsking

\* Whoever waits for a run to be prepared hears of its end: the screen stays "working" only
\* with a question, a run or an answer of its own under way.
WorkGoesOn ==
  (onScreen /\ prepState = "working")
    => \/ \E q \in asked : q.visit = visit
       \/ hostPrepares = visit /\ visit \in listening
==============================================================================
