------------------------------ MODULE MCSettling ------------------------------
(***************************************************************************)
(* Settings for model-checking HistoryExchange and Regulator: two loops that *)
(* have to come to an end.  They do not interact; `part` is the one that      *)
(* runs, and the other rests.                                               *)
(***************************************************************************)
EXTENDS HistoryExchange, Regulator

CONSTANTS a, b1, r1, r2

VARIABLE part
-----------------------------------------------------------------------------
MCBrowsers == {a, b1}
MCRows == {r1, r2}

\* One device has what the other lacks.
MCStores == {[x \in MCBrowsers |-> IF x = a THEN {r1} ELSE {}]}

Watts(w) == 10 * w

Plain(direction, base, gain) ==
  [direction |-> direction, target |-> 0, deadband |-> Watts(2), gain |-> gain,
   max_change |-> None, base |-> base, min |-> 0, max |-> Watts(40), step |-> Watts(5),
   decimals |-> 0]

Directions == {"producer", "consumer"}

\* Coarse and fine steps, strong and weak gains, every source of the base value.
LoopRegulators ==
  {Plain(d, b, k) : d \in Directions, b \in {"entity", "balance", "last"}, k \in {5, 8, 10}}
  \cup {[Plain(d, b, 8) EXCEPT !.step = None, !.max_change = Watts(15)] :
          d \in Directions, b \in {"entity", "last"}}
  \cup {[Plain(d, "entity", 8) EXCEPT !.target = Watts(3), !.min = Watts(7),
                                      !.deadband = 0] : d \in Directions}

LoopLoads == {Watts(w) : w \in {-50, -23, -4, 0, 9, 31}}
LoopPowers == {0, Watts(40)}
-----------------------------------------------------------------------------
Resting == CHOOSE g \in LoopRegulators : g.base = "entity"

LoopRests ==
  /\ regulator = Resting /\ load = 0 /\ changes = 0 /\ command = 0 /\ power = 0
  /\ balance = [net |-> 0, power |-> 0] /\ reported = 0
  /\ last_value = None /\ outcome = None

Init ==
  \/ part = "loop" /\ LoopInit /\ ExchangeInit /\ mode = [b \in Browsers |-> "always"]
  \/ part = "exchange" /\ LoopRests /\ ExchangeInit

Next ==
  \/ part = "loop" /\ PacedNext /\ UNCHANGED <<part, exchangeVars>>
  \/ part = "exchange" /\ ExchangeNext /\ UNCHANGED <<part, loopVars>>

Loops == part = "loop"
Exchanges == part = "exchange"

\* Meter and device report, the device follows, the engine polls.
LoopFairness ==
  /\ WF_loopVars(Loops /\ Measure) /\ WF_loopVars(Loops /\ Report)
  /\ WF_loopVars(Loops /\ Follow) /\ WF_loopVars(Loops /\ PacedStep)

\* The browsers' timers and handlers run, the server serves, and maintenance comes every
\* minute, however often something else is under way at that moment.
ExchangeFairness ==
  /\ \A b \in Browsers :
       /\ WF_exchangeVars(Exchanges /\ Connect(b))
       /\ WF_exchangeVars(Exchanges /\ Offer(b))
       /\ WF_exchangeVars(Exchanges /\ Plan(b))
       /\ WF_exchangeVars(Exchanges /\ Receive(b))
       /\ WF_exchangeVars(Exchanges /\ \E id \in Ids : TimeOut(b, id))
       /\ SF_exchangeVars(Exchanges /\ Maintain(b))
  /\ \A id \in Ids : WF_exchangeVars(Exchanges /\ Leave(id))
  /\ WF_exchangeVars(Exchanges /\ \E post \in posts : Relay(post))

Spec ==
  /\ Init /\ [][Next]_<<part, loopVars, exchangeVars>>
  /\ LoopFairness /\ ExchangeFairness
-----------------------------------------------------------------------------
\* The loop ends: after the last change of the load it sends nothing more, and the device
\* stands where no step of its size would bring the meter closer (Regulator).
ComesToRest == <>[](Loops => AtRest)
=============================================================================
