------------------------------- MODULE Regulator -------------------------------
(***************************************************************************)
(* The regulator of a scenario (services/automation/regulator.py and         *)
(* ScenarioEngine._regulate) in the loop it closes: the setpoint it          *)
(* publishes, the device that follows it, and the meter whose balance comes  *)
(* back.  Device and meter are external; they are here only with their       *)
(* delays.  What keeps the regulator from stepping (interval, missing        *)
(* balance, blocked publish) is in ScenarioEngine.                           *)
(*                                                                         *)
(* Power is counted in tenths of a watt, the gain in tenths.  Balances are    *)
(* whole watts, so gain * error is exact; the rounding of Python's floats is  *)
(* left out.                                                                *)
(***************************************************************************)
EXTENDS Integers, TLAPS

CONSTANTS
  None,
  Regulators,    \* the definitions to look at
  Loads,         \* what the rest of the house draws; negative: it feeds in
  Powers,        \* where the device may stand when the scenario starts
  MaxChanges     \* bound on the changes of the load

\* As _validate_regulator lets them pass.  base "balance" names the field that
\* carries the device's own power.
Regulator ==
  [direction : {"producer", "consumer"}, target : Int, deadband : Nat, gain : 1..10,
   max_change : (Nat \ {0}) \cup {None}, base : {"entity", "balance", "last"},
   min : Int, max : Int, step : (Nat \ {0}) \cup {None}, decimals : {0, 1, None}]

WholeWatts(amounts) == amounts \subseteq Int /\ \A a \in amounts : a % 10 = 0

ASSUME RegulatorsAssumption ==
  /\ None \notin Int
  /\ \A g \in Regulators :
       /\ g \in Regulator /\ g.min < g.max /\ WholeWatts({g.target})
       /\ g.decimals # 0 => g.step # None /\ WholeWatts({g.step, g.min, g.max})
  /\ WholeWatts(Loads) /\ WholeWatts(Powers)
  /\ MaxChanges \in Nat

VARIABLES
  regulator,
  load, changes,
  command,      \* the payload the device was last sent
  power,        \* what the device draws or delivers
  balance,      \* the last balance: [net, power] as the meters saw them together
  reported,     \* the last payload of the device's own topic
  last_value,   \* ScenarioRuntime.last_value
  outcome       \* what the last step came to

loopVars == <<regulator, load, changes, command, power, balance, reported, last_value, outcome>>
-----------------------------------------------------------------------------
(***************************************************************************)
(* quantize.                                                                *)
(***************************************************************************)
AtLeast(x, y) == IF x < y THEN y ELSE x
AtMost(x, y) == IF x > y THEN y ELSE x

\* Mutant: to the nearest step instead of down.
MutFloored(value, step) ==
  IF step = None THEN value ELSE ((value + step \div 2) \div step) * step

Floored(value, step) == IF step = None THEN value ELSE (value \div step) * step

\* Python's round: half to even.
Rounded(value, decimals) ==
  LET watts == value \div 10
      rest == value % 10
  IN IF decimals # 0 THEN value
     ELSE IF rest > 5 \/ (rest = 5 /\ watts % 2 = 1) THEN (watts + 1) * 10
     ELSE watts * 10

Quantize(value, g) ==
  Rounded(AtMost(AtLeast(Floored(value, g.step), g.min), g.max), g.decimals)

(***************************************************************************)
(* regulator_base_value and compute_step.                                   *)
(***************************************************************************)
Base ==
  IF regulator.base = "entity" THEN reported
  ELSE IF regulator.base = "balance" THEN balance.power
  ELSE IF last_value # None THEN last_value
  ELSE IF regulator.direction = "producer" THEN regulator.max ELSE regulator.min

Error == balance.net - regulator.target

Magnitude(x) == AtLeast(x, -x)

Sign == IF regulator.direction = "producer" THEN 1 ELSE -1

Change == Sign * regulator.gain * (Error \div 10)

Limited(value) ==
  IF regulator.max_change = None \/ last_value = None THEN value
  ELSE AtMost(AtLeast(value, last_value - regulator.max_change),
              last_value + regulator.max_change)

Setpoint == Quantize(Limited(Base + Change), regulator)

\* Mutant: a value equal to the last one is sent again.
MutOutcome == IF Magnitude(Error) <= regulator.deadband THEN "deadband" ELSE "sent"

Outcome ==
  IF Magnitude(Error) <= regulator.deadband THEN "deadband"
  ELSE IF last_value # None /\ Setpoint = last_value THEN "unchanged"
  ELSE "sent"
-----------------------------------------------------------------------------
(***************************************************************************)
(* The plant.                                                               *)
(***************************************************************************)
\* Import at the meter, with the device at `p`.
NetAt(p) == load - Sign * p

Measure ==
  /\ balance' = [net |-> NetAt(power), power |-> power]
  /\ UNCHANGED <<regulator, load, changes, command, power, reported, last_value, outcome>>

Report ==
  /\ reported' = power
  /\ UNCHANGED <<regulator, load, changes, command, power, balance, last_value, outcome>>

Follow ==
  /\ power' = command
  /\ UNCHANGED <<regulator, load, changes, command, balance, reported, last_value, outcome>>

ChangeLoad(l) ==
  /\ changes < MaxChanges
  /\ load' = l /\ changes' = changes + 1
  /\ UNCHANGED <<regulator, command, power, balance, reported, last_value, outcome>>

\* ScenarioEngine._regulate, with a balance, a base value and the publish let through.
Step ==
  /\ outcome' = Outcome
  /\ IF Outcome = "sent" THEN command' = Setpoint /\ last_value' = Setpoint
                         ELSE UNCHANGED <<command, last_value>>
  /\ UNCHANGED <<regulator, load, changes, power, balance, reported>>

\* The scenario starts.
LoopInit ==
  /\ regulator \in Regulators
  /\ load \in Loads /\ changes = 0
  /\ power \in Powers /\ command = power
  /\ balance = [net |-> NetAt(power), power |-> power]
  /\ reported = power
  /\ last_value = None /\ outcome = None

\* The interval leaves device and meters the time to settle: a step happens only when
\* what it reads is what is.  The code cannot see to that; it is what interval_s is
\* chosen for.
Accurate ==
  /\ power = command
  /\ balance = [net |-> NetAt(power), power |-> power]
  /\ reported = power

PacedStep == Accurate /\ Step

PacedNext ==
  \/ Measure \/ Report \/ Follow \/ PacedStep
  \/ \E l \in Loads : ChangeLoad(l)

PacedSpec == LoopInit /\ [][PacedNext]_loopVars
-----------------------------------------------------------------------------
(***************************************************************************)
(* Properties.                                                              *)
(***************************************************************************)
\* Where the device would bring the meter to the target.
Ideal == Sign * (load - regulator.target)

\* Raising the setpoint from accurate readings never passes the ideal, so a consumer
\* takes no more than the surplus and a producer feeds in no more than is asked for:
\* not by gain, by floor, by the change limit.  Only the minimum, as it is rounded, may be
\* above it.
NeverRaisedPastIdeal ==
  [][command' > command /\ Accurate /\ Base = power
       => command' <= Ideal \/ command' = Rounded(regulator.min, regulator.decimals)]_loopVars

\* Where a loop that rests should be: nothing more is sent, and the device is inside the
\* deadband, at a limit, or so close below the ideal that the gain cannot lift the
\* setpoint by a whole step.
CloseEnough ==
  LET missing == Ideal - power IN
  \/ Magnitude(missing) <= regulator.deadband
  \/ missing < 0 /\ power = regulator.min
  \/ missing > 0 /\ power = regulator.max
  \/ missing > 0 /\ regulator.step # None /\ missing * regulator.gain < 10 * regulator.step

AtRest == outcome # "sent" /\ CloseEnough
-----------------------------------------------------------------------------
(***************************************************************************)
(* Proofs.                                                                  *)
(***************************************************************************)
Whole(x) == x \in Int /\ x % 10 = 0

\* Everything that is sent, followed and measured is whole watts, and the last value is
\* what the device was told.
LoopInv ==
  /\ regulator \in Regulators
  /\ Whole(load) /\ Whole(power) /\ Whole(command)
  /\ Whole(balance.power) /\ Whole(reported)
  /\ last_value \in {None, command}

\* A step of the device is not above the value it is taken from, and in whole watts when
\* the step is.
LEMMA FlooredIsBelow ==
  ASSUME NEW value \in Int, NEW step \in (Nat \ {0}) \cup {None}, None \notin Int
  PROVE  /\ Floored(value, step) \in Int /\ Floored(value, step) <= value
         /\ Whole(step) => Whole(Floored(value, step))
  <1>1. CASE step = None
    BY <1>1 DEF Floored, Whole
  <1>2. CASE step # None
    <2> DEFINE q == value \div step
    <2>1. step \in Nat \ {0} /\ q \in Int
      BY <1>2
    <2>2. value = step * q + (value % step) /\ value % step \in 0..(step - 1)
      BY <2>1
    <2>3. Floored(value, step) = q * step
      BY <1>2 DEF Floored
    <2> HIDE DEF q
    <2>4. q * step \in Int /\ q * step = step * q
      BY <2>1
    <2>5. Floored(value, step) <= value
      BY <2>1, <2>2, <2>3, <2>4
    <2>6. ASSUME Whole(step) PROVE Whole(q * step)
      <3>1. PICK t \in Int : step = 10 * t
        BY <2>6, <2>1 DEF Whole
      <3>2. q * step = 10 * (q * t) /\ q * t \in Int
        BY <3>1, <2>1
      <3> DEFINE p == q * t
      <3>3. p \in Int /\ q * step = 10 * p
        BY <3>2
      <3> HIDE DEF p
      <3> QED BY <3>3 DEF Whole
    <2> QED BY <2>3, <2>4, <2>5, <2>6
  <1> QED BY <1>1, <1>2

\* Rounding gives whole watts, and nothing above a limit of whole watts.
LEMMA RoundedIsWhole ==
  ASSUME NEW value \in Int
  PROVE  Whole(Rounded(value, 0))
  <1> DEFINE w == value \div 10
             r == value % 10
  <1>1. w \in Int
    OBVIOUS
  <1>2. Rounded(value, 0) = (w + 1) * 10 \/ Rounded(value, 0) = w * 10
    BY DEF Rounded
  <1> HIDE DEF w
  <1> QED BY <1>1, <1>2 DEF Whole

\* With or without decimals, rounding does not pass a limit of whole watts.
LEMMA RoundedIsBelow ==
  ASSUME NEW value \in Int, NEW decimals, NEW limit, Whole(limit), value <= limit
  PROVE  Rounded(value, decimals) <= limit
  <1>1. CASE decimals # 0
    BY <1>1 DEF Rounded, Whole
  <1>2. CASE decimals = 0
    <2> DEFINE w == value \div 10
               r == value % 10
    <2>1. w \in Int /\ r \in 0..9 /\ value = 10 * w + r
      OBVIOUS
    <2>2. PICK m \in Int : limit = 10 * m
      BY DEF Whole
    <2>3. Rounded(value, decimals) = IF r > 5 \/ (r = 5 /\ w % 2 = 1) THEN (w + 1) * 10 ELSE w * 10
      BY <1>2 DEF Rounded
    <2> HIDE DEF w, r
    <2>4. CASE r = 0
      BY <2>1, <2>2, <2>3, <2>4
    <2>5. CASE r # 0
      <3>1. w + 1 <= m
        BY <2>1, <2>2, <2>5
      <3> QED BY <2>1, <2>2, <2>3, <3>1
    <2> QED BY <2>4, <2>5
  <1> QED BY <1>1, <1>2

\* The setpoint is whole watts.  It is above no limit of whole watts that neither the wish
\* nor the last command is above, unless the minimum is.
LEMMA SetpointIsBelow ==
  ASSUME LoopInv, Base \in Int, Change \in Int
  PROVE  /\ Whole(Setpoint)
         /\ \A limit \in Int :
              Whole(limit) /\ Base + Change <= limit /\ command <= limit
              => Setpoint <= limit \/ Setpoint = Rounded(regulator.min, regulator.decimals)
  <1> DEFINE wish == Base + Change
             near == Limited(wish)
             low == Floored(near, regulator.step)
             held == AtMost(AtLeast(low, regulator.min), regulator.max)
  <1>1. /\ regulator \in Regulator /\ regulator.min < regulator.max /\ None \notin Int
        /\ regulator.decimals # 0 => /\ regulator.step # None
                                     /\ WholeWatts({regulator.step, regulator.min, regulator.max})
    BY RegulatorsAssumption DEF LoopInv
  <1>2. /\ regulator.min \in Int /\ regulator.max \in Int
        /\ regulator.step \in (Nat \ {0}) \cup {None}
        /\ regulator.max_change \in (Nat \ {0}) \cup {None}
    BY <1>1 DEF Regulator
  <1>3. command \in Int /\ last_value \in {None, command} /\ wish \in Int
    BY DEF LoopInv, Whole
  <1>4. near \in Int /\ \A limit \in Int : wish <= limit /\ command <= limit => near <= limit
    <2> HIDE DEF wish
    <2> QED BY <1>2, <1>3 DEF Limited, AtMost, AtLeast
  <1>5. /\ low \in Int /\ low <= near
        /\ Whole(regulator.step) => Whole(low)
    <2> HIDE DEF near
    <2> QED BY <1>1, <1>2, <1>4, FlooredIsBelow
  <1>6. Setpoint = Rounded(held, regulator.decimals)
    BY DEF Setpoint, Quantize
  <1> HIDE DEF wish, near, low
  <1>7. held \in Int /\ (held <= low \/ held = regulator.min)
    BY <1>1, <1>2, <1>5 DEF AtMost, AtLeast
  <1>8. ASSUME regulator.decimals # 0 PROVE Whole(held)
    <2>1. Whole(regulator.min) /\ Whole(regulator.max) /\ Whole(regulator.step)
      BY <1>1, <1>8 DEF WholeWatts, Whole
    <2> QED BY <1>5, <2>1 DEF AtMost, AtLeast
  <1> HIDE DEF held
  <1>9. Whole(Setpoint)
    <2>1. CASE regulator.decimals = 0
      BY <1>6, <1>7, <2>1, RoundedIsWhole
    <2>2. CASE regulator.decimals # 0
      BY <1>6, <1>8, <2>2 DEF Rounded
    <2> QED BY <2>1, <2>2
  <1>10. ASSUME NEW limit \in Int, Whole(limit), wish <= limit, command <= limit
         PROVE  Setpoint <= limit \/ Setpoint = Rounded(regulator.min, regulator.decimals)
    <2>1. CASE held = regulator.min
      BY <1>6, <2>1
    <2>2. CASE held <= low
      <3>1. held <= limit
        BY <1>4, <1>5, <1>7, <1>10, <2>2
      <3> QED BY <1>6, <1>7, <1>10, <3>1, RoundedIsBelow
    <2> QED BY <1>7, <2>1, <2>2
  <1> QED BY <1>9, <1>10 DEF wish

\* What a step reads are numbers, its target whole watts.
LEMMA LoopTyping ==
  ASSUME LoopInv
  PROVE  /\ regulator.gain \in 1..10 /\ Sign \in {1, -1} /\ Whole(regulator.target)
         /\ Base \in Int
  <1>1. /\ regulator \in Regulator /\ WholeWatts({regulator.target}) /\ None \notin Int
    BY RegulatorsAssumption DEF LoopInv
  <1>2. /\ regulator.gain \in 1..10 /\ regulator.target \in Int
        /\ regulator.min \in Int /\ regulator.max \in Int
    BY <1>1 DEF Regulator
  <1>3. Whole(regulator.target)
    BY <1>1, <1>2 DEF WholeWatts, Whole
  <1>4. Base \in Int
    BY <1>2 DEF Base, LoopInv, Whole
  <1> QED BY <1>2, <1>3, <1>4 DEF Sign

\* From accurate readings the wish is at most the ideal, or at most where the device is:
\* the gain is no more than the whole error.
LEMMA WishIsBelow ==
  ASSUME LoopInv, Accurate
  PROVE  /\ Change \in Int /\ Whole(Ideal)
         /\ Base = power => Base + Change <= Ideal \/ Base + Change <= command
  <1>1. /\ regulator.gain \in 1..10 /\ Sign \in {1, -1} /\ Whole(regulator.target)
    BY LoopTyping
  <1>2. balance.net = load - Sign * power /\ power = command
    BY DEF Accurate, NetAt
  <1>3. PICK p \in Int, l \in Int, t \in Int :
          power = 10 * p /\ load = 10 * l /\ regulator.target = 10 * t
    BY <1>1 DEF LoopInv, Whole
  <1> DEFINE e == l - Sign * p - t
             gain == regulator.gain
  <1>4. e \in Int /\ Error = 10 * e
    BY <1>1, <1>2, <1>3 DEF Error
  <1>5. Change = Sign * gain * e
    BY <1>4 DEF Change
  <1>6. Ideal = Sign * 10 * (l - t) /\ Ideal = power + Sign * 10 * e
    BY <1>1, <1>3 DEF Ideal
  <1>7. Whole(Ideal)
    BY <1>1, <1>6 DEF Whole
  <1> HIDE DEF e
  <1>8. \A k \in 1..10, x \in Int : k * x \in Int /\ (k * x <= 10 * x \/ k * x <= 0)
    OBVIOUS
  <1>9. gain * e \in Int /\ gain * (-e) \in Int /\ gain * (-e) = -(gain * e)
    BY <1>1, <1>4
  <1>10. (gain * e <= 10 * e \/ gain * e <= 0) /\ (gain * (-e) <= 10 * (-e) \/ gain * (-e) <= 0)
    BY <1>1, <1>4, <1>8
  <1>11. Change = gain * e \/ Change = gain * (-e)
    BY <1>1, <1>4, <1>5, <1>9
  <1> QED BY <1>1, <1>2, <1>3, <1>4, <1>5, <1>6, <1>7, <1>9, <1>10

\* Paced steps keep the loop in whole watts, whatever the load does.
THEOREM LoopInvariance == PacedSpec => []LoopInv
  <1>1. LoopInit => LoopInv
    <2> SUFFICES ASSUME LoopInit PROVE LoopInv
      OBVIOUS
    <2>1. Whole(load) /\ Whole(power)
      BY RegulatorsAssumption DEF LoopInit, WholeWatts, Whole
    <2> QED BY <2>1 DEF LoopInit, LoopInv
  <1>2. LoopInv /\ [PacedNext]_loopVars => LoopInv'
    <2> SUFFICES ASSUME LoopInv, [PacedNext]_loopVars PROVE LoopInv'
      OBVIOUS
    <2> USE DEF LoopInv
    <2>1. CASE Measure
      BY <2>1 DEF Measure
    <2>2. CASE Report
      BY <2>2 DEF Report
    <2>3. CASE Follow
      BY <2>3 DEF Follow
    <2>4. ASSUME NEW l \in Loads, ChangeLoad(l) PROVE LoopInv'
      <3>1. Whole(l)
        BY RegulatorsAssumption DEF WholeWatts, Whole
      <3> QED BY <2>4, <3>1 DEF ChangeLoad
    <2>5. CASE PacedStep
      <3>1. Whole(Setpoint)
        BY <2>5, LoopTyping, WishIsBelow, SetpointIsBelow DEF PacedStep
      <3> QED BY <2>5, <3>1 DEF PacedStep, Step
    <2>6. CASE UNCHANGED loopVars
      BY <2>6 DEF loopVars
    <2> QED BY <2>1, <2>2, <2>3, <2>4, <2>5, <2>6 DEF PacedNext
  <1> QED BY <1>1, <1>2, PTL DEF PacedSpec

\* Raising the setpoint never passes the ideal: for every regulator the checks of the
\* document let pass, every load and every place the device may stand.
THEOREM NeverRaisedProof == PacedSpec => NeverRaisedPastIdeal
  <1> DEFINE Kept == command' > command /\ Accurate /\ Base = power
                       => command' <= Ideal \/ command' = Rounded(regulator.min, regulator.decimals)
  <1>1. LoopInv /\ [PacedNext]_loopVars => [Kept]_loopVars
    <2> SUFFICES ASSUME LoopInv, PacedNext, command' > command, Accurate, Base = power
                 PROVE  command' <= Ideal \/ command' = Rounded(regulator.min, regulator.decimals)
      OBVIOUS
    <2>1. command \in Int /\ Whole(command)
      BY DEF LoopInv, Whole
    <2>2. PacedStep /\ command' = Setpoint
      BY <2>1 DEF PacedNext, PacedStep, Step, Measure, Report, Follow, ChangeLoad
    <2>3. /\ Base \in Int /\ Change \in Int /\ Whole(Ideal)
          /\ Base + Change <= Ideal \/ Base + Change <= command
      BY LoopTyping, WishIsBelow
    <2>4. /\ Whole(Setpoint)
          /\ \A limit \in Int :
               Whole(limit) /\ Base + Change <= limit /\ command <= limit
               => Setpoint <= limit \/ Setpoint = Rounded(regulator.min, regulator.decimals)
      BY <2>3, SetpointIsBelow
    <2>5. CASE command <= Ideal
      BY <2>1, <2>2, <2>3, <2>4, <2>5 DEF Whole
    <2>6. CASE Ideal <= command
      BY <2>1, <2>2, <2>3, <2>4, <2>6 DEF Whole
    <2> QED BY <2>1, <2>3, <2>5, <2>6 DEF Whole
  <1> HIDE DEF Kept
  <1>2. PacedSpec => [][Kept]_loopVars
    BY <1>1, LoopInvariance, PTL DEF PacedSpec
  <1> QED BY <1>2 DEF NeverRaisedPastIdeal, Kept
=============================================================================
