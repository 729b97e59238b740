------------------------------ MODULE BalanceFeed ------------------------------
(***************************************************************************)
(* How the energy balance gets from a message into a tick of the automation *)
(* service (AutomationService.on_message and poll_core).  The MQTT client's  *)
(* network thread writes last_balance and then last_balance_at; the          *)
(* scheduler's thread reads last_balance_at, and later last_balance, once    *)
(* for the rule engine and once more for the scenario engine.  No lock is    *)
(* held; each read and each write is a step of its own.                      *)
(*                                                                         *)
(* A balance is identified by the number of the message that carried it.     *)
(***************************************************************************)
EXTENDS Integers

CONSTANTS
  MaxMessages,   \* bound on the balance messages
  MaxFeedTime,   \* bound on the clock
  MaxAge         \* settings.balance_max_age_s

ASSUME BoundsAssumption == MaxMessages \in Nat /\ MaxFeedTime \in Nat /\ MaxAge \in Nat

VARIABLES
  now,
  lastBalance,     \* message of last_balance, 0 before the first
  lastBalanceAt,   \* [message, at] of last_balance_at; at is -1 before the first
  stamps,          \* history: when each message was first stamped, -1 if it is not yet
  network,         \* the network thread: "idle", "writing"
  scheduler,       \* the scheduler's thread: "idle", "aged", "rules_done"
  poll             \* [now, checked, rules, scenarios] of the current poll_core

Messages == 0..MaxMessages

feedVars == <<now, lastBalance, lastBalanceAt, stamps, network, scheduler, poll>>

NoStamp == [message |-> 0, at |-> -1]

NoPoll == [now |-> 0, checked |-> NoStamp, rules |-> 0, scenarios |-> 0]

FeedInit ==
  /\ now = 0
  /\ lastBalance = 0 /\ lastBalanceAt = NoStamp
  /\ stamps = [m \in Messages |-> -1]
  /\ network = "idle" /\ scheduler = "idle"
  /\ poll = NoPoll
-----------------------------------------------------------------------------
(***************************************************************************)
(* The network thread.                                                      *)
(***************************************************************************)
\* Mutant: the stamp is an age, not a time.
MutStamp(m) ==
  /\ lastBalanceAt' = [message |-> m, at |-> lastBalanceAt.at - now]
  /\ stamps' = [stamps EXCEPT ![m] = IF @ = -1 THEN now ELSE @]

Stamp(m) ==
  /\ lastBalanceAt' = [message |-> m, at |-> now]
  /\ stamps' = [stamps EXCEPT ![m] = IF @ = -1 THEN now ELSE @]

\* Mutant: a payload that cannot be read renews the stamp of the old balance.
MutWriteBalance ==
  /\ network = "idle"
  /\ network' = "writing"
  /\ UNCHANGED <<now, lastBalance, lastBalanceAt, stamps, scheduler, poll>>

WriteBalance ==
  /\ network = "idle" /\ lastBalance < MaxMessages
  /\ network' = "writing"
  /\ lastBalance' = lastBalance + 1
  /\ UNCHANGED <<now, lastBalanceAt, stamps, scheduler, poll>>

WriteStamp ==
  /\ network = "writing"
  /\ network' = "idle"
  /\ Stamp(lastBalance)
  /\ UNCHANGED <<now, lastBalance, scheduler, poll>>
-----------------------------------------------------------------------------
(***************************************************************************)
(* The scheduler's thread.                                                  *)
(***************************************************************************)
ReadAge ==
  /\ scheduler = "idle"
  /\ scheduler' = "aged"
  /\ poll' = [NoPoll EXCEPT !.now = now, !.checked = lastBalanceAt]
  /\ UNCHANGED <<now, lastBalance, lastBalanceAt, stamps, network>>

RuleTick ==
  /\ scheduler = "aged"
  /\ scheduler' = "rules_done"
  /\ poll' = [poll EXCEPT !.rules = lastBalance]
  /\ UNCHANGED <<now, lastBalance, lastBalanceAt, stamps, network>>

\* The age is the one read before the rules; the balance is read again.
ScenarioTick ==
  /\ scheduler = "rules_done"
  /\ scheduler' = "idle"
  /\ poll' = [poll EXCEPT !.scenarios = lastBalance]
  /\ UNCHANGED <<now, lastBalance, lastBalanceAt, stamps, network>>

FeedElapse ==
  /\ now < MaxFeedTime
  /\ now' = now + 1
  /\ UNCHANGED <<lastBalance, lastBalanceAt, stamps, network, scheduler, poll>>

FeedNext ==
  \/ WriteBalance \/ WriteStamp
  \/ ReadAge \/ RuleTick \/ ScenarioTick
  \/ FeedElapse

FeedSpec == FeedInit /\ [][FeedNext]_feedVars
-----------------------------------------------------------------------------
(***************************************************************************)
(* Properties.                                                              *)
(***************************************************************************)
\* Every variable has its type.
StampType == [message : Messages, at : Nat \cup {-1}]

FeedTypeOK ==
  /\ now \in Nat
  /\ lastBalance \in Messages /\ lastBalanceAt \in StampType
  /\ stamps \in [Messages -> Nat \cup {-1}]
  /\ network \in {"idle", "writing"} /\ scheduler \in {"idle", "aged", "rules_done"}
  /\ poll \in [now : Nat, checked : StampType, rules : Messages, scenarios : Messages]

\* This tick takes the balance for fresh.
TakenForFresh == poll.checked.at # -1 /\ poll.now - poll.checked.at <= MaxAge

\* A message that was stamped no longer than MaxAge before the poll, or is being
\* stamped only now.
Fresh(m) == stamps[m] = -1 \/ poll.now - stamps[m] <= MaxAge

\* Neither engine acts on a balance older than balance_max_age_s: whatever the two
\* threads interleave, the balance read after the age check is no older than the
\* stamp that passed it.
ActsOnFreshBalance ==
  TakenForFresh =>
    /\ scheduler = "rules_done" => poll.rules # 0 /\ Fresh(poll.rules)
    /\ scheduler = "idle" => /\ poll.rules # 0 /\ Fresh(poll.rules)
                             /\ poll.scenarios # 0 /\ Fresh(poll.scenarios)

================================================================================
