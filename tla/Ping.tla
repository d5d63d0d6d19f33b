-------------------------------- MODULE Ping --------------------------------
(***************************************************************************)
(* What a caller of CheckHealt and PingHost (utils/functions.go) may rely  *)
(* on when other pings run in the same process: without the pinger, its    *)
(* loop and its channels.  A positive answer is never made up, but it may  *)
(* be owed to the host of another ping that was in progress at the time.   *)
(* Nothing is promised about negative answers, nor that a ping ends.       *)
(***************************************************************************)
CONSTANTS
  Calls,  \* the calls, or whoever makes them one after the other
  Hosts,  \* what is pinged
  Nil

VARIABLES
  ping,    \* the ping that a caller has asked for
  heard,   \* the hosts that answered while it was in progress
  outcome  \* how it ended

pingVars == <<ping, heard, outcome>>

(***************************************************************************)
(* CheckHealt asks whether the host is alive; PingHost waits for it to     *)
(* wake up, or, with alive set, to be turned off.                          *)
(***************************************************************************)
Kinds == {"health", "wake", "off"}

\* A report with a true entry, or CheckHealt's true, is "yes".
Outcomes == {"none", "yes", "no", "error", "aborted"}

PingTypeOK ==
  /\ ping \in [Calls -> [kind : Kinds, host : Hosts] \cup {Nil}]
  /\ heard \in [Calls -> SUBSET Hosts]
  /\ outcome \in [Calls -> Outcomes]

PingInit ==
  /\ ping = [c \in Calls |-> Nil]
  /\ heard = [c \in Calls |-> {}]
  /\ outcome = [c \in Calls |-> "none"]

Pinging(c) == ping[c] # Nil /\ outcome[c] = "none"

Begin(c, k, h) ==
  /\ ping[c] = Nil
  /\ ping' = [ping EXCEPT ![c] = [kind |-> k, host |-> h]]
  /\ UNCHANGED <<heard, outcome>>

\* An answer of a host that is being pinged reaches all pings in progress.
Hear(h) ==
  /\ \E c \in Calls : Pinging(c) /\ ping[c].host = h
  /\ heard' = [c \in Calls |-> IF Pinging(c) THEN heard[c] \cup {h} ELSE heard[c]]
  /\ UNCHANGED <<ping, outcome>>

\* A yes about a host that should be alive takes an answer.
End(c, o) ==
  /\ Pinging(c)
  /\ o = "yes" /\ ping[c].kind # "off" => heard[c] # {}
  /\ outcome' = [outcome EXCEPT ![c] = o]
  /\ UNCHANGED <<ping, heard>>

\* The caller has used the outcome.
Drop(c) ==
  /\ outcome[c] # "none"
  /\ ping' = [ping EXCEPT ![c] = Nil]
  /\ heard' = [heard EXCEPT ![c] = {}]
  /\ outcome' = [outcome EXCEPT ![c] = "none"]

\* The process ends.
Lose ==
  /\ ping' = [c \in Calls |-> Nil]
  /\ heard' = [c \in Calls |-> {}]
  /\ outcome' = [c \in Calls |-> "none"]

PingNext ==
  \/ \E c \in Calls, k \in Kinds, h \in Hosts : Begin(c, k, h)
  \/ \E h \in Hosts : Hear(h)
  \/ \E c \in Calls, o \in Outcomes \ {"none"} : End(c, o)
  \/ \E c \in Calls : Drop(c)
  \/ Lose

PingSpec == PingInit /\ [][PingNext]_pingVars
=============================================================================
