-------------------------------- MODULE Power --------------------------------
(***************************************************************************)
(* The handlers of package server that wake up, turn off and ping a        *)
(* device, POST / and POST /ping/:alias, and the cache devStatus that      *)
(* they share without a lock.  They look up the device with the storage    *)
(* calls of Server and ping it as Ping promises, which Pinger implements.  *)
(*                                                                         *)
(* Go ends a process in which two goroutines are seen to use a map at the  *)
(* same time.  That, and any other death of the process, is Restart.       *)
(***************************************************************************)
EXTENDS Server

CONSTANT
  IPv4  \* the devices whose IP is an IPv4 address; nobody checks it when they register

VARIABLES
  devStatus,  \* the aliases whose last ping was answered
  acted,      \* what was sent on behalf of a request, and to whom
  ping, heard, outcome,

  (* History. *)
  answers     \* the devices that answered the ping whose result was stored last, by alias

P == INSTANCE Ping WITH Calls <- Clients, Hosts <- Devices

pings == <<ping, heard, outcome>>
cache == <<devStatus, answers>>
powerVars == <<serverVars, cache, acted, pings>>

Action == [do : {"wake", "off"}, dev : Devices]

\* Nil is none of the records.
ASSUME PowerAssumption ==
  /\ IPv4 \subseteq Devices
  /\ Nil \notin Action \cup [kind : P!Kinds, host : Devices]

PowerPoints == ServerPoints \cup {"wake", "turnoff", "sent", "pinging"}

PowerInit ==
  /\ ServerInit
  /\ P!PingInit
  /\ devStatus = {}
  /\ acted = [c \in Clients |-> Nil]
  /\ answers = [a \in Aliases |-> {}]

-----------------------------------------------------------------------------
(* POST / *)

HandleRootPost(c) ==
  \E a \in Names, p \in Phrases :
    /\ Begin(c, [NoForm EXCEPT !.route = "power", !.alias = a, !.pass = p])
    /\ CheckPassword(c, p)
    /\ UNCHANGED <<boot, lists, cache, acted, pings>>

RootPostRejected(c) ==
  /\ Begin(c, [NoForm EXCEPT !.route = "power"])
  /\ Answer(c, "Unprocessable")
  /\ UNCHANGED <<storageVars, boot, lists, cache, acted, pings>>

\* Mutant: no return after the error page of a wrong password.
LookUpAlways(c) ==
  /\ Answered(c, "check")
  /\ req[c].route = "power"
  /\ GetDevice(c, req[c].alias)
  /\ UNCHANGED <<boot, req, lists, cache, acted, pings>>

LookUp(c) ==
  /\ Granted(c)
  /\ req[c].route = "power"
  /\ GetDevice(c, req[c].alias)
  /\ UNCHANGED <<boot, req, lists, cache, acted, pings>>

\* Mutant: getDevice goes on waiting when there is no device.
NoDeviceWaits(c) ==
  /\ Answered(c, "get")
  /\ req[c].route = "ping"
  /\ ~call[c].got.ok
  /\ Answer(c, "NotFound")
  /\ UNCHANGED <<storageVars, boot, req, lists, cache, acted, pings>>

NoDevice(c) ==
  /\ Answered(c, "get")
  /\ req[c].route \in {"power", "ping"}
  /\ ~call[c].got.ok
  /\ Answer(c, "NotFound")
  /\ UNCHANGED <<storageVars, boot, req, lists, cache, acted, pings>>

\* The cache decides between the magic packet and the turn off command.
HandleDeviceAction(c) ==
  /\ Answered(c, "get")
  /\ req[c].route = "power"
  /\ call[c].got.ok
  /\ GoTo(c, IF req[c].alias \in devStatus THEN "turnoff" ELSE "wake")
  /\ UNCHANGED <<storageVars, boot, req, lists, cache, acted, pings>>

\* Mutant: the cache is not looked at.
HandleDeviceActionAlwaysOff(c) ==
  /\ Answered(c, "get")
  /\ req[c].route = "power"
  /\ call[c].got.ok
  /\ GoTo(c, "turnoff")
  /\ UNCHANGED <<storageVars, boot, req, lists, cache, acted, pings>>

Sends(c, what) ==
  /\ acted' = [acted EXCEPT ![c] = [do |-> what, dev |-> call[c].got.dev]]
  /\ GoTo(c, "sent")
  /\ UNCHANGED <<storageVars, boot, req, lists, cache, pings>>

\* The datagram leaves; there is no broadcast address but for IPv4.
SendPacket(c) ==
  /\ At(c, "wake")
  /\ call[c].got.dev \in IPv4
  /\ Sends(c, "wake")

\* Mutant: the wrong status for an action that failed.
ActionFailsNotFound(c) ==
  /\ pc[c] \in {"wake", "turnoff"} \/ (At(c, "sent") /\ acted[c].do = "off")
  /\ Answer(c, "NotFound")
  /\ UNCHANGED <<storageVars, boot, req, lists, cache, acted, pings>>

\* The error of SendPacket or TurnOffDev.  The former means that nothing was sent;
\* the latter comes before the command is sent, or after, with any status but 200.
ActionFails(c) ==
  /\ pc[c] \in {"wake", "turnoff"} \/ (At(c, "sent") /\ acted[c].do = "off")
  /\ Answer(c, "BadRequest")
  /\ UNCHANGED <<storageVars, boot, req, lists, cache, acted, pings>>

\* http.Post reaches the device.
TurnOffDev(c) ==
  /\ At(c, "turnoff")
  /\ Sends(c, "off")

\* The datagram is on its way, or the device has answered the command.
PingHost(c) ==
  /\ At(c, "sent")
  /\ P!Begin(c, acted[c].do, acted[c].dev)
  /\ GoTo(c, "pinging")
  /\ UNCHANGED <<storageVars, boot, req, lists, cache, acted>>

Report(c) ==
  /\ At(c, "pinging")
  /\ req[c].route = "power"
  /\ \/ outcome[c] \in {"yes", "no"} /\ Answer(c, "OK")
     \/ outcome[c] = "error" /\ Answer(c, "InternalError")
     \/ outcome[c] = "aborted" /\ Answer(c, "aborted")
  /\ P!Drop(c)
  /\ UNCHANGED <<storageVars, boot, req, lists, cache, acted>>

-----------------------------------------------------------------------------
(* POST /ping/:alias asks for no password. *)

HandlePing(c) ==
  \E a \in Aliases :
    /\ Begin(c, [NoForm EXCEPT !.route = "ping", !.alias = a])
    /\ GetDevice(c, a)
    /\ UNCHANGED <<boot, lists, cache, acted, pings>>

\* Mutant: no return after the error page for a device that is not there.
CheckHealtOfNone(c) ==
  /\ Answered(c, "get")
  /\ req[c].route = "ping"
  /\ P!Begin(c, "health", call[c].got.dev)
  /\ GoTo(c, "pinging")
  /\ UNCHANGED <<storageVars, boot, req, lists, cache, acted>>

CheckHealt(c) ==
  /\ Answered(c, "get")
  /\ req[c].route = "ping"
  /\ call[c].got.ok
  /\ P!Begin(c, "health", call[c].got.dev)
  /\ GoTo(c, "pinging")
  /\ UNCHANGED <<storageVars, boot, req, lists, cache, acted>>

Remember(c) == answers' = [answers EXCEPT ![req[c].alias] = heard[c]]

\* Mutant: the status is stored whatever the answer.
SetStatusTrue(c) ==
  /\ At(c, "pinging")
  /\ req[c].route = "ping"
  /\ outcome[c] # "aborted"
  /\ devStatus' = devStatus \cup {req[c].alias}
  /\ Remember(c)
  /\ Answer(c, "OK")
  /\ P!Drop(c)
  /\ UNCHANGED <<storageVars, boot, req, lists, acted>>

SetStatus(c) ==
  /\ At(c, "pinging")
  /\ req[c].route = "ping"
  /\ \/ /\ outcome[c] \in {"yes", "no"}
        /\ devStatus' = IF outcome[c] = "yes" THEN devStatus \cup {req[c].alias}
                                              ELSE devStatus \ {req[c].alias}
        /\ Remember(c)
        /\ Answer(c, "OK")
     \/ /\ outcome[c] = "aborted"
        /\ Answer(c, "aborted")
        /\ UNCHANGED cache
  /\ P!Drop(c)
  /\ UNCHANGED <<storageVars, boot, req, lists, acted>>

-----------------------------------------------------------------------------
PowerBegins(c) ==
  \/ "power" \in Routes /\ (HandleRootPost(c) \/ RootPostRejected(c))
  \/ "ping" \in Routes /\ HandlePing(c)

PowerStep(c) ==
  \/ LookUp(c)
  \/ NoDevice(c)
  \/ HandleDeviceAction(c)
  \/ SendPacket(c)
  \/ TurnOffDev(c)
  \/ ActionFails(c)
  \/ PingHost(c)
  \/ Report(c)
  \/ CheckHealt(c)
  \/ SetStatus(c)

\* The pinger and the hosts; CheckHealt turns an error into a negative answer.
PingEnds(c) ==
  \/ \E o \in {"yes", "no", "aborted"} : P!End(c, o)
  \/ ping[c] # Nil /\ ping[c].kind # "health" /\ P!End(c, "error")

PingGoesOn ==
  /\ \/ \E c \in Clients : PingEnds(c)
     \/ \E h \in Devices : P!Hear(h)
  /\ UNCHANGED <<setupVars, lists, cache, acted>>

PowerReturn(c) ==
  /\ Return(c)
  /\ acted' = [acted EXCEPT ![c] = Nil]
  /\ UNCHANGED <<cache, pings>>

\* The cache is only in memory.
PowerForget ==
  /\ Forget
  /\ P!Lose
  /\ devStatus' = {}
  /\ acted' = [c \in Clients |-> Nil]
  /\ answers' = [a \in Aliases |-> {}]

\* The steps of package server that have nothing to do with power.
OtherStep(c) ==
  /\ ServerStep(c) \/ (ConfigStep(c) /\ UNCHANGED lists)
  /\ UNCHANGED <<cache, acted, pings>>

OtherBegins(c) ==
  /\ ServerBegins(c) \/ (ConfigBegins(c) /\ UNCHANGED lists)
  /\ UNCHANGED <<cache, acted, pings>>

StorageServes(c) == (Serve(c) \/ StoragePanics(c)) /\ UNCHANGED <<lists, cache, acted, pings>>
StorageDelivers == Deliver /\ UNCHANGED <<lists, cache, acted, pings>>

PowerSteps ==
  \/ \E c \in Clients : PowerBegins(c) \/ PowerStep(c) \/ PowerReturn(c)
  \/ \E c \in Clients : OtherBegins(c) \/ OtherStep(c) \/ StorageServes(c)
  \/ StorageDelivers
  \/ PingGoesOn
  \/ Restart /\ PowerForget

PowerSpec == PowerInit /\ [][PowerSteps /\ Track]_powerVars

(***************************************************************************)
(* As in Server.  The magic packet is one UDP datagram, but http.Post has  *)
(* no timeout and Ping does not promise an end: nothing is assumed there.  *)
(***************************************************************************)
PowerFairness ==
  /\ \A c \in Clients :
       /\ WF_setupVars(\/ LookUp(c) \/ NoDevice(c) \/ HandleDeviceAction(c) \/ CheckHealt(c)
                       \/ SendPacket(c) \/ (At(c, "wake") /\ ActionFails(c))
                       \/ (acted[c] # Nil /\ acted[c].do = "wake" /\ PingHost(c))
                       \/ Report(c) \/ SetStatus(c) \/ OtherStep(c) \/ PowerReturn(c))
       /\ SF_setupVars(StorageServes(c))
  /\ WF_setupVars(StorageDelivers)
  /\ WF_setupVars(loop = "dying" /\ Restart /\ PowerForget)

FairPowerSpec == PowerSpec /\ PowerFairness

-----------------------------------------------------------------------------
PowerTypeOK ==
  /\ RecordsTypeOK
  /\ P!PingTypeOK
  /\ pc \in [Clients -> PowerPoints]
  /\ devStatus \subseteq Aliases
  /\ acted \in [Clients -> Action \cup {Nil}]
  /\ answers \in [Aliases -> SUBSET Devices]

(***************************************************************************)
(* Neither packet nor command is sent on behalf of a request whose         *)
(* password was not in force at some moment of the request.                *)
(***************************************************************************)
PowerAuthorised ==
  \A c \in Clients : acted[c] # Nil => req[c].pass \in pws[c]

(***************************************************************************)
(* In spite of the one pinger, of races of pings and of restarts, the turn *)
(* off command is chosen only if the ping of the alias that was stored     *)
(* last was really answered by somebody, and it is sent only when it was   *)
(* chosen; without such a ping the device is woken up.                     *)
(***************************************************************************)
OffNeedsAnswer ==
  [][\A c \in Clients :
       /\ pc[c] # "turnoff" /\ pc'[c] = "turnoff" => answers[req[c].alias] # {}
       /\ acted[c] = Nil /\ acted'[c] # Nil /\ acted'[c].do = "off" => At(c, "turnoff")]_powerVars

(***************************************************************************)
(* The status of POST / says whether anything was sent to a device, but    *)
(* for the 400 of a turn off command, which may have reached the device    *)
(* before it failed; and it is "not found" only if the alias was free at   *)
(* some moment of the request.  What is sent goes to the device that was,  *)
(* at some moment of the request, registered under the alias it names,     *)
(* whatever others register, delete and ping.                              *)
(***************************************************************************)
PowerRepliesTruthful ==
  \A c \in Clients :
    /\ acted[c] # Nil => <<req[c].alias, acted[c].dev>> \in was[c]
    /\ At(c, "answered") /\ req[c].route = "power" =>
         /\ reply[c] \in {"OK", "InternalError", "aborted"} => acted[c] # Nil
         /\ reply[c] \in {"Unprocessable", "Unauthorized", "NotFound"} => acted[c] = Nil
         /\ reply[c] = "BadRequest" => acted[c] = Nil \/ acted[c].do = "off"
         /\ reply[c] = "NotFound" => req[c].alias = Empty \/ <<req[c].alias, Nil>> \in was[c]

(***************************************************************************)
(* Every request of a configured process is answered, except that the turn *)
(* off command may hang, a ping may, and a configuration that waits for    *)
(* the lock of the file.                                                   *)
(***************************************************************************)
PowerServed ==
  \A c \in Clients :
    (loop # "off" /\ pc[c] # "idle") ~>
      \/ At(c, "idle") \/ At(c, "open") \/ At(c, "pinging")
      \/ At(c, "turnoff")
      \/ At(c, "sent") /\ acted[c].do = "off"
=============================================================================
