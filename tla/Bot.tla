--------------------------------- MODULE Bot ---------------------------------
(***************************************************************************)
(* Package bot: every message of a Telegram chat is handled in a goroutine *)
(* of its own, which is one more client of the storage goroutine and one   *)
(* more user of the pinger, next to the handlers of the web server.        *)
(*                                                                         *)
(* Nothing recovers a panic in these goroutines: a panic of the pinger     *)
(* ends the process, which is Restart.                                     *)
(***************************************************************************)
EXTENDS Storage, Sequences

CONSTANTS
  Updates,      \* the clients that are goroutines of the bot
  WebRequests,  \* what the web server may ask of the storage goroutine
  Commands      \* the messages that may arrive

Command == [from : {"allowed", "other"},
            name : {"text", "help", "list", "add", "wakeup", "turnoff", "check"},
            args : Seq(Names),
            dev  : MaybeDevice]

ASSUME BotAssumption ==
  /\ Updates \subseteq Clients
  /\ WebRequests \subseteq Request
  /\ Nil \notin Commands
  /\ \A m \in Commands : m \in Command /\ (m.name = "add" => m.dev \in Devices)

VARIABLES
  at,      \* where the handler of an update is
  msg,     \* its message
  rest,    \* the arguments deviceWake has still to look up
  status,  \* its variable status, by alias
  alive,   \* its variable alreadyAlive
  text,    \* the answer it sends
  ping, heard, outcome,

  (* History. *)
  was,     \* the <<alias, device or Nil>> pairs true since the message came
  acted    \* it changed or did something: a write, a packet, a command

P == INSTANCE Ping WITH Calls <- Updates, Hosts <- Devices

handlers == <<at, msg, rest, status, alive, text>>
pings == <<ping, heard, outcome>>
history == <<was, acted>>
codeVars == <<storageVars, handlers, pings>>
botVars == <<storageVars, handlers, pings, history>>

BotPoints == {"idle", "list", "add", "get", "health", "packet", "report", "posting", "reply"}
Words == {"unset", "none", "awake", "error", "alive", "sleeping"}
Texts == {"empty", "denied", "info", "usage", "list", "added", "failed", "notfound",
          "awake", "asleep", "report"}

NoStatus == [a \in Names |-> "unset"]

BotInit ==
  /\ StorageInit
  /\ P!PingInit
  /\ at = [u \in Updates |-> "idle"]
  /\ msg = [u \in Updates |-> Nil]
  /\ rest = [u \in Updates |-> <<>>]
  /\ status = [u \in Updates |-> NoStatus]
  /\ alive = [u \in Updates |-> FALSE]
  /\ text = [u \in Updates |-> "empty"]
  /\ was = [u \in Updates |-> {}]
  /\ acted = [u \in Updates |-> FALSE]

-----------------------------------------------------------------------------
GoTo(u, l) ==
  /\ at' = [at EXCEPT ![u] = l]
  /\ UNCHANGED text

Say(u, t) ==
  /\ at' = [at EXCEPT ![u] = "reply"]
  /\ text' = [text EXCEPT ![u] = t]

\* Mutant: getChan is buffered, and the bot does not wait for the rendezvous.
GetDeviceBuffered(u, a) ==
  /\ call[u].at = "idle"
  /\ call' = [call EXCEPT ![u] = [at |-> "waiting", q |-> [op |-> "get", name |-> a],
                                 got |-> Failure]]
  /\ UNCHANGED <<disk, loop, cur, out>>
  /\ GoTo(u, "get")

GetDevice(u, a) ==
  /\ Send(u, [op |-> "get", name |-> a])
  /\ GoTo(u, "get")

\* The storage goroutine has answered.
Got(u, l) == at[u] = l /\ call[u].at = "idle"

\* The commands whose handler stops at a message without enough arguments.
Usage(m) == m.name \in {"add", "wakeup", "turnoff", "check"} /\ m.args = <<>>

(***************************************************************************)
(* A message that is no command gets an answer only when the user is not   *)
(* allowed; otherwise the check of the user has no effect: the handler     *)
(* does not return, and the command overwrites the refusal.                *)
(***************************************************************************)
HandleUpdate(u) ==
  \E m \in Commands :
    /\ at[u] = "idle"
    /\ msg' = [msg EXCEPT ![u] = m]
    /\ rest' = [rest EXCEPT ![u] = IF m.name = "wakeup" THEN m.args ELSE <<>>]
    /\ CASE m.name = "text" -> Say(u, IF m.from = "other" THEN "denied" ELSE "empty")
                                 /\ UNCHANGED storageVars
         [] m.name = "help" -> Say(u, "info") /\ UNCHANGED storageVars
         [] m.name = "list" -> Send(u, [op |-> "aliases"]) /\ GoTo(u, "list")
         [] Usage(m) -> Say(u, "usage") /\ UNCHANGED storageVars
         [] m.name = "add" /\ ~Usage(m) ->
              /\ Send(u, [op |-> "add", name |-> m.args[1], dev |-> m.dev])
              /\ GoTo(u, "add")
         [] m.name \in {"wakeup", "turnoff", "check"} /\ ~Usage(m) -> GetDevice(u, m.args[1])
    /\ UNCHANGED <<status, alive, pings>>

AliasesListed(u) ==
  /\ Got(u, "list")
  /\ Say(u, "list")
  /\ UNCHANGED <<storageVars, msg, rest, status, alive, pings>>

\* Mutant: the closed channel of a failure is taken for the success.
AddedAlways(u) ==
  /\ Got(u, "add")
  /\ Say(u, "added")
  /\ UNCHANGED <<storageVars, msg, rest, status, alive, pings>>

Added(u) ==
  /\ Got(u, "add")
  /\ Say(u, IF call[u].got.ok THEN "added" ELSE "failed")
  /\ UNCHANGED <<storageVars, msg, rest, status, alive, pings>>

-----------------------------------------------------------------------------
(* /wakeup, one alias after the other. *)

\* The end of a round: the word for the current alias, and the next round.
Conclude(u, w) ==
  /\ status' = [status EXCEPT ![u][Head(rest[u])] = w]
  /\ rest' = [rest EXCEPT ![u] = Tail(@)]
  /\ IF Tail(rest[u]) = <<>>
     THEN Say(u, "report") /\ UNCHANGED storageVars
     ELSE GetDevice(u, Head(Tail(rest[u])))

\* Mutant: a missing device ends the loop.
WakeNoneEnds(u) ==
  /\ Got(u, "get")
  /\ msg[u].name = "wakeup"
  /\ ~call[u].got.ok
  /\ status' = [status EXCEPT ![u][Head(rest[u])] = "none"]
  /\ rest' = [rest EXCEPT ![u] = <<>>]
  /\ Say(u, "report")
  /\ UNCHANGED <<storageVars, msg, alive, pings>>

\* Mutant: continue without the next alias.
WakeNoneStays(u) ==
  /\ Got(u, "get")
  /\ msg[u].name = "wakeup"
  /\ ~call[u].got.ok
  /\ status' = [status EXCEPT ![u][Head(rest[u])] = "none"]
  /\ GetDevice(u, Head(rest[u]))
  /\ UNCHANGED <<msg, rest, alive, pings>>

WakeNone(u) ==
  /\ Got(u, "get")
  /\ msg[u].name = "wakeup"
  /\ ~call[u].got.ok
  /\ Conclude(u, "none")
  /\ UNCHANGED <<msg, alive, pings>>

\* Mutant: a device that is not there is pinged.
CheckHealtOfNone(u) ==
  /\ Got(u, "get")
  /\ msg[u].name \in {"wakeup", "check"}
  /\ P!Begin(u, "health", call[u].got.dev)
  /\ GoTo(u, "health")
  /\ UNCHANGED <<storageVars, msg, rest, status, alive>>

\* /wakeup and /check ask whether the device is alive.
CheckHealt(u) ==
  /\ Got(u, "get")
  /\ msg[u].name \in {"wakeup", "check"}
  /\ call[u].got.ok
  /\ P!Begin(u, "health", call[u].got.dev)
  /\ GoTo(u, "health")
  /\ UNCHANGED <<storageVars, msg, rest, status, alive>>

\* A device that is awake is woken up all the same.
WakeChecked(u) ==
  /\ at[u] = "health"
  /\ msg[u].name = "wakeup"
  /\ P!Drop(u)
  /\ alive' = [alive EXCEPT ![u] = (outcome[u] = "yes")]
  /\ status' = [status EXCEPT ![u][Head(rest[u])] = IF outcome[u] = "yes" THEN "awake" ELSE @]
  /\ GoTo(u, "packet")
  /\ UNCHANGED <<storageVars, msg, rest>>

SendPacketFails(u) ==
  /\ at[u] = "packet"
  /\ Conclude(u, "error")
  /\ UNCHANGED <<msg, alive, pings>>

SendPacket(u) ==
  /\ at[u] = "packet"
  /\ P!Begin(u, IF alive[u] THEN "off" ELSE "wake", call[u].got.dev)
  /\ GoTo(u, "report")
  /\ UNCHANGED <<storageVars, msg, rest, status, alive>>

WakePinged(u) ==
  /\ at[u] = "report"
  /\ \/ outcome[u] = "yes" /\ Conclude(u, "alive")
     \/ outcome[u] = "no" /\ Conclude(u, "sleeping")
     \/ outcome[u] = "error" /\ Conclude(u, "error")
  /\ P!Drop(u)
  /\ UNCHANGED <<msg, alive>>

-----------------------------------------------------------------------------
(* /turnoff and /check of one alias. *)

NotFound(u) ==
  /\ Got(u, "get")
  /\ msg[u].name \in {"turnoff", "check"}
  /\ ~call[u].got.ok
  /\ Say(u, "notfound")
  /\ UNCHANGED <<storageVars, msg, rest, status, alive, pings>>

TurnOffDev(u) ==
  /\ Got(u, "get")
  /\ msg[u].name = "turnoff"
  /\ call[u].got.ok
  /\ GoTo(u, "posting")
  /\ UNCHANGED <<storageVars, msg, rest, status, alive, pings>>

\* The device has answered the command, or has not.
TurnedOff(u) ==
  /\ at[u] = "posting"
  /\ Say(u, "asleep") \/ Say(u, "failed")
  /\ UNCHANGED <<storageVars, msg, rest, status, alive, pings>>

\* Mutant: the two answers of /check are swapped.
CheckedSwapped(u) ==
  /\ at[u] = "health"
  /\ msg[u].name = "check"
  /\ Say(u, IF outcome[u] = "yes" THEN "asleep" ELSE "awake")
  /\ P!Drop(u)
  /\ UNCHANGED <<storageVars, msg, rest, status, alive>>

Checked(u) ==
  /\ at[u] = "health"
  /\ msg[u].name = "check"
  /\ Say(u, IF outcome[u] = "yes" THEN "awake" ELSE "asleep")
  /\ P!Drop(u)
  /\ UNCHANGED <<storageVars, msg, rest, status, alive>>

-----------------------------------------------------------------------------
\* bot.Send: the answer goes out, or not, and the goroutine ends.
SendAnswer(u) ==
  /\ at[u] = "reply"
  /\ at' = [at EXCEPT ![u] = "idle"]
  /\ msg' = [msg EXCEPT ![u] = Nil]
  /\ status' = [status EXCEPT ![u] = NoStatus]
  /\ alive' = [alive EXCEPT ![u] = FALSE]
  /\ text' = [text EXCEPT ![u] = "empty"]
  /\ Release(u)
  /\ UNCHANGED <<rest, pings>>

BotStep(u) ==
  \/ AliasesListed(u)
  \/ Added(u)
  \/ WakeNone(u)
  \/ CheckHealt(u)
  \/ WakeChecked(u)
  \/ SendPacket(u)
  \/ WakePinged(u)
  \/ NotFound(u)
  \/ TurnOffDev(u)
  \/ Checked(u)
  \/ SendAnswer(u)

\* The pinger and the hosts; CheckHealt has no error to return.
PingGoesOn ==
  /\ \/ \E u \in Updates, o \in {"yes", "no"} : P!End(u, o)
     \/ \E u \in Updates : ping[u] # Nil /\ ping[u].kind # "health" /\ P!End(u, "error")
     \/ \E h \in Devices : P!Hear(h)
  /\ UNCHANGED <<storageVars, handlers>>

-----------------------------------------------------------------------------
(* The rest of the process. *)

Serve(c) == Handle(c) /\ UNCHANGED <<handlers, pings>>
Deliver == (SendAlias \/ SendReply) /\ UNCHANGED <<handlers, pings>>

\* A handler of the storage panics: the bot may see the closed channel of a list
\* as an empty one, until the process ends.
StoragePanics(c) == NilBucket(c) /\ UNCHANGED <<handlers, pings>>

\* The web server uses the same channels, and configures the service.
WebServer ==
  /\ \/ \E c \in Clients \ Updates : Release(c) \/ \E q \in WebRequests : Send(c, q)
     \/ CreateBuckets
     \/ \E p \in Passwords : InsertPassword(p)
     \/ StartHandling
  /\ UNCHANGED <<handlers, pings>>

Restart ==
  /\ Die
  /\ P!Lose
  /\ at' = [u \in Updates |-> "idle"]
  /\ msg' = [u \in Updates |-> Nil]
  /\ rest' = [u \in Updates |-> <<>>]
  /\ status' = [u \in Updates |-> NoStatus]
  /\ alive' = [u \in Updates |-> FALSE]
  /\ text' = [u \in Updates |-> "empty"]

Steps ==
  \/ \E u \in Updates : HandleUpdate(u) \/ BotStep(u) \/ SendPacketFails(u) \/ TurnedOff(u)
  \/ \E c \in Clients : Serve(c) \/ StoragePanics(c)
  \/ Deliver
  \/ PingGoesOn
  \/ WebServer
  \/ Restart

\* A request of u to write is received and committed in this step.
Commits(u) ==
  /\ call[u].at = "sending" /\ call'[u].at = "waiting"
  /\ call[u].q.op = "add" /\ out'.ok

Track ==
  /\ was' = [u \in Updates |-> IF at'[u] = "idle" THEN {}
                               ELSE was[u] \cup { <<a, devices'[a]>> : a \in Aliases }]
  /\ acted' = [u \in Updates |->
       at'[u] # "idle" /\ (acted[u] \/ Commits(u) \/ at'[u] \in {"report", "posting"})]

BotSpec == BotInit /\ [][Steps /\ Track]_botVars

(***************************************************************************)
(* Every goroutine that can go on goes on; the storage goroutine is fair   *)
(* as in Storage, and a panic of it ends the process.  http.Post has no    *)
(* timeout, a ping need not end, and SendPacket succeeds unless it fails.  *)
(***************************************************************************)
BotFairness ==
  /\ \A u \in Updates : WF_codeVars(BotStep(u))
  /\ \A c \in Clients : SF_codeVars(Serve(c)) /\ WF_codeVars(StoragePanics(c))
  /\ WF_codeVars(Deliver)
  /\ WF_codeVars(loop = "dying" /\ Restart)

FairBotSpec == BotSpec /\ BotFairness

-----------------------------------------------------------------------------
BotTypeOK ==
  /\ StorageTypeOK
  /\ P!PingTypeOK
  /\ at \in [Updates -> BotPoints]
  /\ msg \in [Updates -> Commands \cup {Nil}]
  /\ rest \in [Updates -> Seq(Names)]
  /\ status \in [Updates -> [Names -> Words]]
  /\ alive \in [Updates -> BOOLEAN]
  /\ text \in [Updates -> Texts]
  /\ was \in [Updates -> SUBSET (Aliases \X MaybeDevice)]
  /\ acted \in [Updates -> BOOLEAN]

Arguments(u) == {msg[u].args[i] : i \in DOMAIN msg[u].args}

Registration(u, a) == \E d \in Devices : <<a, d>> \in was[u]
Absence(u, a) == a = Empty \/ <<a, Nil>> \in was[u]

(***************************************************************************)
(* The report of /wakeup has one word for every alias it was asked for and *)
(* for no other, although devices come and go between the rounds: "no      *)
(* device" only if there was none at some moment of the request, another   *)
(* word only if there was one.                                             *)
(***************************************************************************)
WakeTruthful ==
  \A u \in Updates : text[u] = "report" => \A a \in Names :
    /\ (status[u][a] = "unset") <=> (a \notin Arguments(u))
    /\ status[u][a] = "none" => Absence(u, a)
    /\ status[u][a] \notin {"unset", "none"} => Registration(u, a)

(***************************************************************************)
(* The other answers: a list has the aliases that were registered, "added" *)
(* means that the device is committed and a failure that it is not, and    *)
(* what is said of a device is said of one that was registered.            *)
(***************************************************************************)
BotRepliesTruthful ==
  \A u \in Updates :
    /\ text[u] = "list" => \A a \in Aliases :
         IF a \in call[u].got.names THEN Registration(u, a) ELSE Absence(u, a)
    /\ at[u] = "reply" /\ msg[u].name = "add" => (acted[u] <=> text[u] = "added")
    /\ text[u] = "notfound" => Absence(u, msg[u].args[1])
    /\ text[u] \in {"awake", "asleep"} => Registration(u, msg[u].args[1])

(***************************************************************************)
(* /check says that a device is awake only if some host answered its ping. *)
(***************************************************************************)
AwakeWasHeard ==
  [][\A u \in Updates : text[u] # "awake" /\ text'[u] = "awake" => heard[u] # {}]_botVars

(***************************************************************************)
(* The bot talks to the storage goroutine as its specification allows, so  *)
(* what Storage promises holds with the bot as a client.                   *)
(***************************************************************************)
BotUsesStorage == StorageSpec

(***************************************************************************)
(* With the storage goroutine running, every message is answered; a ping   *)
(* and the turn off command may hang.                                      *)
(***************************************************************************)
BotAnswered ==
  \A u \in Updates :
    (loop # "off" /\ at[u] # "idle") ~>
      (at[u] \in {"idle", "health", "report", "posting"} \/ loop = "off")
=============================================================================
