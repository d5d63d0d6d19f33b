----------------------------- MODULE BotProofs -----------------------------
(***************************************************************************)
(* Proofs about the bot, for any chats, commands and devices: it talks to  *)
(* the storage goroutine only in ways StorageSpec allows, so everything    *)
(* proved of package storage holds with the bot as one of its clients; and *)
(* it says of no device that it is awake unless some host has answered.    *)
(***************************************************************************)
EXTENDS Bot, StorageProofs, Naturals

Next == Steps /\ Track

(***************************************************************************)
(* What a handler relies on between its steps: a loop of deviceWake that   *)
(* has something to do has an alias to do it for.                          *)
(***************************************************************************)
Looping(u) == at[u] \in {"get", "health", "packet", "report"} /\ msg[u].name = "wakeup"

ArgumentsOK ==
  /\ at \in [Updates -> BotPoints]
  /\ msg \in [Updates -> Commands \cup {Nil}]
  /\ rest \in [Updates -> Seq(Names)]
  /\ \A u \in Updates : at[u] \in {"packet", "report"} => msg[u].name = "wakeup"
  /\ \A u \in Updates : Looping(u) => rest[u] # <<>>

-----------------------------------------------------------------------------
(* The requests the bot sends. *)

LEMMA BotRequests ==
  /\ \A n \in Names : [op |-> "get", name |-> n] \in Request
  /\ \A n \in Names, d \in Devices : [op |-> "add", name |-> n, dev |-> d] \in Request
  /\ [op |-> "aliases"] \in Request
  BY DEF Request, GetDev, AliasResponse, AliasRequest

LEMMA Arrivals ==
  ASSUME NEW m \in Commands
  PROVE  /\ m.args \in Seq(Names)
         /\ m.args # <<>> => m.args[1] \in Names
         /\ m.name = "add" => m.dev \in Devices
<1>1. m \in Command /\ (m.name = "add" => m.dev \in Devices)
  BY BotAssumption
<1>2. m.args \in Seq(Names)
  BY <1>1 DEF Command
<1> QED
  BY <1>1, <1>2

LEMMA HandleUpdateStep ==
  ASSUME ArgumentsOK, NEW u \in Updates, HandleUpdate(u)
  PROVE  (StorageNext \/ UNCHANGED storageVars) /\ ArgumentsOK'
<1>1. PICK m \in Commands :
        /\ at[u] = "idle"
        /\ msg' = [msg EXCEPT ![u] = m]
        /\ rest' = [rest EXCEPT ![u] = IF m.name = "wakeup" THEN m.args ELSE <<>>]
        /\ CASE m.name = "text" -> Say(u, IF m.from = "other" THEN "denied" ELSE "empty")
                                     /\ UNCHANGED storageVars
             [] m.name = "help" -> Say(u, "info") /\ UNCHANGED storageVars
             [] m.name = "list" -> Send(u, [op |-> "aliases"]) /\ GoTo(u, "list")
             [] Usage(m) -> Say(u, "usage") /\ UNCHANGED storageVars
             [] m.name = "add" /\ ~Usage(m) ->
                  /\ Send(u, [op |-> "add", name |-> m.args[1], dev |-> m.dev])
                  /\ GoTo(u, "add")
             [] m.name \in {"wakeup", "turnoff", "check"} /\ ~Usage(m) ->
                  GetDevice(u, m.args[1])
  BY DEF HandleUpdate
<1>a. /\ at[u] = "idle"
      /\ msg' = [msg EXCEPT ![u] = m]
      /\ rest' = [rest EXCEPT ![u] = IF m.name = "wakeup" THEN m.args ELSE <<>>]
  BY <1>1
<1>2. m.name \in {"text", "help", "list", "add", "wakeup", "turnoff", "check"}
  BY BotAssumption DEF Command
<1>3. u \in Clients /\ m.args \in Seq(Names)
  BY BotAssumption, Arrivals
<1>4. ASSUME NEW l \in BotPoints \ {"packet", "report"}, at' = [at EXCEPT ![u] = l],
             l = "get" /\ m.name = "wakeup" => m.args # <<>>, l # "health"
      PROVE  ArgumentsOK'
  <2>1. msg' \in [Updates -> Commands \cup {Nil}] /\ rest' \in [Updates -> Seq(Names)]
    BY <1>a, <1>3 DEF ArgumentsOK
  <2>2. at' \in [Updates -> BotPoints]
    BY <1>4 DEF ArgumentsOK
  <2>3. ASSUME NEW v \in Updates
        PROVE  /\ at'[v] \in {"packet", "report"} => msg'[v].name = "wakeup"
               /\ Looping(v)' => rest'[v] # <<>>
    <3>1. CASE v = u
      BY <1>a, <1>4, <3>1 DEF ArgumentsOK, Looping
    <3>2. CASE v # u
      <4>1. at'[v] = at[v] /\ msg'[v] = msg[v] /\ rest'[v] = rest[v]
        BY <1>a, <1>4, <3>2 DEF ArgumentsOK
      <4> QED
        BY <4>1 DEF ArgumentsOK, Looping
    <3> QED
      BY <3>1, <3>2
  <2> QED
    BY <2>1, <2>2, <2>3 DEF ArgumentsOK
<1>5. CASE m.name \in {"text", "help"} \/ Usage(m)
  <2>1. UNCHANGED storageVars /\ at' = [at EXCEPT ![u] = "reply"]
    BY <1>1, <1>2, <1>5 DEF Usage, Say
  <2> QED
    BY <1>4, <2>1 DEF BotPoints
<1>6. CASE m.name = "list"
  <2>1. Send(u, [op |-> "aliases"]) /\ at' = [at EXCEPT ![u] = "list"]
    BY <1>1, <1>6 DEF Usage, GoTo
  <2>2. StorageNext
    BY <1>3, <2>1, BotRequests DEF StorageNext
  <2> QED
    BY <1>4, <2>1, <2>2 DEF BotPoints
<1>7. CASE m.name = "add" /\ ~Usage(m)
  <2>1. /\ Send(u, [op |-> "add", name |-> m.args[1], dev |-> m.dev])
        /\ at' = [at EXCEPT ![u] = "add"]
    BY <1>1, <1>7 DEF GoTo
  <2>2. m.args[1] \in Names /\ m.dev \in Devices
    BY <1>7, Arrivals DEF Usage
  <2>3. StorageNext
    BY <1>3, <2>1, <2>2, BotRequests DEF StorageNext
  <2> QED
    BY <1>4, <2>1, <2>3 DEF BotPoints
<1>8. CASE m.name \in {"wakeup", "turnoff", "check"} /\ ~Usage(m)
  <2>1. Send(u, [op |-> "get", name |-> m.args[1]]) /\ at' = [at EXCEPT ![u] = "get"]
    BY <1>1, <1>8 DEF GetDevice, GoTo
  <2>2. m.args[1] \in Names /\ m.args # <<>>
    BY <1>8, Arrivals DEF Usage
  <2>3. StorageNext
    BY <1>3, <2>1, <2>2, BotRequests DEF StorageNext
  <2> QED
    BY <1>4, <2>1, <2>2, <2>3 DEF BotPoints
<1> QED
  BY <1>2, <1>5, <1>6, <1>7, <1>8

\* A round of /wakeup ends with the look-up of the next alias, or with the report.
LEMMA ConcludeStep ==
  ASSUME ArgumentsOK, NEW u \in Updates, NEW w, Looping(u), Conclude(u, w), UNCHANGED msg
  PROVE  (StorageNext \/ UNCHANGED storageVars) /\ ArgumentsOK'
<1>1. rest[u] \in Seq(Names) /\ rest[u] # <<>>
  BY DEF ArgumentsOK
<1>2. Tail(rest[u]) \in Seq(Names) /\ rest' = [rest EXCEPT ![u] = Tail(rest[u])]
  BY <1>1 DEF Conclude
<1>3. rest' \in [Updates -> Seq(Names)]
  BY <1>2 DEF ArgumentsOK
<1>4. ASSUME NEW l \in {"get", "reply"}, at' = [at EXCEPT ![u] = l],
             l = "get" => Tail(rest[u]) # <<>>
      PROVE  ArgumentsOK'
  <2>1. at' \in [Updates -> BotPoints]
    BY <1>4 DEF ArgumentsOK, BotPoints
  <2>2. ASSUME NEW v \in Updates
        PROVE  /\ at'[v] \in {"packet", "report"} => msg'[v].name = "wakeup"
               /\ Looping(v)' => rest'[v] # <<>>
    BY <1>2, <1>4 DEF ArgumentsOK, Looping
  <2> QED
    BY <1>3, <2>1, <2>2 DEF ArgumentsOK
<1>5. CASE Tail(rest[u]) = <<>>
  <2>1. UNCHANGED storageVars /\ at' = [at EXCEPT ![u] = "reply"]
    BY <1>5 DEF Conclude, Say
  <2> QED
    BY <1>4, <2>1
<1>6. CASE Tail(rest[u]) # <<>>
  <2> DEFINE a == Head(Tail(rest[u]))
  <2>1. Send(u, [op |-> "get", name |-> a]) /\ at' = [at EXCEPT ![u] = "get"]
    BY <1>6 DEF Conclude, GetDevice, GoTo
  <2>2. a \in Names
    BY <1>2, <1>6
  <2>3. StorageNext
    BY <2>1, <2>2, BotAssumption, BotRequests DEF StorageNext
  <2> QED
    BY <1>4, <1>6, <2>1, <2>3
<1> QED
  BY <1>5, <1>6

-----------------------------------------------------------------------------
(* The steps of the bot as steps of its storage client. *)

\* Any step of a handler that leaves the message and the loop alone.
LEMMA MoveStep ==
  ASSUME ArgumentsOK, NEW u \in Updates, NEW l \in BotPoints,
         at' = [at EXCEPT ![u] = l], UNCHANGED <<msg, rest>>,
         l \in {"packet", "report"} => msg[u].name = "wakeup",
         l \in {"get", "health", "packet", "report"} /\ msg[u].name = "wakeup" => Looping(u)
  PROVE  ArgumentsOK'
<1>1. at' \in [Updates -> BotPoints]
  BY DEF ArgumentsOK
<1>2. ASSUME NEW v \in Updates
      PROVE  /\ at'[v] \in {"packet", "report"} => msg'[v].name = "wakeup"
             /\ Looping(v)' => rest'[v] # <<>>
  BY <1>2 DEF ArgumentsOK, Looping
<1> QED
  BY <1>1, <1>2 DEF ArgumentsOK

LEMMA HandlerStep ==
  ASSUME ArgumentsOK, NEW u \in Updates, BotStep(u) \/ SendPacketFails(u) \/ TurnedOff(u)
  PROVE  (StorageNext \/ UNCHANGED storageVars) /\ ArgumentsOK'
<1> USE DEF Looping
<1>1. CASE AliasesListed(u) \/ Added(u) \/ NotFound(u) \/ TurnOffDev(u) \/ TurnedOff(u) \/ Checked(u)
  <2>1. /\ at' = [at EXCEPT ![u] = "reply"] \/ at' = [at EXCEPT ![u] = "posting"]
        /\ UNCHANGED <<storageVars, msg, rest>>
    BY <1>1 DEF AliasesListed, Added, NotFound, TurnOffDev, TurnedOff, Checked, Say, GoTo
  <2> QED
    BY <2>1, MoveStep DEF BotPoints
<1>2. CASE CheckHealt(u)
  <2>1. /\ at' = [at EXCEPT ![u] = "health"] /\ at[u] = "get"
        /\ UNCHANGED <<storageVars, msg, rest>>
    BY <1>2 DEF CheckHealt, Got, GoTo
  <2> QED
    BY <2>1, MoveStep DEF BotPoints
<1>3. CASE WakeChecked(u) \/ SendPacket(u)
  <2>1. /\ \E l \in {"packet", "report"} : at' = [at EXCEPT ![u] = l]
        /\ at[u] \in {"health", "packet"} /\ msg[u].name = "wakeup"
        /\ UNCHANGED <<storageVars, msg, rest>>
    BY <1>3 DEF WakeChecked, SendPacket, GoTo, ArgumentsOK
  <2> QED
    BY <2>1, MoveStep DEF BotPoints
<1>4. CASE WakeNone(u) \/ SendPacketFails(u) \/ WakePinged(u)
  <2>1. Looping(u) /\ UNCHANGED msg
    BY <1>4 DEF WakeNone, SendPacketFails, WakePinged, Got, ArgumentsOK
  <2>2. PICK w : Conclude(u, w)
    BY <1>4 DEF WakeNone, SendPacketFails, WakePinged
  <2> QED
    BY <2>1, <2>2, ConcludeStep
<1>5. CASE SendAnswer(u)
  <2>1. StorageNext
    BY <1>5, BotAssumption DEF SendAnswer, StorageNext
  <2>2. /\ at' = [at EXCEPT ![u] = "idle"] /\ msg' = [msg EXCEPT ![u] = Nil] /\ rest' = rest
    BY <1>5 DEF SendAnswer
  <2>3. at' \in [Updates -> BotPoints] /\ msg' \in [Updates -> Commands \cup {Nil}]
    BY <2>2 DEF ArgumentsOK, BotPoints
  <2>4. ASSUME NEW v \in Updates
        PROVE  /\ at'[v] \in {"packet", "report"} => msg'[v].name = "wakeup"
               /\ Looping(v)' => rest'[v] # <<>>
    BY <2>2 DEF ArgumentsOK
  <2> QED
    BY <2>1, <2>2, <2>3, <2>4 DEF ArgumentsOK
<1> QED
  BY <1>1, <1>2, <1>3, <1>4, <1>5 DEF BotStep

\* Where no handler runs, whether nothing has happened yet or the process died.
LEMMA AllIdle ==
  ASSUME at = [u \in Updates |-> "idle"], msg = [u \in Updates |-> Nil],
         rest = [u \in Updates |-> <<>>]
  PROVE  ArgumentsOK
<1>1. at \in [Updates -> BotPoints] /\ msg \in [Updates -> Commands \cup {Nil}]
  BY DEF BotPoints
<1>2. <<>> \in Seq(Names)
  OBVIOUS
<1>3. rest \in [Updates -> Seq(Names)]
  BY <1>2
<1>4. \A u \in Updates : at[u] \notin {"get", "health", "packet", "report"}
  OBVIOUS
<1> QED
  BY <1>1, <1>3, <1>4 DEF ArgumentsOK, Looping

LEMMA IdleOK ==
  ASSUME at' = [u \in Updates |-> "idle"], msg' = [u \in Updates |-> Nil],
         rest' = [u \in Updates |-> <<>>]
  PROVE  ArgumentsOK'
<1>1. at' \in [Updates -> BotPoints] /\ msg' \in [Updates -> Commands \cup {Nil}]
  BY DEF BotPoints
<1>2. <<>> \in Seq(Names)
  OBVIOUS
<1>3. rest' \in [Updates -> Seq(Names)]
  BY <1>2
<1>4. \A u \in Updates : at'[u] \notin {"get", "health", "packet", "report"}
  OBVIOUS
<1> QED
  BY <1>1, <1>3, <1>4 DEF ArgumentsOK, Looping

LEMMA BotStorageStep ==
  ASSUME ArgumentsOK, [Next]_botVars
  PROVE  [StorageNext]_storageVars /\ ArgumentsOK'
<1>1. ASSUME NEW u \in Updates,
             HandleUpdate(u) \/ BotStep(u) \/ SendPacketFails(u) \/ TurnedOff(u)
      PROVE  [StorageNext]_storageVars /\ ArgumentsOK'
  BY <1>1, HandleUpdateStep, HandlerStep
<1>2. ASSUME UNCHANGED handlers
      PROVE  ArgumentsOK'
  BY <1>2 DEF handlers, ArgumentsOK, Looping
<1>3. ASSUME NEW c \in Clients, Serve(c)
      PROVE  StorageNext
  BY <1>3 DEF Serve, StorageNext
<1>4. CASE Deliver
  BY <1>2, <1>4 DEF Deliver, StorageNext
<1>5. CASE PingGoesOn
  BY <1>2, <1>5 DEF PingGoesOn
<1>6. CASE WebServer
  <2>1. ASSUME NEW c \in Clients, NEW q \in WebRequests, Send(c, q)
        PROVE  StorageNext
    BY <2>1, BotAssumption DEF StorageNext
  <2>2. ASSUME NEW p \in Passwords, InsertPassword(p)
        PROVE  StorageNext
    BY <2>2 DEF StorageNext, Phrases
  <2> QED
    BY <1>2, <1>6, <2>1, <2>2 DEF WebServer, StorageNext
<1>7. CASE Restart
  <2>1. ArgumentsOK'
    BY <1>7, IdleOK DEF Restart
  <2> QED
    BY <1>7, <2>1 DEF Restart, StorageNext
<1>8. CASE UNCHANGED botVars
  BY <1>2, <1>8 DEF botVars, storageVars
<1>9. ASSUME NEW c \in Clients, StoragePanics(c)
      PROVE  StorageNext
  BY <1>9 DEF StoragePanics, StorageNext
<1> QED
  BY <1>1, <1>2, <1>3, <1>4, <1>5, <1>6, <1>7, <1>8, <1>9 DEF Next, Steps, Serve, StoragePanics

LEMMA ArgumentsInvariant == BotSpec => []ArgumentsOK
<1>1. BotInit => ArgumentsOK
  BY AllIdle DEF BotInit
<1>2. ArgumentsOK /\ [Next]_botVars => ArgumentsOK'
  BY BotStorageStep
<1> QED
  BY <1>1, <1>2, PTL DEF BotSpec, Next

(***************************************************************************)
(* The handlers of the bot use the channels of the storage goroutine as    *)
(* Storage allows, whatever the messages say, so by StorageImplements the  *)
(* storage keeps what DeviceStore promises with the bot as a client.       *)
(***************************************************************************)
THEOREM BotUsesStorageHolds == BotSpec => BotUsesStorage
<1>1. BotInit => StorageInit
  BY DEF BotInit
<1>2. ArgumentsOK /\ [Next]_botVars => [StorageNext]_storageVars
  BY BotStorageStep
<1> QED
  BY <1>1, <1>2, ArgumentsInvariant, PTL DEF BotSpec, Next, BotUsesStorage, StorageSpec

\* So with the bot's commands as its clients the storage (handleDevices over
\* the bbolt file) does what DeviceStore promises.
THEOREM BotImplements == BotSpec => ImplementsDeviceStore
  BY BotUsesStorageHolds, StorageImplements, PTL DEF BotUsesStorage

-----------------------------------------------------------------------------
(***************************************************************************)
(* The pings of the handlers.  An outcome belongs to a ping, a yes about a *)
(* host that should be alive has been heard, and a handler that waits at   *)
(* CheckHealt waits for a ping that asks whether the host is alive.        *)
(***************************************************************************)
PingsOK ==
  /\ ping = [u \in Updates |-> ping[u]]
  /\ heard = [u \in Updates |-> heard[u]]
  /\ outcome = [u \in Updates |-> outcome[u]]
  /\ text = [u \in Updates |-> text[u]]
  /\ \A u \in Updates :
       /\ ping[u] = Nil => outcome[u] = "none"
       /\ outcome[u] = "yes" /\ ping[u].kind # "off" => heard[u] # {}
       /\ at[u] = "health" => ping[u].kind = "health"

\* The step gives no handler the answer "awake" that has heard nothing.
AwakeHeard ==
  \A u \in Updates : text[u] # "awake" /\ text'[u] = "awake" => heard[u] # {}

\* A step that leaves the pings alone and does not move to CheckHealt.
LEMMA QuietStep ==
  ASSUME PingsOK, ArgumentsOK, NEW u \in Updates, UNCHANGED pings,
         NEW l \in BotPoints \ {"health"}, at' = [at EXCEPT ![u] = l],
         NEW t \in Texts \ {"awake"},
         text' = [text EXCEPT ![u] = t] \/ text' = text
  PROVE  PingsOK' /\ AwakeHeard
  BY DEF PingsOK, ArgumentsOK, AwakeHeard, pings

\* A step that begins a ping, at CheckHealt only to ask about health.
LEMMA BeginStep ==
  ASSUME PingsOK, ArgumentsOK, NEW u \in Updates, NEW k, NEW h, P!Begin(u, k, h),
         NEW l \in BotPoints, at' = [at EXCEPT ![u] = l],
         l = "health" => k = "health", UNCHANGED text
  PROVE  PingsOK' /\ AwakeHeard
<1>1. ping' = [ping EXCEPT ![u] = [kind |-> k, host |-> h]] /\ ping[u] = Nil
      /\ UNCHANGED <<heard, outcome>>
  BY DEF P!Begin
<1>2. ping' = [v \in Updates |-> ping'[v]] /\ ping'[u].kind = k
  BY <1>1 DEF PingsOK
<1>3. ASSUME NEW v \in Updates
      PROVE  /\ ping'[v] = Nil => outcome'[v] = "none"
             /\ outcome'[v] = "yes" /\ ping'[v].kind # "off" => heard'[v] # {}
             /\ at'[v] = "health" => ping'[v].kind = "health"
  BY <1>1, <1>2 DEF PingsOK, ArgumentsOK
<1> QED
  BY <1>1, <1>2, <1>3 DEF PingsOK, AwakeHeard

\* A step that uses the outcome of a ping.
LEMMA DropStep ==
  ASSUME PingsOK, ArgumentsOK, NEW u \in Updates, P!Drop(u),
         NEW l \in BotPoints \ {"health"}, at' = [at EXCEPT ![u] = l],
         NEW t \in Texts, text' = [text EXCEPT ![u] = t] \/ text' = text,
         t = "awake" => heard[u] # {}
  PROVE  PingsOK' /\ AwakeHeard
  BY DEF P!Drop, PingsOK, ArgumentsOK, AwakeHeard

LEMMA PingsStep ==
  ASSUME PingsOK, ArgumentsOK, [Next]_botVars
  PROVE  PingsOK' /\ AwakeHeard
<1>1. ASSUME NEW u \in Updates, HandleUpdate(u)
      PROVE  PingsOK' /\ AwakeHeard
  <2>1. PICK m \in Commands :
          /\ UNCHANGED pings
          /\ CASE m.name = "text" -> Say(u, IF m.from = "other" THEN "denied" ELSE "empty")
                                       /\ UNCHANGED storageVars
               [] m.name = "help" -> Say(u, "info") /\ UNCHANGED storageVars
               [] m.name = "list" -> Send(u, [op |-> "aliases"]) /\ GoTo(u, "list")
               [] Usage(m) -> Say(u, "usage") /\ UNCHANGED storageVars
               [] m.name = "add" /\ ~Usage(m) ->
                    /\ Send(u, [op |-> "add", name |-> m.args[1], dev |-> m.dev])
                    /\ GoTo(u, "add")
               [] m.name \in {"wakeup", "turnoff", "check"} /\ ~Usage(m) ->
                    GetDevice(u, m.args[1])
    BY <1>1 DEF HandleUpdate
  <2>2. m.name \in {"text", "help", "list", "add", "wakeup", "turnoff", "check"}
    BY BotAssumption DEF Command
  <2>3. \/ \E t \in {"denied", "empty", "info", "usage"} : Say(u, t)
        \/ \E l \in {"list", "add", "get"} : GoTo(u, l)
    BY <2>1, <2>2 DEF GetDevice
  <2>4. UNCHANGED pings
    BY <2>1
  <2>5. CASE \E t \in {"denied", "empty", "info", "usage"} : Say(u, t)
    BY <2>4, <2>5, QuietStep DEF Say, BotPoints, Texts
  <2>6. CASE \E l \in {"list", "add", "get"} : GoTo(u, l)
    <3>1. "empty" \in Texts \ {"awake"}
      BY DEF Texts
    <3> QED
      BY <2>4, <2>6, <3>1, QuietStep DEF GoTo, BotPoints
  <2> QED
    BY <2>3, <2>5, <2>6
<1>2. ASSUME NEW u \in Updates,
             \/ AliasesListed(u) \/ Added(u) \/ NotFound(u) \/ TurnOffDev(u) \/ TurnedOff(u)
             \/ WakeNone(u) \/ SendPacketFails(u) \/ SendAnswer(u)
      PROVE  PingsOK' /\ AwakeHeard
  <2>1. UNCHANGED pings
    BY <1>2 DEF AliasesListed, Added, NotFound, TurnOffDev, TurnedOff, WakeNone,
                SendPacketFails, SendAnswer
  <2>2. \E l \in {"get", "posting", "reply", "idle"} : at' = [at EXCEPT ![u] = l]
    BY <1>2 DEF AliasesListed, Added, NotFound, TurnOffDev, TurnedOff, WakeNone,
                SendPacketFails, SendAnswer, Conclude, GetDevice, GoTo, Say
  <2>3. \/ text' = text
        \/ \E t \in Texts \ {"awake"} : text' = [text EXCEPT ![u] = t]
    BY <1>2 DEF AliasesListed, Added, NotFound, TurnOffDev, TurnedOff, WakeNone,
                SendPacketFails, SendAnswer, Conclude, GetDevice, GoTo, Say, Texts
  <2>4. "empty" \in Texts \ {"awake"}
    BY DEF Texts
  <2> QED
    BY <2>1, <2>2, <2>3, <2>4, QuietStep DEF BotPoints
<1>3. ASSUME NEW u \in Updates, CheckHealt(u) \/ SendPacket(u)
      PROVE  PingsOK' /\ AwakeHeard
  <2>1. CASE CheckHealt(u)
    BY <2>1, BeginStep DEF CheckHealt, GoTo, BotPoints
  <2>2. CASE SendPacket(u)
    BY <2>2, BeginStep DEF SendPacket, GoTo, BotPoints
  <2> QED
    BY <1>3, <2>1, <2>2
<1>4. ASSUME NEW u \in Updates, WakeChecked(u) \/ WakePinged(u)
      PROVE  PingsOK' /\ AwakeHeard
  <2>1. P!Drop(u)
    BY <1>4 DEF WakeChecked, WakePinged
  <2>2. \E l \in {"get", "packet", "reply"} : at' = [at EXCEPT ![u] = l]
    BY <1>4 DEF WakeChecked, WakePinged, Conclude, GetDevice, GoTo, Say
  <2>3. text' = text \/ text' = [text EXCEPT ![u] = "report"]
    BY <1>4 DEF WakeChecked, WakePinged, Conclude, GetDevice, GoTo, Say
  <2> QED
    BY <2>1, <2>2, <2>3, DropStep DEF BotPoints, Texts
<1>5. ASSUME NEW u \in Updates, Checked(u)
      PROVE  PingsOK' /\ AwakeHeard
  <2> DEFINE t == IF outcome[u] = "yes" THEN "awake" ELSE "asleep"
  <2>1. P!Drop(u) /\ at' = [at EXCEPT ![u] = "reply"] /\ text' = [text EXCEPT ![u] = t]
    BY <1>5 DEF Checked, Say
  <2>2. t = "awake" => heard[u] # {}
    BY <1>5 DEF Checked, PingsOK
  <2>3. t \in Texts
    BY DEF Texts
  <2> QED
    BY <2>1, <2>2, <2>3, DropStep DEF BotPoints
<1>6. CASE PingGoesOn
  <2>1. UNCHANGED <<at, text>>
    BY <1>6 DEF PingGoesOn, handlers
  <2>2. ASSUME NEW u \in Updates, NEW o, P!End(u, o)
        PROVE  PingsOK' /\ AwakeHeard
    BY <2>1, <2>2 DEF P!End, P!Pinging, PingsOK, AwakeHeard
  <2>3. ASSUME NEW h, P!Hear(h)
        PROVE  PingsOK' /\ AwakeHeard
    BY <2>1, <2>3 DEF P!Hear, P!Pinging, PingsOK, AwakeHeard
  <2> QED
    BY <1>6, <2>2, <2>3 DEF PingGoesOn
<1>7. CASE (\E c \in Clients : Serve(c) \/ StoragePanics(c)) \/ Deliver \/ WebServer \/ UNCHANGED botVars
  <2>1. UNCHANGED <<at, text, ping, heard, outcome>>
    BY <1>7 DEF Serve, StoragePanics, Deliver, WebServer, botVars, handlers, pings
  <2> QED
    BY <2>1 DEF PingsOK, AwakeHeard
<1>8. CASE Restart
  <2>1. /\ at' = [u \in Updates |-> "idle"] /\ text' = [u \in Updates |-> "empty"]
        /\ P!Lose
    BY <1>8 DEF Restart
  <2> QED
    BY <2>1 DEF P!Lose, PingsOK, AwakeHeard
<1> QED
  BY <1>1, <1>2, <1>3, <1>4, <1>5, <1>6, <1>7, <1>8 DEF Next, Steps, BotStep

(***************************************************************************)
(* However the pings of the chats and the answers of the hosts interleave, *)
(* /check says that a device is awake only if some host answered while its *)
(* ping was in progress.                                                   *)
(***************************************************************************)
THEOREM AwakeWasHeardHolds == BotSpec => AwakeWasHeard
<1>1. BotInit => PingsOK
  BY DEF BotInit, P!PingInit, PingsOK
<1>2. PingsOK /\ ArgumentsOK /\ [Next]_botVars => PingsOK' /\ [AwakeHeard]_botVars
  BY PingsStep
<1> QED
  BY <1>1, <1>2, ArgumentsInvariant, PTL DEF BotSpec, Next, AwakeWasHeard, AwakeHeard

-----------------------------------------------------------------------------
(***************************************************************************)
(* The answers.  What a handler will say rests on what it has asked, on    *)
(* the result that the storage goroutine is still sending or has sent, and *)
(* on what was true since its message came: the pairs it can have seen     *)
(* only grow while it runs.                                                *)
(***************************************************************************)

\* The alias that the handler of u is working on.
Target(u) == IF msg[u].name = "wakeup" THEN Head(rest[u]) ELSE msg[u].args[1]

\* The storage goroutine has run the transaction of the request of u.
Taken(u) == call[u].at # "sending"

Lists(u, S) == \A a \in Aliases : IF a \in S THEN Registration(u, a) ELSE Absence(u, a)

\* What it has asked.
Asks(u) ==
  /\ at[u] = "list" => msg[u].name = "list" /\ call[u].q.op = "aliases"
  /\ at[u] = "add" => msg[u].name = "add" /\ call[u].q.op = "add"
  /\ at[u] = "get" => /\ msg[u].name \in {"wakeup", "turnoff", "check"}
                      /\ Target(u) \in Names
                      /\ call[u].q = [op |-> "get", name |-> Target(u)]
  /\ at[u] \notin {"list", "add", "get"} => call[u].at = "idle"

\* What it knows from the result.
Knows(u) ==
  /\ at[u] = "list" /\ Taken(u) => Lists(u, ResultFor(u).names)
  /\ at[u] = "add" => (acted[u] <=> Taken(u) /\ ResultFor(u).ok)
  /\ at[u] = "get" /\ Taken(u) =>
       IF ResultFor(u).ok THEN ResultFor(u).dev \in Devices /\ Registration(u, Target(u))
                          ELSE Absence(u, Target(u))
  /\ at[u] \in {"health", "packet", "report", "posting"} =>
       call[u].got.dev \in Devices /\ Registration(u, Target(u))

\* Where it is with its message.
Sits(u) ==
  /\ at[u] = "idle" => ~acted[u] /\ status[u] = NoStatus
  /\ at[u] # "idle" => msg[u] \in Commands
  /\ at[u] = "health" => msg[u].name \in {"wakeup", "check"}
  /\ at[u] = "posting" => msg[u].name = "turnoff"
  /\ text[u] # "empty" => at[u] = "reply"

\* What it says when it is done.
Says(u) ==
  /\ text[u] = "list" => Lists(u, call[u].got.names)
  /\ at[u] = "reply" /\ msg[u].name = "add" => (acted[u] <=> text[u] = "added")
  /\ text[u] = "notfound" => Absence(u, msg[u].args[1])
  /\ text[u] \in {"awake", "asleep"} => Registration(u, msg[u].args[1])
  /\ text[u] = "report" => msg[u].name = "wakeup" /\ rest[u] = <<>>

\* How far deviceWake is: an alias without a word is still to be looked up.
Wakes(u) ==
  at[u] # "idle" /\ msg[u].name = "wakeup" =>
    /\ \A i \in DOMAIN rest[u] : rest[u][i] \in Arguments(u)
    /\ \A a \in Names :
         /\ status[u][a] = "unset" => a \notin Arguments(u) \/ \E i \in DOMAIN rest[u] : rest[u][i] = a
         /\ status[u][a] # "unset" => a \in Arguments(u)
         /\ status[u][a] = "none" => Absence(u, a)
         /\ status[u][a] \notin {"unset", "none"} => Registration(u, a)

Handler(u) == Asks(u) /\ Knows(u) /\ Sits(u) /\ Says(u) /\ Wakes(u)

RecordsOK ==
  /\ P!PingTypeOK
  /\ status \in [Updates -> [Names -> Words]]
  /\ alive \in [Updates -> BOOLEAN]
  /\ text \in [Updates -> Texts]
  /\ was \in [Updates -> SUBSET (Aliases \X MaybeDevice)]
  /\ acted \in [Updates -> BOOLEAN]

\* What the storage goroutine has in its messages for u, whoever looks at it.
Stands(u) ==
  /\ call'[u].q = call[u].q
  /\ Taken(u)' = Taken(u)
  /\ ResultFor(u)' = ResultFor(u)
  /\ call[u].at = "idle" => call'[u] = call[u]

LEMMA Seen ==
  ASSUME Track, NEW u \in Updates, at'[u] # "idle"
  PROVE  was[u] \subseteq was'[u] /\ \A a \in Aliases : <<a, devices'[a]>> \in was'[u]
<1>1. was'[u] = was[u] \cup { <<a, devices'[a]>> : a \in Aliases }
  BY DEF Track
<1> QED
  BY <1>1

LEMMA Acts ==
  ASSUME RecordsOK, Track, NEW u \in Updates, at'[u] \notin {"idle", "report", "posting"},
         call[u].at # "sending" \/ call'[u].at # "waiting"
  PROVE  acted'[u] = acted[u]
<1>1. ~Commits(u)
  BY DEF Commits
<1>2. acted'[u] = (at'[u] # "idle" /\ (acted[u] \/ Commits(u) \/ at'[u] \in {"report", "posting"}))
  BY DEF Track
<1> QED
  BY <1>1, <1>2 DEF RecordsOK

\* A handler that does not move keeps all it has, whatever the others do.
LEMMA Untouched ==
  ASSUME RecordsOK, Track, NEW u \in Updates, Handler(u), Stands(u),
         at'[u] = at[u], msg'[u] = msg[u], rest'[u] = rest[u], status'[u] = status[u],
         text'[u] = text[u]
  PROVE  Handler(u)'
<1>1. Target(u)' = Target(u) /\ Arguments(u)' = Arguments(u)
  BY DEF Target, Arguments
<1>2. CASE at[u] = "idle"
  <2>1. ~acted'[u]
    BY <1>2 DEF Track
  <2> QED
    BY <1>2, <2>1 DEF Handler, Asks, Knows, Sits, Says, Wakes, Stands
<1>3. CASE at[u] # "idle"
  <2> USE DEF Handler
  <2>1. was[u] \subseteq was'[u]
    BY <1>3, Seen
  <2>2. at[u] \in {"add", "reply"} => acted'[u] = acted[u]
    BY Acts DEF Stands, Taken
  <2>3. Asks(u)'
    BY <1>1 DEF Asks, Stands
  <2>4. Sits(u)'
    BY <1>3 DEF Sits
  <2>5. Wakes(u)'
    BY <1>1, <1>3, <2>1 DEF Wakes, Registration, Absence
  <2>6. Knows(u)'
    <3>1. (at[u] = "list" /\ Taken(u) => Lists(u, ResultFor(u).names))'
      BY <2>1 DEF Knows, Stands, Lists, Registration, Absence
    <3>2. (at[u] = "add" => (acted[u] <=> Taken(u) /\ ResultFor(u).ok))'
      BY <2>2 DEF Knows, Stands
    <3>3. (at[u] = "get" /\ Taken(u) =>
             IF ResultFor(u).ok THEN ResultFor(u).dev \in Devices /\ Registration(u, Target(u))
                                ELSE Absence(u, Target(u)))'
      BY <1>1, <2>1 DEF Knows, Stands, Registration, Absence
    <3>4. (at[u] \in {"health", "packet", "report", "posting"} =>
             call[u].got.dev \in Devices /\ Registration(u, Target(u)))'
      BY <1>1, <2>1 DEF Knows, Asks, Stands, Registration
    <3> QED
      BY <3>1, <3>2, <3>3, <3>4 DEF Knows
  <2>7. Says(u)'
    <3>1. (text[u] = "list" => Lists(u, call[u].got.names))'
      BY <2>1 DEF Says, Sits, Asks, Stands, Lists, Registration, Absence
    <3>2. (at[u] = "reply" /\ msg[u].name = "add" => (acted[u] <=> text[u] = "added"))'
      BY <2>2 DEF Says
    <3>3. /\ (text[u] = "notfound" => Absence(u, msg[u].args[1]))'
          /\ (text[u] \in {"awake", "asleep"} => Registration(u, msg[u].args[1]))'
          /\ (text[u] = "report" => msg[u].name = "wakeup" /\ rest[u] = <<>>)'
      BY <2>1 DEF Says, Registration, Absence
    <3> QED
      BY <3>1, <3>2, <3>3 DEF Says
  <2> QED
    BY <2>3, <2>4, <2>5, <2>6, <2>7
<1> QED
  BY <1>2, <1>3

\* A step that leaves the words of /wakeup and the rest of its loop alone.
LEMMA WakesStands ==
  ASSUME Track, NEW u \in Updates, Wakes(u), at[u] # "idle", at'[u] # "idle",
         msg'[u] = msg[u], rest'[u] = rest[u], status'[u] = status[u]
  PROVE  Wakes(u)'
<1>1. was[u] \subseteq was'[u] /\ Arguments(u)' = Arguments(u)
  BY Seen DEF Arguments
<1> QED
  BY <1>1 DEF Wakes, Registration, Absence

\* The handler has its answer.
LEMMA Replying ==
  ASSUME RecordsOK, ArgumentsOK, Track, NEW u \in Updates, Handler(u), at[u] # "idle",
         call[u].at = "idle", call'[u] = call[u], UNCHANGED msg, NEW t \in Texts, Say(u, t),
         Wakes(u)',
         t = "list" => Lists(u, call[u].got.names),
         msg[u].name = "add" => (acted[u] <=> t = "added"),
         t = "notfound" => Absence(u, msg[u].args[1]),
         t \in {"awake", "asleep"} => Registration(u, msg[u].args[1]),
         t = "report" => msg[u].name = "wakeup" /\ rest'[u] = <<>>
  PROVE  Handler(u)'
<1>1. at'[u] = "reply" /\ text'[u] = t /\ msg'[u] = msg[u]
  BY DEF Say, ArgumentsOK, RecordsOK
<1>2. was[u] \subseteq was'[u]
  BY <1>1, Seen
<1>3. acted'[u] = acted[u]
  BY <1>1, Acts
<1>4. Asks(u)' /\ Knows(u)' /\ Sits(u)'
  BY <1>1 DEF Handler, Sits, Asks, Knows
<1>5. (text[u] = "list" => Lists(u, call[u].got.names))'
  BY <1>1, <1>2 DEF Lists, Registration, Absence
<1>6. (at[u] = "reply" /\ msg[u].name = "add" => (acted[u] <=> text[u] = "added"))'
  BY <1>1, <1>3
<1>7. /\ (text[u] = "notfound" => Absence(u, msg[u].args[1]))'
      /\ (text[u] \in {"awake", "asleep"} => Registration(u, msg[u].args[1]))'
      /\ (text[u] = "report" => msg[u].name = "wakeup" /\ rest[u] = <<>>)'
  BY <1>1, <1>2 DEF Registration, Absence
<1> QED
  BY <1>4, <1>5, <1>6, <1>7 DEF Handler, Says

\* The handler goes on with the device it was given.
LEMMA Going ==
  ASSUME RecordsOK, ArgumentsOK, Track, NEW u \in Updates, Handler(u),
         at[u] \in {"get", "health", "packet"}, call[u].at = "idle", call'[u] = call[u],
         UNCHANGED <<msg, rest>>, NEW l \in {"health", "packet", "report", "posting"}, GoTo(u, l),
         l = "health" => msg[u].name \in {"wakeup", "check"},
         l = "posting" => msg[u].name = "turnoff",
         call[u].got.dev \in Devices, Registration(u, Target(u)), Wakes(u)'
  PROVE  Handler(u)'
<1>1. at'[u] = l /\ text'[u] = text[u] /\ msg'[u] = msg[u] /\ rest'[u] = rest[u]
  BY DEF GoTo, ArgumentsOK
<1>2. was[u] \subseteq was'[u] /\ Target(u)' = Target(u)
  BY <1>1, Seen DEF Target
<1>3. Asks(u)' /\ Sits(u)'
  BY <1>1 DEF Handler, Sits, Asks
<1>4. Knows(u)'
  BY <1>1, <1>2 DEF Knows, Registration
<1>5. text'[u] = "empty"
  BY <1>1 DEF Handler, Sits
<1>6. Says(u)'
  BY <1>1, <1>5 DEF Says
<1> QED
  BY <1>3, <1>4, <1>6 DEF Handler

\* A round of /wakeup ends with the word w.
LEMMA WordGiven ==
  ASSUME RecordsOK, ArgumentsOK, Track, NEW u \in Updates, Handler(u), Looping(u),
         msg'[u] = msg[u], at'[u] # "idle",
         NEW w \in Words \ {"unset"}, Conclude(u, w),
         w = "none" => Absence(u, Target(u)),
         w # "none" => Registration(u, Target(u))
  PROVE  Wakes(u)'
<1> DEFINE r == rest[u]
           a == Head(rest[u])
<1>1. /\ r \in Seq(Names) /\ r # <<>> /\ a = Target(u) /\ a = r[1]
      /\ msg[u].name = "wakeup" /\ at[u] # "idle"
  BY DEF ArgumentsOK, Looping, Target
<1>2. rest'[u] = Tail(r) /\ status'[u] = [status[u] EXCEPT ![a] = w]
  BY DEF Conclude, ArgumentsOK, RecordsOK
<1>3. /\ Tail(r) \in Seq(Names) /\ Len(Tail(r)) = Len(r) - 1 /\ Len(r) \in Nat
      /\ \A i \in 1 .. Len(r) - 1 : Tail(r)[i] = r[i + 1]
      /\ DOMAIN Tail(r) = 1 .. Len(r) - 1 /\ DOMAIN r = 1 .. Len(r)
  BY <1>1
<1>4. was[u] \subseteq was'[u] /\ Arguments(u)' = Arguments(u)
  BY Seen DEF Arguments
<1>5. Wakes(u)
  BY DEF Handler
<1>6. \A i \in DOMAIN Tail(r) : Tail(r)[i] \in Arguments(u)
  BY <1>1, <1>3, <1>5 DEF Wakes
<1>7. a \in Arguments(u) /\ a \in Names
  BY <1>1, <1>3, <1>5 DEF Wakes
<1>8. ASSUME NEW b \in Names, b # a
      PROVE  /\ status'[u][b] = status[u][b]
             /\ (\E i \in DOMAIN r : r[i] = b) => \E i \in DOMAIN Tail(r) : Tail(r)[i] = b
  <2>1. status'[u][b] = status[u][b]
    BY <1>2, <1>8 DEF RecordsOK
  <2>2. ASSUME NEW i \in DOMAIN r, r[i] = b
        PROVE  \E j \in DOMAIN Tail(r) : Tail(r)[j] = b
    <3>1. i - 1 \in DOMAIN Tail(r) /\ Tail(r)[i - 1] = b
      BY <1>1, <1>3, <1>8, <2>2
    <3> QED
      BY <3>1
  <2> QED
    BY <2>1, <2>2
<1>9. status'[u][a] = w
  BY <1>2, <1>7 DEF RecordsOK
<1>10. ASSUME NEW b \in Names
       PROVE  /\ status'[u][b] = "unset" =>
                   b \notin Arguments(u) \/ \E i \in DOMAIN Tail(r) : Tail(r)[i] = b
              /\ status'[u][b] # "unset" => b \in Arguments(u)
              /\ status'[u][b] = "none" => Absence(u, b)'
              /\ status'[u][b] \notin {"unset", "none"} => Registration(u, b)'
  <2>1. CASE b = a
    BY <1>1, <1>4, <1>7, <1>9, <2>1 DEF Registration, Absence
  <2>2. CASE b # a
    BY <1>1, <1>4, <1>5, <1>8, <2>2 DEF Wakes, Registration, Absence
  <2> QED
    BY <2>1, <2>2
<1> QED
  BY <1>2, <1>4, <1>6, <1>10 DEF Wakes

\* A request that nobody has served, and the result that is not u's.
LEMMA CallStands ==
  ASSUME NEW u \in Updates, call'[u] = call[u], out' = out \/ call[u].at # "waiting"
  PROVE  Stands(u)
<1>1. ResultFor(u)' = ResultFor(u)
  BY DEF ResultFor
<1>2. Taken(u)' = Taken(u)
  BY DEF Taken
<1> QED
  BY <1>1, <1>2 DEF Stands

LEMMA Concluded ==
  ASSUME StorageTypeOK, RecordsOK, ArgumentsOK, Track, NEW u \in Updates, Handler(u), Looping(u),
         call[u].at = "idle", UNCHANGED msg, NEW w \in Words \ {"unset"}, Conclude(u, w),
         w = "none" => Absence(u, Target(u)),
         w # "none" => Registration(u, Target(u))
  PROVE  Handler(u)'
<1>1. rest[u] \in Seq(Names) /\ rest[u] # <<>> /\ msg'[u] = msg[u] /\ u \in Clients
  BY BotAssumption DEF ArgumentsOK
<1>2. rest'[u] = Tail(rest[u]) /\ Tail(rest[u]) \in Seq(Names)
  BY <1>1 DEF Conclude, ArgumentsOK
<1>3. CASE Tail(rest[u]) = <<>>
  <2>1. Say(u, "report") /\ call'[u] = call[u]
    BY <1>3 DEF Conclude, storageVars
  <2>2. at'[u] # "idle"
    BY <2>1 DEF Say, ArgumentsOK
  <2>3. Wakes(u)'
    BY <1>1, <2>2, WordGiven
  <2>4. "report" \in Texts /\ msg[u].name = "wakeup" /\ at[u] # "idle"
    BY DEF Texts, Looping
  <2> QED
    BY <1>2, <1>3, <2>1, <2>3, <2>4, Replying
<1>4. CASE Tail(rest[u]) # <<>>
  <2> DEFINE a == Head(Tail(rest[u]))
  <2>1. Send(u, [op |-> "get", name |-> a]) /\ GoTo(u, "get") /\ a \in Names
    BY <1>2, <1>4 DEF Conclude, GetDevice
  <2>2. /\ call'[u] = [at |-> "sending", q |-> [op |-> "get", name |-> a], got |-> Failure]
        /\ at'[u] = "get" /\ text'[u] = text[u]
    BY <1>1, <2>1 DEF Send, GoTo, StorageTypeOK, ArgumentsOK
  <2>3. Wakes(u)'
    BY <1>1, <2>2, WordGiven
  <2>4. Target(u)' = a /\ msg'[u].name = "wakeup"
    BY <1>1, <1>2 DEF Target, Looping
  <2>5. Asks(u)'
    <3> HIDE DEF a
    <3>1. call'[u].q = [op |-> "get", name |-> a]
      BY <2>2
    <3>2. call'[u].q = [op |-> "get", name |-> Target(u)']
      BY <2>4, <3>1
    <3>3. Target(u)' \in Names
      BY <2>1, <2>4
    <3> QED
      BY <2>2, <2>4, <3>2, <3>3 DEF Asks
  <2>6. ~Taken(u)' /\ text'[u] = "empty" /\ msg'[u] \in Commands
    BY <1>1, <2>2 DEF Taken, Handler, Sits, Looping
  <2>7. Knows(u)'
    BY <2>2, <2>6 DEF Knows
  <2>8. Sits(u)'
    BY <2>2, <2>6 DEF Sits
  <2>9. Says(u)'
    BY <2>2, <2>6 DEF Says
  <2> QED
    BY <2>3, <2>5, <2>7, <2>8, <2>9 DEF Handler
<1> QED
  BY <1>3, <1>4

\* The message arrives: nothing is known yet, and nothing has been done.
LEMMA Arrived ==
  ASSUME StorageTypeOK, RecordsOK, ArgumentsOK, Track, NEW u \in Updates, Handler(u),
         HandleUpdate(u)
  PROVE  Handler(u)'
<1>1. PICK m \in Commands :
        /\ at[u] = "idle"
        /\ msg' = [msg EXCEPT ![u] = m]
        /\ rest' = [rest EXCEPT ![u] = IF m.name = "wakeup" THEN m.args ELSE <<>>]
        /\ CASE m.name = "text" -> Say(u, IF m.from = "other" THEN "denied" ELSE "empty")
                                     /\ UNCHANGED storageVars
             [] m.name = "help" -> Say(u, "info") /\ UNCHANGED storageVars
             [] m.name = "list" -> Send(u, [op |-> "aliases"]) /\ GoTo(u, "list")
             [] Usage(m) -> Say(u, "usage") /\ UNCHANGED storageVars
             [] m.name = "add" /\ ~Usage(m) ->
                  /\ Send(u, [op |-> "add", name |-> m.args[1], dev |-> m.dev])
                  /\ GoTo(u, "add")
             [] m.name \in {"wakeup", "turnoff", "check"} /\ ~Usage(m) ->
                  GetDevice(u, m.args[1])
        /\ UNCHANGED status
  BY DEF HandleUpdate
<1>2. m.name \in {"text", "help", "list", "add", "wakeup", "turnoff", "check"}
  BY BotAssumption DEF Command
<1>3. /\ u \in Clients /\ m.args \in Seq(Names)
      /\ m.args # <<>> => m.args[1] \in Names /\ m.args[1] = Head(m.args)
  BY BotAssumption, Arrivals
<1>4. /\ msg'[u] = m /\ status'[u] = NoStatus /\ text[u] = "empty" /\ ~acted[u]
      /\ rest'[u] = IF m.name = "wakeup" THEN m.args ELSE <<>>
      /\ call[u].at = "idle"
  BY <1>1 DEF ArgumentsOK, Handler, Asks, Sits
<1>5. Wakes(u)'
  <2>1. Arguments(u)' = {m.args[i] : i \in DOMAIN m.args}
    BY <1>4 DEF Arguments
  <2>2. \A a \in Names : status'[u][a] = "unset"
    BY <1>4 DEF NoStatus
  <2> QED
    BY <1>4, <2>1, <2>2 DEF Wakes
<1>6. ASSUME NEW t \in {"denied", "empty", "info", "usage"}, Say(u, t), call'[u] = call[u]
      PROVE  Handler(u)'
  <2>1. at'[u] = "reply" /\ text'[u] = t
    BY <1>6 DEF Say, ArgumentsOK, RecordsOK
  <2>2. ~acted'[u]
    BY <1>4, <1>6, <2>1, Acts
  <2>3. Asks(u)' /\ Knows(u)'
    BY <1>4, <1>6, <2>1 DEF Asks, Knows
  <2>4. Sits(u)' /\ Says(u)'
    BY <1>4, <1>6, <2>1, <2>2 DEF Sits, Says
  <2> QED
    BY <1>5, <2>3, <2>4 DEF Handler
<1>7. ASSUME NEW l \in {"list", "add", "get"}, NEW q, Send(u, q), GoTo(u, l),
             l = "list" => m.name = "list" /\ q.op = "aliases",
             l = "add" => m.name = "add" /\ q.op = "add",
             l = "get" => /\ m.name \in {"wakeup", "turnoff", "check"} /\ m.args # <<>>
                          /\ q = [op |-> "get", name |-> m.args[1]]
      PROVE  Handler(u)'
  <2>1. /\ at'[u] = l /\ text'[u] = "empty"
        /\ call'[u] = [at |-> "sending", q |-> q, got |-> Failure]
    BY <1>3, <1>4, <1>7 DEF Send, GoTo, StorageTypeOK, ArgumentsOK
  <2>2. ~acted'[u]
    BY <1>4, <2>1, Acts
  <2>3. l = "get" => Target(u)' = m.args[1]
    BY <1>3, <1>4, <1>7 DEF Target
  <2>4. Asks(u)'
    BY <1>3, <1>4, <1>7, <2>1, <2>3 DEF Asks
  <2>5. ~Taken(u)'
    BY <2>1 DEF Taken
  <2>6. Knows(u)'
    BY <2>1, <2>2, <2>5 DEF Knows
  <2>7. Sits(u)' /\ Says(u)'
    BY <1>4, <2>1 DEF Sits, Says
  <2> QED
    BY <1>5, <2>4, <2>6, <2>7 DEF Handler
<1>8. CASE m.name \in {"text", "help"} \/ Usage(m)
  <2>1. UNCHANGED storageVars
    BY <1>1, <1>2, <1>8 DEF Usage
  <2>2. \E t \in {"denied", "empty", "info", "usage"} : Say(u, t)
    BY <1>1, <1>2, <1>8 DEF Usage
  <2> QED
    BY <1>6, <2>1, <2>2 DEF storageVars
<1>9. CASE m.name = "list"
  <2>1. Send(u, [op |-> "aliases"]) /\ GoTo(u, "list")
    BY <1>1, <1>9 DEF Usage
  <2> QED
    BY <1>7, <1>9, <2>1
<1>10. CASE m.name = "add" /\ ~Usage(m)
  <2>1. /\ Send(u, [op |-> "add", name |-> m.args[1], dev |-> m.dev])
        /\ GoTo(u, "add")
    BY <1>1, <1>10
  <2> QED
    BY <1>7, <1>10, <2>1
<1>11. CASE m.name \in {"wakeup", "turnoff", "check"} /\ ~Usage(m)
  <2>1. Send(u, [op |-> "get", name |-> m.args[1]]) /\ GoTo(u, "get") /\ m.args # <<>>
    BY <1>1, <1>11 DEF GetDevice, Usage
  <2> QED
    BY <1>7, <1>11, <2>1
<1> QED
  BY <1>2, <1>8, <1>9, <1>10, <1>11

LEMMA HandlerMoves ==
  ASSUME StorageTypeOK, RecordsOK, ArgumentsOK, Track, NEW u \in Updates, Handler(u),
         BotStep(u) \/ SendPacketFails(u) \/ TurnedOff(u)
  PROVE  Handler(u)'
<1>1. /\ Asks(u) /\ Knows(u) /\ Sits(u) /\ Says(u) /\ Wakes(u)
      /\ u \in Clients
  BY BotAssumption DEF Handler
<1>2. ASSUME call[u].at = "idle"
      PROVE  Taken(u) /\ ResultFor(u) = call[u].got
  BY <1>2 DEF Taken, ResultFor
<1>3. ASSUME NEW t \in Texts \ {"report"}, Say(u, t), at[u] \notin {"idle", "reply"},
             call[u].at = "idle", UNCHANGED <<storageVars, msg, rest, status>>,
             t = "list" => Lists(u, call[u].got.names),
             msg[u].name = "add" => (acted[u] <=> t = "added"),
             t = "notfound" => Absence(u, msg[u].args[1]),
             t \in {"awake", "asleep"} => Registration(u, msg[u].args[1])
      PROVE  Handler(u)'
  <2>1. at'[u] # "idle" /\ call'[u] = call[u] /\ t \in Texts
    BY <1>3 DEF Say, ArgumentsOK, storageVars
  <2>2. Wakes(u)'
    BY <1>1, <1>3, <2>1, WakesStands
  <2> QED
    BY <1>3, <2>1, <2>2, Replying
<1>4. CASE AliasesListed(u)
  <2>1. at[u] = "list" /\ call[u].at = "idle" /\ Say(u, "list")
        /\ UNCHANGED <<storageVars, msg, rest, status>>
    BY <1>4 DEF AliasesListed, Got
  <2>2. Lists(u, call[u].got.names) /\ msg[u].name = "list"
    BY <1>1, <1>2, <2>1 DEF Knows, Asks
  <2> QED
    BY <1>3, <2>1, <2>2 DEF Texts
<1>5. CASE Added(u)
  <2> DEFINE t == IF call[u].got.ok THEN "added" ELSE "failed"
  <2>1. at[u] = "add" /\ call[u].at = "idle" /\ Say(u, t)
        /\ UNCHANGED <<storageVars, msg, rest, status>>
    BY <1>5 DEF Added, Got
  <2>2. acted[u] <=> t = "added"
    BY <1>1, <1>2, <2>1 DEF Knows
  <2>3. t \in {"added", "failed"}
    OBVIOUS
  <2> HIDE DEF t
  <2> QED
    BY <1>3, <2>1, <2>2, <2>3 DEF Texts
<1>6. CASE NotFound(u)
  <2>1. /\ at[u] = "get" /\ call[u].at = "idle" /\ Say(u, "notfound") /\ ~call[u].got.ok
        /\ UNCHANGED <<storageVars, msg, rest, status>> /\ msg[u].name \in {"turnoff", "check"}
    BY <1>6 DEF NotFound, Got
  <2>2. Absence(u, msg[u].args[1])
    BY <1>1, <1>2, <2>1 DEF Knows, Target
  <2> QED
    BY <1>3, <2>1, <2>2 DEF Texts
<1>7. CASE TurnedOff(u)
  <2>1. /\ at[u] = "posting" /\ UNCHANGED <<storageVars, msg, rest, status>>
        /\ \E t \in {"asleep", "failed"} : Say(u, t)
    BY <1>7 DEF TurnedOff
  <2>2. call[u].at = "idle" /\ msg[u].name = "turnoff" /\ Registration(u, msg[u].args[1])
    BY <1>1, <2>1 DEF Asks, Sits, Knows, Target
  <2> QED
    BY <1>3, <2>1, <2>2 DEF Texts
<1>8. CASE Checked(u)
  <2>1. /\ at[u] = "health" /\ UNCHANGED <<storageVars, msg, rest, status>>
        /\ msg[u].name = "check"
        /\ \E t \in {"awake", "asleep"} : Say(u, t)
    BY <1>8 DEF Checked
  <2>2. call[u].at = "idle" /\ Registration(u, msg[u].args[1])
    BY <1>1, <2>1 DEF Asks, Knows, Target
  <2> QED
    BY <1>3, <2>1, <2>2 DEF Texts
<1>9. ASSUME NEW l \in {"health", "packet", "report", "posting"}, GoTo(u, l),
             at[u] \in {"get", "health", "packet"}, call[u].at = "idle",
             UNCHANGED <<storageVars, msg, rest>>, UNCHANGED status \/ Wakes(u)',
             l = "health" => msg[u].name \in {"wakeup", "check"},
             l = "posting" => msg[u].name = "turnoff",
             at[u] = "get" => call[u].got.ok
      PROVE  Handler(u)'
  <2>1. at'[u] # "idle" /\ call'[u] = call[u]
    BY <1>9 DEF GoTo, ArgumentsOK, storageVars
  <2>2. Wakes(u)'
    BY <1>1, <1>9, <2>1, WakesStands
  <2>3. call[u].got.dev \in Devices /\ Registration(u, Target(u))
    BY <1>1, <1>2, <1>9 DEF Knows
  <2> QED
    BY <1>9, <2>1, <2>2, <2>3, Going
<1>10. CASE CheckHealt(u) \/ TurnOffDev(u)
  <2>1. /\ at[u] = "get" /\ call[u].at = "idle" /\ call[u].got.ok
        /\ UNCHANGED <<storageVars, msg, rest, status>>
        /\ \/ GoTo(u, "health") /\ msg[u].name \in {"wakeup", "check"}
           \/ GoTo(u, "posting") /\ msg[u].name = "turnoff"
    BY <1>10 DEF CheckHealt, TurnOffDev, Got
  <2> QED
    BY <1>9, <2>1
<1>11. CASE SendPacket(u)
  <2>1. at[u] = "packet" /\ GoTo(u, "report") /\ UNCHANGED <<storageVars, msg, rest, status>>
    BY <1>11 DEF SendPacket
  <2> QED
    BY <1>1, <1>9, <2>1 DEF Asks
<1>12. CASE WakeChecked(u)
  <2>1. /\ at[u] = "health" /\ GoTo(u, "packet") /\ UNCHANGED <<storageVars, msg, rest>>
        /\ msg[u].name = "wakeup"
        /\ status' = [status EXCEPT ![u][Head(rest[u])] = IF outcome[u] = "yes" THEN "awake" ELSE @]
    BY <1>12 DEF WakeChecked
  <2>2. /\ Registration(u, Head(rest[u])) /\ call[u].at = "idle"
        /\ rest[u] \in Seq(Names) /\ rest[u] # <<>>
    BY <1>1, <2>1 DEF Knows, Target, Asks, ArgumentsOK, Looping
  <2>3. Head(rest[u]) \in Names /\ Head(rest[u]) \in Arguments(u)
    <3>1. Head(rest[u]) = rest[u][1] /\ 1 \in DOMAIN rest[u]
      BY <2>2
    <3> QED
      BY <1>1, <2>1, <2>2, <3>1 DEF Wakes
  <2>4. /\ at'[u] # "idle" /\ msg'[u] = msg[u] /\ rest'[u] = rest[u]
        /\ was[u] \subseteq was'[u] /\ Arguments(u)' = Arguments(u)
    <3>1. at'[u] # "idle"
      BY <2>1 DEF GoTo, ArgumentsOK
    <3> QED
      BY <2>1, <3>1, Seen DEF Arguments
  <2>5. \A a \in Names :
          \/ status'[u][a] = status[u][a]
          \/ status'[u][a] = "awake" /\ a = Head(rest[u])
    BY <2>1, <2>3 DEF RecordsOK
  <2>6. Wakes(u)'
    BY <1>1, <2>1, <2>2, <2>3, <2>4, <2>5 DEF Wakes, Registration, Absence
  <2> QED
    BY <1>9, <2>1, <2>2, <2>6
<1>13. CASE WakeNone(u)
  <2>1. /\ at[u] = "get" /\ call[u].at = "idle" /\ msg[u].name = "wakeup" /\ ~call[u].got.ok
        /\ Conclude(u, "none") /\ UNCHANGED msg
    BY <1>13 DEF WakeNone, Got
  <2>2. Absence(u, Target(u)) /\ Looping(u)
    BY <1>1, <1>2, <2>1 DEF Knows, Looping
  <2> QED
    BY <2>1, <2>2, Concluded DEF Words
<1>14. CASE SendPacketFails(u) \/ WakePinged(u)
  <2>1. /\ at[u] \in {"packet", "report"} /\ UNCHANGED msg
        /\ \E w \in {"error", "alive", "sleeping"} : Conclude(u, w)
    BY <1>14 DEF SendPacketFails, WakePinged
  <2>2. call[u].at = "idle" /\ Registration(u, Target(u)) /\ Looping(u)
    BY <1>1, <2>1 DEF Asks, Knows, Looping, ArgumentsOK
  <2> QED
    BY <2>1, <2>2, Concluded DEF Words
<1>15. CASE SendAnswer(u)
  <2>1. /\ at'[u] = "idle" /\ text'[u] = "empty" /\ status'[u] = NoStatus
        /\ msg'[u] = Nil /\ call'[u] = NoCall
    BY <1>1, <1>15 DEF SendAnswer, Release, RecordsOK, ArgumentsOK, StorageTypeOK
  <2>2. ~acted'[u]
    BY <2>1 DEF Track
  <2> QED
    BY <2>1, <2>2 DEF Handler, Asks, Knows, Sits, Says, Wakes, NoCall
<1> QED
  BY <1>4, <1>5, <1>6, <1>7, <1>8, <1>10, <1>11, <1>12, <1>13, <1>14, <1>15 DEF BotStep

\* The storage goroutine runs the transaction that the handler of u waits for.
LEMMA Served ==
  ASSUME StorageTypeOK, StorageTypeOK', OneInService, RecordsOK, Track, NEW u \in Updates,
         Handler(u), Handle(u), UNCHANGED handlers
  PROVE  Handler(u)'
<1>1. /\ u \in Clients /\ call[u].at = "sending" /\ call[u].got = Failure
      /\ call' = [call EXCEPT ![u].at = "waiting"]
  BY BotAssumption, HandleAnswers DEF OneInService
<1>2. /\ call'[u].at = "waiting" /\ call'[u].q = call[u].q /\ call'[u].got = Failure
      /\ out' \in Reply
  BY <1>1 DEF StorageTypeOK, Call
<1>3. ~Taken(u) /\ Taken(u)' /\ ResultFor(u)' = out'
  <2>1. [out' EXCEPT !.names = @ \cup {}] = out'
    BY <1>2 DEF Reply
  <2>2. ResultFor(u)' = [out' EXCEPT !.names = @ \cup call'[u].got.names]
    BY <1>2 DEF ResultFor
  <2> QED
    BY <1>1, <1>2, <2>1, <2>2 DEF Taken, Failure
<1>4. /\ at' = at /\ msg' = msg /\ rest' = rest /\ status' = status /\ text' = text
      /\ Target(u)' = Target(u)
  BY DEF handlers, Target
<1>5. at[u] \in {"list", "add", "get"}
  BY <1>1 DEF Handler, Asks
<1>6. was[u] \subseteq was'[u] /\ \A a \in Aliases : <<a, devices'[a]>> \in was'[u]
  BY <1>4, <1>5, Seen
<1>7. Asks(u)' /\ Sits(u)' /\ Says(u)'
  <2>1. Asks(u)'
    BY <1>2, <1>4, <1>5 DEF Handler, Asks
  <2>2. Sits(u)'
    BY <1>4, <1>5 DEF Handler, Sits
  <2>3. text'[u] = "empty" /\ at'[u] # "reply"
    BY <1>4, <1>5 DEF Handler, Sits
  <2>4. Says(u)'
    BY <2>3 DEF Says
  <2> QED
    BY <2>1, <2>2, <2>4
<1>8. Wakes(u)'
  BY <1>4, <1>5, WakesStands DEF Handler
<1>9. CASE at[u] = "list"
  <2>1. HandleAliasRequest(u)
    BY <1>9 DEF Handler, Asks, Handle, Receives, HandleNewDevice, HandleGetDev, HandleDeviceDel,
                HandlePass, HandleUpdatePass
  <2>2. out'.names = Registered /\ devices' = devices
    BY <2>1 DEF HandleAliasRequest, Answers, Listed
  <2>3. Lists(u, ResultFor(u).names)'
    BY <1>3, <1>6, <2>2 DEF Lists, Registered, Registration, Absence, StorageTypeOK, MaybeDevice
  <2>4. Knows(u)'
    BY <1>4, <1>9, <2>3 DEF Knows
  <2> QED
    BY <1>7, <1>8, <2>4 DEF Handler
<1>10. CASE at[u] = "add"
  <2>1. call[u].q.op = "add" /\ ~acted[u]
    BY <1>3, <1>10 DEF Handler, Asks, Knows
  <2>2. acted'[u] = (at'[u] # "idle" /\ (acted[u] \/ Commits(u) \/ at'[u] \in {"report", "posting"}))
    BY DEF Track
  <2>3. Commits(u) <=> out'.ok
    BY <1>1, <1>2, <2>1 DEF Commits
  <2>4. acted'[u] <=> out'.ok
    BY <1>4, <1>10, <2>1, <2>2, <2>3
  <2>5. Knows(u)'
    BY <1>3, <1>4, <1>10, <2>4 DEF Knows
  <2> QED
    BY <1>7, <1>8, <2>5 DEF Handler
<1>11. CASE at[u] = "get"
  <2>1. call[u].q = [op |-> "get", name |-> Target(u)] /\ Target(u) \in Names
    BY <1>11 DEF Handler, Asks
  <2>2. HandleGetDev(u)
    BY <2>1 DEF Handle, Receives, HandleNewDevice, HandleAliasRequest, HandleDeviceDel,
                HandlePass, HandleUpdatePass
  <2>3. out' = Found(Stored(Target(u))) /\ devices' = devices
    BY <2>1, <2>2 DEF HandleGetDev, Answers
  <2>4. /\ out'.ok <=> Stored(Target(u)) # Nil
        /\ out'.dev = Stored(Target(u))
    BY <2>3 DEF Found
  <2>5. CASE out'.ok
    <3>1. Target(u) \in Aliases /\ devices[Target(u)] \in Devices /\ out'.dev = devices[Target(u)]
      BY <2>4, <2>5 DEF Stored, StorageTypeOK, MaybeDevice
    <3>2. \E d \in Devices : <<Target(u), d>> \in was'[u]
      BY <1>6, <2>3, <3>1
    <3>3. Registration(u, Target(u))'
      BY <1>4, <3>2 DEF Registration
    <3> QED
      BY <1>3, <1>4, <1>7, <1>8, <1>11, <2>5, <3>1, <3>3 DEF Handler, Knows
  <2>6. CASE ~out'.ok
    <3>1. Target(u) = Empty \/ <<Target(u), Nil>> \in was'[u]
      BY <1>6, <2>1, <2>3, <2>4, <2>6 DEF Stored, Names
    <3>2. Absence(u, Target(u))'
      BY <1>4, <3>1 DEF Absence
    <3> QED
      BY <1>3, <1>4, <1>7, <1>8, <1>11, <2>6, <3>2 DEF Handler, Knows
  <2> QED
    BY <2>5, <2>6
<1> QED
  BY <1>5, <1>9, <1>10, <1>11

\* What the storage goroutine sends is what the client has in the end.
LEMMA Delivered ==
  ASSUME StorageTypeOK, OneInService, NEW u \in Updates, SendAlias \/ SendReply
  PROVE  Stands(u)
<1>1. cur \in Clients /\ call[cur].at = "waiting" /\ call[cur] \in Call /\ out \in Reply
  BY DEF SendAlias, SendReply, OneInService, StorageTypeOK
<1>2. u \in Clients /\ (u # cur => call[u].at # "waiting")
  BY BotAssumption DEF OneInService
<1>3. CASE u # cur
  <2>1. call'[u] = call[u]
    BY <1>2, <1>3 DEF SendAlias, SendReply, StorageTypeOK
  <2> QED
    BY <1>2, <1>3, <2>1, CallStands
<1>4. CASE u = cur /\ SendAlias
  <2>1. PICK a \in out.names :
          /\ out' = [out EXCEPT !.names = @ \ {a}]
          /\ call' = [call EXCEPT ![cur].got.names = @ \cup {a}]
    BY <1>4 DEF SendAlias
  <2>2. call'[u] = [call[u] EXCEPT !.got = [call[u].got EXCEPT !.names = @ \cup {a}]]
    BY <1>1, <1>4, <2>1 DEF StorageTypeOK
  <2>3. /\ call'[u].at = "waiting" /\ call'[u].q = call[u].q
        /\ call'[u].got.names = call[u].got.names \cup {a}
    BY <1>1, <1>4, <2>2 DEF Call, Reply
  <2>4. ResultFor(u)' = ResultFor(u)
    <3>1. (out.names \ {a}) \cup (call[u].got.names \cup {a}) = out.names \cup call[u].got.names
      OBVIOUS
    <3> QED
      BY <1>1, <1>4, <2>1, <2>3, <3>1 DEF ResultFor, Reply
  <2>5. Taken(u) /\ Taken(u)'
    BY <1>1, <1>4, <2>3 DEF Taken
  <2> QED
    BY <1>1, <1>4, <2>3, <2>4, <2>5 DEF Stands
<1>5. CASE u = cur /\ SendReply
  <2> DEFINE got == [out EXCEPT !.names = call[u].got.names]
  <2>1. call'[u] = [call[u] EXCEPT !.at = "idle", !.got = got]
    BY <1>1, <1>5 DEF SendReply, StorageTypeOK
  <2>2. call'[u].at = "idle" /\ call'[u].q = call[u].q /\ call'[u].got = got
    BY <1>1, <1>5, <2>1 DEF Call
  <2>3. ResultFor(u) = got
    <3>1. out.names \cup call[u].got.names = call[u].got.names
      BY <1>5 DEF SendReply
    <3> QED
      BY <1>1, <1>5, <3>1 DEF ResultFor, Reply
  <2>4. ResultFor(u)' = got
    BY <2>2 DEF ResultFor
  <2>5. Taken(u) /\ Taken(u)'
    BY <1>1, <1>5, <2>2 DEF Taken
  <2> QED
    BY <1>1, <1>5, <2>2, <2>3, <2>4, <2>5 DEF Stands
<1> QED
  BY <1>3, <1>4, <1>5

\* A handler of the storage panics.  Its client may find the channel of a list
\* closed; without the buckets there is nothing to list.
LEMMA Panicked ==
  ASSUME StorageTypeOK, OneInService, EmptyWithoutBuckets, RecordsOK, Track, NEW u \in Updates,
         Handler(u), NEW c \in Clients, StoragePanics(c)
  PROVE  Handler(u)'
<1>1. /\ u \in Clients /\ call[c].at = "sending" /\ ~buckets /\ UNCHANGED <<devices, out>>
      /\ at' = at /\ msg' = msg /\ rest' = rest /\ status' = status /\ text' = text
      /\ call \in [Clients -> Call]
  BY BotAssumption DEF StoragePanics, NilBucket, disk, handlers, StorageTypeOK
<1>2. CASE call'[u] = call[u]
  BY <1>1, <1>2, CallStands, Untouched
<1>3. CASE call'[u] # call[u]
  <2>1. /\ u = c /\ call[u].q.op \notin {"add", "get"} /\ call'[u].at = "idle"
        /\ call'[u].q = call[u].q /\ call'[u].got = Success
    <3>1. /\ call' = [call EXCEPT ![c].at = "idle", ![c].got = Success]
          /\ call[c].q.op \notin {"add", "get"}
      BY <1>3 DEF StoragePanics, NilBucket
    <3> QED
      BY <1>1, <1>3, <3>1 DEF Call
  <2>2. at[u] = "list"
    BY <1>1, <2>1 DEF Handler, Asks
  <2>3. \A a \in Aliases : <<a, Nil>> \in was'[u]
    <3>1. \A a \in Aliases : devices'[a] = Nil
      BY <1>1 DEF EmptyWithoutBuckets, Registered
    <3> QED
      BY <1>1, <2>2, <3>1, Seen
  <2>4. Lists(u, ResultFor(u).names)'
    <3>1. ResultFor(u)'.names = {}
      BY <2>1 DEF ResultFor, Success
    <3> QED
      BY <2>3, <3>1 DEF Lists, Absence
  <2>5. Asks(u)' /\ Knows(u)'
    BY <1>1, <2>1, <2>2, <2>4 DEF Handler, Asks, Knows
  <2>6. text'[u] = "empty" /\ Sits(u)'
    BY <1>1, <2>2 DEF Handler, Sits
  <2>7. Says(u)' /\ Wakes(u)'
    BY <1>1, <2>2, <2>6, WakesStands DEF Handler, Says
  <2> QED
    BY <2>5, <2>6, <2>7 DEF Handler
<1> QED
  BY <1>2, <1>3

\* Each handler after a step of the program, whoever made it.
LEMMA HandlerNext ==
  ASSUME StorageTypeOK, StorageTypeOK', OneInService, EmptyWithoutBuckets, ArgumentsOK, RecordsOK,
         \A v \in Updates : Handler(v), Next, NEW u \in Updates
  PROVE  Handler(u)'
<1>1. Handler(u) /\ u \in Clients /\ Track /\ Steps
  BY BotAssumption DEF Next
<1>2. ASSUME Stands(u), at'[u] = at[u], msg'[u] = msg[u], rest'[u] = rest[u],
             status'[u] = status[u], text'[u] = text[u]
      PROVE  Handler(u)'
  BY <1>1, <1>2, Untouched
<1>3. ASSUME NEW v \in Updates,
             HandleUpdate(v) \/ BotStep(v) \/ SendPacketFails(v) \/ TurnedOff(v)
      PROVE  Handler(u)'
  <2>1. CASE v = u
    BY <1>1, <1>3, <2>1, Arrived, HandlerMoves
  <2>2. CASE v # u
    <3>1. /\ call'[u] = call[u] /\ out' = out /\ at'[u] = at[u] /\ msg'[u] = msg[u]
          /\ rest'[u] = rest[u] /\ status'[u] = status[u] /\ text'[u] = text[u]
      <4>1. CASE HandleUpdate(v)
        <5>1. PICK m \in Commands :
                /\ msg' = [msg EXCEPT ![v] = m]
                /\ rest' = [rest EXCEPT ![v] = IF m.name = "wakeup" THEN m.args ELSE <<>>]
                /\ CASE m.name = "text" -> Say(v, IF m.from = "other" THEN "denied" ELSE "empty")
                                             /\ UNCHANGED storageVars
                     [] m.name = "help" -> Say(v, "info") /\ UNCHANGED storageVars
                     [] m.name = "list" -> Send(v, [op |-> "aliases"]) /\ GoTo(v, "list")
                     [] Usage(m) -> Say(v, "usage") /\ UNCHANGED storageVars
                     [] m.name = "add" /\ ~Usage(m) ->
                          /\ Send(v, [op |-> "add", name |-> m.args[1], dev |-> m.dev])
                          /\ GoTo(v, "add")
                     [] m.name \in {"wakeup", "turnoff", "check"} /\ ~Usage(m) ->
                          GetDevice(v, m.args[1])
                /\ UNCHANGED status
          BY <4>1 DEF HandleUpdate
        <5>2. m.name \in {"text", "help", "list", "add", "wakeup", "turnoff", "check"}
          BY BotAssumption DEF Command
        <5>3. \/ UNCHANGED storageVars /\ \E t : Say(v, t)
              \/ (\E q : Send(v, q)) /\ \E l : GoTo(v, l)
          BY <5>1, <5>2 DEF GetDevice
        <5>4. /\ call'[u] = call[u] /\ out' = out
              /\ at'[u] = at[u] /\ text'[u] = text[u]
          BY <1>1, <2>2, <5>3
             DEF Say, GoTo, Send, storageVars, StorageTypeOK, ArgumentsOK, RecordsOK
        <5> QED
          BY <2>2, <5>1, <5>4 DEF ArgumentsOK
      <4>2. CASE AliasesListed(v) \/ Added(v) \/ NotFound(v) \/ TurnOffDev(v) \/ TurnedOff(v)
                 \/ Checked(v) \/ CheckHealt(v) \/ SendPacket(v)
        BY <2>2, <4>2 DEF AliasesListed, Added, NotFound, TurnOffDev, TurnedOff, Checked, CheckHealt,
                          SendPacket, Say, GoTo, storageVars, ArgumentsOK, RecordsOK
      <4>3. CASE WakeChecked(v)
        BY <2>2, <4>3 DEF WakeChecked, GoTo, storageVars, ArgumentsOK, RecordsOK
      <4>4. CASE WakeNone(v) \/ SendPacketFails(v) \/ WakePinged(v)
        <5>1. UNCHANGED msg /\ \E w : Conclude(v, w)
          BY <4>4 DEF WakeNone, SendPacketFails, WakePinged
        <5>2. rest'[u] = rest[u] /\ status'[u] = status[u]
          BY <2>2, <5>1 DEF Conclude, ArgumentsOK, RecordsOK
        <5>3. \/ UNCHANGED storageVars /\ \E t : Say(v, t)
              \/ (\E q : Send(v, q)) /\ \E l : GoTo(v, l)
          BY <5>1 DEF Conclude, GetDevice
        <5>4. /\ call'[u] = call[u] /\ out' = out
              /\ at'[u] = at[u] /\ text'[u] = text[u]
          BY <1>1, <2>2, <5>3
             DEF Say, GoTo, Send, storageVars, StorageTypeOK, ArgumentsOK, RecordsOK
        <5> QED
          BY <5>1, <5>2, <5>4
      <4>5. CASE SendAnswer(v)
        BY <1>1, <2>2, <4>5 DEF SendAnswer, Release, StorageTypeOK, ArgumentsOK, RecordsOK
      <4> QED
        BY <1>3, <4>1, <4>2, <4>3, <4>4, <4>5 DEF BotStep
    <3> QED
      BY <1>2, <3>1, CallStands
  <2> QED
    BY <2>1, <2>2
<1>4. ASSUME UNCHANGED handlers
      PROVE  /\ at'[u] = at[u] /\ msg'[u] = msg[u] /\ rest'[u] = rest[u]
             /\ status'[u] = status[u] /\ text'[u] = text[u]
  BY <1>4 DEF handlers
<1>5. ASSUME NEW c \in Clients, Serve(c)
      PROVE  Handler(u)'
  <2>1. CASE c = u
    BY <1>1, <1>5, <2>1, Served DEF Serve
  <2>2. CASE c # u
    <3>1. call'[u] = call[u] /\ call[u].at # "waiting"
      BY <1>1, <1>5, <2>2, HandleAnswers, MessagesAssumption
         DEF Serve, OneInService, StorageTypeOK
    <3> QED
      BY <1>2, <1>4, <1>5, <3>1, CallStands DEF Serve
  <2> QED
    BY <2>1, <2>2
<1>6. CASE Deliver
  BY <1>2, <1>4, <1>6, Delivered DEF Deliver
<1>7. CASE PingGoesOn
  <2>1. call'[u] = call[u] /\ out' = out
    BY <1>7 DEF PingGoesOn, storageVars
  <2> QED
    BY <1>2, <1>4, <1>7, <2>1, CallStands DEF PingGoesOn
<1>8. CASE WebServer
  <2>1. call'[u] = call[u] /\ out' = out
    <3>1. ASSUME NEW c \in Clients \ Updates, Release(c) \/ \E q \in WebRequests : Send(c, q)
          PROVE  call'[u] = call[u] /\ out' = out
      BY <1>1, <3>1 DEF Release, Send, StorageTypeOK
    <3> QED
      BY <1>8, <3>1 DEF WebServer, CreateBuckets, InsertPassword, StartHandling
  <2> QED
    BY <1>2, <1>4, <1>8, <2>1, CallStands DEF WebServer
<1>9. CASE Restart
  <2>1. /\ at'[u] = "idle" /\ text'[u] = "empty" /\ status'[u] = NoStatus
        /\ msg'[u] = Nil /\ call'[u] = NoCall
    BY <1>1, <1>9 DEF Restart, Die
  <2>2. ~acted'[u]
    BY <1>1, <2>1 DEF Track
  <2> QED
    BY <2>1, <2>2 DEF Handler, Asks, Knows, Sits, Says, Wakes, NoCall
<1> QED
  BY <1>1, <1>3, <1>5, <1>6, <1>7, <1>8, <1>9, Panicked DEF Steps

-----------------------------------------------------------------------------
(* The records, and the pings as the pinger's specification has them. *)

LEMMA PingType ==
  ASSUME P!PingTypeOK, [P!PingNext]_(P!pingVars)
  PROVE  P!PingTypeOK'
<1>1. ASSUME NEW c \in Updates, NEW k \in P!Kinds, NEW h \in Devices, P!Begin(c, k, h)
      PROVE  P!PingTypeOK'
  BY <1>1 DEF P!Begin, P!PingTypeOK
<1>2. ASSUME NEW h \in Devices, P!Hear(h)
      PROVE  P!PingTypeOK'
  BY <1>2 DEF P!Hear, P!PingTypeOK
<1>3. ASSUME NEW c \in Updates, NEW o \in P!Outcomes, P!End(c, o)
      PROVE  P!PingTypeOK'
  BY <1>3 DEF P!End, P!PingTypeOK
<1>4. ASSUME NEW c \in Updates, P!Drop(c)
      PROVE  P!PingTypeOK'
  BY <1>4 DEF P!Drop, P!PingTypeOK, P!Outcomes
<1>5. CASE P!Lose
  BY <1>5 DEF P!Lose, P!PingTypeOK, P!Outcomes
<1>6. CASE UNCHANGED P!pingVars
  BY <1>6 DEF P!pingVars, P!PingTypeOK
<1> QED
  BY <1>1, <1>2, <1>3, <1>4, <1>5, <1>6 DEF P!PingNext

\* A device is pinged because the storage goroutine has answered with it.
LEMMA PingStep ==
  ASSUME \A v \in Updates : Handler(v), [Next]_botVars
  PROVE  [P!PingNext]_(P!pingVars)
<1>1. ASSUME NEW u \in Updates, CheckHealt(u) \/ SendPacket(u)
      PROVE  P!PingNext
  <2>1. \E k \in P!Kinds : P!Begin(u, k, call[u].got.dev)
    BY <1>1 DEF CheckHealt, SendPacket, P!Kinds
  <2>2. call[u].got.dev \in Devices
    <3>1. CASE CheckHealt(u)
      <4>1. at[u] = "get" /\ call[u].at = "idle" /\ call[u].got.ok
        BY <3>1 DEF CheckHealt, Got
      <4>2. Taken(u) /\ ResultFor(u) = call[u].got
        BY <4>1 DEF Taken, ResultFor
      <4> QED
        BY <4>1, <4>2 DEF Handler, Knows
    <3>2. CASE SendPacket(u)
      BY <3>2 DEF SendPacket, Handler, Knows
    <3> QED
      BY <1>1, <3>1, <3>2
  <2> QED
    BY <2>1, <2>2 DEF P!PingNext
<1>2. ASSUME NEW u \in Updates, WakeChecked(u) \/ WakePinged(u) \/ Checked(u)
      PROVE  P!PingNext
  BY <1>2 DEF WakeChecked, WakePinged, Checked, P!PingNext
<1>3. ASSUME NEW u \in Updates,
             \/ HandleUpdate(u) \/ AliasesListed(u) \/ Added(u) \/ WakeNone(u) \/ NotFound(u)
             \/ TurnOffDev(u) \/ SendAnswer(u) \/ SendPacketFails(u) \/ TurnedOff(u)
      PROVE  UNCHANGED pings
  BY <1>3 DEF HandleUpdate, AliasesListed, Added, WakeNone, NotFound, TurnOffDev, SendAnswer,
              SendPacketFails, TurnedOff
<1>4. CASE PingGoesOn
  BY <1>4 DEF PingGoesOn, P!PingNext, P!Outcomes
<1>5. CASE Restart
  BY <1>5 DEF Restart, P!PingNext
<1>6. CASE (\E c \in Clients : Serve(c) \/ StoragePanics(c)) \/ Deliver \/ WebServer \/ UNCHANGED botVars
  <2>1. UNCHANGED <<ping, heard, outcome>>
    BY <1>6 DEF Serve, StoragePanics, Deliver, WebServer, botVars, pings
  <2> QED
    BY <2>1 DEF P!pingVars
<1>7. UNCHANGED pings => UNCHANGED P!pingVars
  BY DEF pings, P!pingVars
<1> QED
  BY <1>1, <1>2, <1>3, <1>4, <1>5, <1>6, <1>7 DEF Next, Steps, BotStep, pings, P!pingVars

LEMMA RecordsStep ==
  ASSUME StorageTypeOK', ArgumentsOK, RecordsOK, \A v \in Updates : Handler(v), Next
  PROVE  RecordsOK'
<1>1. P!PingTypeOK'
  BY PingStep, PingType DEF RecordsOK
<1>2. Track /\ Steps
  BY DEF Next
<1>3. was' \in [Updates -> SUBSET (Aliases \X MaybeDevice)]
  <2>1. \A a \in Aliases : devices'[a] \in MaybeDevice
    BY DEF StorageTypeOK
  <2> QED
    BY <1>2, <2>1 DEF Track, RecordsOK
<1>4. acted' \in [Updates -> BOOLEAN]
  BY <1>2 DEF Track, RecordsOK
<1>5. ASSUME NEW u \in Updates, NEW t \in Texts, text' = text \/ Say(u, t)
      PROVE  text' \in [Updates -> Texts]
  BY <1>5 DEF Say, RecordsOK
<1>6. ASSUME NEW u \in Updates, NEW a \in Names, NEW w \in Words,
             status' = [status EXCEPT ![u][a] = w]
      PROVE  status' \in [Updates -> [Names -> Words]]
  <2>1. status' = [status EXCEPT ![u] = [status[u] EXCEPT ![a] = w]]
    BY <1>6
  <2>2. [status[u] EXCEPT ![a] = w] \in [Names -> Words]
    BY DEF RecordsOK
  <2> QED
    BY <2>1, <2>2 DEF RecordsOK
<1>7. ASSUME UNCHANGED status PROVE status' \in [Updates -> [Names -> Words]]
  BY <1>7 DEF RecordsOK
<1>8. ASSUME UNCHANGED alive PROVE alive' \in [Updates -> BOOLEAN]
  BY <1>8 DEF RecordsOK
<1>9. ASSUME UNCHANGED text PROVE text' \in [Updates -> Texts]
  BY <1>9 DEF RecordsOK
<1> DEFINE Typed == /\ status' \in [Updates -> [Names -> Words]]
                    /\ alive' \in [Updates -> BOOLEAN]
                    /\ text' \in [Updates -> Texts]
<1>10. ASSUME NEW u \in Updates, HandleUpdate(u)
       PROVE  Typed
  <2>1. PICK m \in Commands :
          /\ CASE m.name = "text" -> Say(u, IF m.from = "other" THEN "denied" ELSE "empty")
                                       /\ UNCHANGED storageVars
               [] m.name = "help" -> Say(u, "info") /\ UNCHANGED storageVars
               [] m.name = "list" -> Send(u, [op |-> "aliases"]) /\ GoTo(u, "list")
               [] Usage(m) -> Say(u, "usage") /\ UNCHANGED storageVars
               [] m.name = "add" /\ ~Usage(m) ->
                    /\ Send(u, [op |-> "add", name |-> m.args[1], dev |-> m.dev])
                    /\ GoTo(u, "add")
               [] m.name \in {"wakeup", "turnoff", "check"} /\ ~Usage(m) ->
                    GetDevice(u, m.args[1])
          /\ UNCHANGED <<status, alive>>
    BY <1>10 DEF HandleUpdate
  <2>2. m.name \in {"text", "help", "list", "add", "wakeup", "turnoff", "check"}
    BY BotAssumption DEF Command
  <2>3. (\E t \in Texts : Say(u, t)) \/ UNCHANGED text
    BY <2>1, <2>2 DEF GetDevice, GoTo, Texts
  <2> QED
    BY <1>5, <1>7, <1>8, <1>9, <2>1, <2>3
<1>11. ASSUME NEW u \in Updates,
              \/ AliasesListed(u) \/ Added(u) \/ NotFound(u) \/ TurnedOff(u) \/ Checked(u)
              \/ TurnOffDev(u) \/ CheckHealt(u) \/ SendPacket(u)
       PROVE  Typed
  <2>1. /\ UNCHANGED <<status, alive>>
        /\ (\E t \in Texts : Say(u, t)) \/ UNCHANGED text
    BY <1>11 DEF AliasesListed, Added, NotFound, TurnedOff, Checked, TurnOffDev, CheckHealt,
                 SendPacket, GoTo, Texts
  <2> QED
    BY <1>5, <1>7, <1>8, <1>9, <2>1
<1>12. ASSUME NEW u \in Updates, WakeNone(u) \/ SendPacketFails(u) \/ WakePinged(u)
       PROVE  Typed
  <2>1. /\ UNCHANGED alive
        /\ \E w \in {"none", "error", "alive", "sleeping"} : Conclude(u, w)
    BY <1>12 DEF WakeNone, SendPacketFails, WakePinged
  <2>2. Head(rest[u]) \in Names
    <3>1. Looping(u)
      BY <1>12 DEF WakeNone, SendPacketFails, WakePinged, Got, Looping, ArgumentsOK
    <3>2. rest[u] \in Seq(Names) /\ rest[u] # <<>>
      BY <3>1 DEF ArgumentsOK
    <3> QED
      BY <3>2
  <2>3. /\ \E w \in Words : status' = [status EXCEPT ![u][Head(rest[u])] = w]
        /\ (\E t \in Texts : Say(u, t)) \/ UNCHANGED text
    BY <2>1 DEF Conclude, GetDevice, GoTo, Words, Texts
  <2> QED
    BY <1>5, <1>6, <1>8, <1>9, <2>1, <2>2, <2>3
<1>13. ASSUME NEW u \in Updates, WakeChecked(u)
       PROVE  Typed
  <2>1. Head(rest[u]) \in Names
    <3>1. rest[u] \in Seq(Names) /\ rest[u] # <<>>
      BY <1>13 DEF WakeChecked, Looping, ArgumentsOK
    <3> QED
      BY <3>1
  <2>2. status' = [status EXCEPT ![u][Head(rest[u])] =
                     IF outcome[u] = "yes" THEN "awake" ELSE status[u][Head(rest[u])]]
    BY <1>13 DEF WakeChecked
  <2>3. (IF outcome[u] = "yes" THEN "awake" ELSE status[u][Head(rest[u])]) \in Words
    BY <2>1 DEF RecordsOK, Words
  <2>4. alive' \in [Updates -> BOOLEAN] /\ UNCHANGED text
    BY <1>13 DEF WakeChecked, GoTo, RecordsOK
  <2> QED
    BY <1>6, <1>9, <2>1, <2>2, <2>3, <2>4
<1>14. NoStatus \in [Names -> Words]
  BY DEF NoStatus, Words
<1>15. ASSUME NEW u \in Updates, SendAnswer(u)
       PROVE  Typed
  BY <1>14, <1>15 DEF SendAnswer, RecordsOK, Texts
<1>16. ASSUME Restart
       PROVE  Typed
  <2>1. /\ status' = [u \in Updates |-> NoStatus] /\ alive' = [u \in Updates |-> FALSE]
        /\ text' = [u \in Updates |-> "empty"]
    BY <1>16 DEF Restart
  <2>2. "empty" \in Texts
    BY DEF Texts
  <2> QED
    BY <1>14, <2>1, <2>2
<1>17. ASSUME (\E c \in Clients : Serve(c) \/ StoragePanics(c)) \/ Deliver \/ PingGoesOn \/ WebServer
       PROVE  Typed
  <2>1. UNCHANGED status /\ UNCHANGED alive /\ UNCHANGED text
    BY <1>17 DEF Serve, StoragePanics, Deliver, PingGoesOn, WebServer, handlers
  <2> QED
    BY <1>7, <1>8, <1>9, <2>1
<1>18. Typed
  <2> HIDE DEF Typed
  <2>1. ASSUME NEW u \in Updates,
               HandleUpdate(u) \/ BotStep(u) \/ SendPacketFails(u) \/ TurnedOff(u)
        PROVE  Typed
    BY <1>10, <1>11, <1>12, <1>13, <1>15, <2>1 DEF BotStep
  <2> QED
    BY <1>2, <1>16, <1>17, <2>1 DEF Steps
<1> QED
  BY <1>1, <1>3, <1>4, <1>18 DEF RecordsOK

LEMMA BotInvariant ==
  BotSpec => [](StorageTypeOK /\ OneInService /\ EmptyWithoutBuckets /\ ArgumentsOK
                  /\ RecordsOK /\ \A u \in Updates : Handler(u))
<1>1. BotInit => RecordsOK /\ \A u \in Updates : Handler(u)
  <2> SUFFICES ASSUME BotInit PROVE RecordsOK /\ \A u \in Updates : Handler(u)
    OBVIOUS
  <2>1. P!PingTypeOK
    BY DEF BotInit, P!PingInit, P!PingTypeOK, P!Outcomes
  <2>2. NoStatus \in [Names -> Words] /\ "empty" \in Texts
    BY DEF NoStatus, Words, Texts
  <2>3. RecordsOK
    BY <2>1, <2>2 DEF BotInit, RecordsOK
  <2>4. ASSUME NEW u \in Updates
        PROVE  Handler(u)
    <3>1. /\ at[u] = "idle" /\ text[u] = "empty" /\ status[u] = NoStatus /\ ~acted[u]
          /\ msg[u] = Nil /\ call[u].at = "idle"
      BY BotAssumption DEF BotInit, StorageInit, NoCall
    <3> QED
      BY <3>1 DEF Handler, Asks, Knows, Sits, Says, Wakes
  <2> QED
    BY <2>3, <2>4
<1>2. StorageTypeOK /\ OneInService /\ EmptyWithoutBuckets /\ ArgumentsOK /\ StorageTypeOK'
        /\ RecordsOK /\ (\A u \in Updates : Handler(u)) /\ [Next]_botVars
          => RecordsOK' /\ (\A u \in Updates : Handler(u))'
  <2> SUFFICES ASSUME StorageTypeOK, OneInService, EmptyWithoutBuckets, ArgumentsOK,
                      StorageTypeOK', RecordsOK,
                      \A u \in Updates : Handler(u), [Next]_botVars
               PROVE  RecordsOK' /\ (\A u \in Updates : Handler(u))'
    OBVIOUS
  <2>1. CASE Next
    BY <2>1, RecordsStep, HandlerNext
  <2>2. CASE UNCHANGED botVars
    <3>1. RecordsOK'
      BY <2>2 DEF botVars, handlers, pings, history, RecordsOK, P!PingTypeOK
    <3>2. ASSUME NEW u \in Updates
          PROVE  Handler(u)'
      <4>1. /\ at' = at /\ msg' = msg /\ rest' = rest /\ status' = status /\ text' = text
            /\ was' = was /\ acted' = acted /\ call' = call /\ out' = out
        BY <2>2 DEF botVars, storageVars, handlers, history
      <4>2. /\ Target(u)' = Target(u) /\ Arguments(u)' = Arguments(u)
            /\ ResultFor(u)' = ResultFor(u)
        BY <4>1 DEF Target, Arguments, ResultFor
      <4>3. Asks(u)'
        BY <4>1, <4>2 DEF Handler, Asks
      <4>4. Knows(u)'
        BY <4>1, <4>2 DEF Handler, Knows, Taken, Lists, Registration, Absence
      <4>5. Sits(u)'
        BY <4>1 DEF Handler, Sits
      <4>6. Says(u)'
        BY <4>1 DEF Handler, Says, Lists, Registration, Absence
      <4>7. Wakes(u)'
        BY <4>1, <4>2 DEF Handler, Wakes, Registration, Absence
      <4> QED
        BY <4>3, <4>4, <4>5, <4>6, <4>7 DEF Handler
    <3> QED
      BY <3>1, <3>2
  <2> QED
    BY <2>1, <2>2
<1>3. BotSpec => []StorageTypeOK /\ []OneInService /\ []EmptyWithoutBuckets
  BY BotUsesStorageHolds, StorageTypeCorrect, ServiceCorrect, EmptyCorrect, PTL DEF BotUsesStorage
<1> QED
  BY <1>1, <1>2, <1>3, ArgumentsInvariant, PTL DEF BotSpec, Next

(***************************************************************************)
(* The variables of the bot keep their types, whatever the chats ask.      *)
(***************************************************************************)
THEOREM BotTypeCorrect == BotSpec => []BotTypeOK
<1>1. StorageTypeOK /\ ArgumentsOK /\ RecordsOK => BotTypeOK
  BY DEF ArgumentsOK, RecordsOK, BotTypeOK
<1> QED
  BY <1>1, BotInvariant, PTL

(***************************************************************************)
(* The bot uses CheckHealt and PingHost as the specification of a caller   *)
(* of the pinger allows, and only on devices that storage has given it.    *)
(***************************************************************************)
THEOREM BotUsesPing == BotSpec => P!PingSpec
<1>1. BotInit => P!PingInit
  BY DEF BotInit
<1>2. (\A u \in Updates : Handler(u)) /\ [Next]_botVars => [P!PingNext]_(P!pingVars)
  BY PingStep
<1> QED
  BY <1>1, <1>2, BotInvariant, PTL DEF BotSpec, Next, P!PingSpec

(***************************************************************************)
(* With any number of chats, of web requests and of devices that come and  *)
(* go between the rounds of a request, the bot says nothing about a device *)
(* that was not true at some moment of the request.                        *)
(***************************************************************************)
THEOREM BotRepliesTruthfulHolds == BotSpec => []BotRepliesTruthful
<1>1. (\A u \in Updates : Handler(u)) => BotRepliesTruthful
  BY DEF Handler, Says, Lists, BotRepliesTruthful
<1> QED
  BY <1>1, BotInvariant, PTL

(***************************************************************************)
(* The report of /wakeup is complete and true for messages of any length,  *)
(* with any repetition of aliases.                                         *)
(***************************************************************************)
THEOREM WakeTruthfulHolds == BotSpec => []WakeTruthful
<1>1. (\A u \in Updates : Handler(u)) => WakeTruthful
  <2> SUFFICES ASSUME \A u \in Updates : Handler(u), NEW u \in Updates, text[u] = "report",
                      NEW a \in Names
               PROVE  /\ (status[u][a] = "unset") <=> (a \notin Arguments(u))
                      /\ status[u][a] = "none" => Absence(u, a)
                      /\ status[u][a] \notin {"unset", "none"} => Registration(u, a)
    BY DEF WakeTruthful
  <2>1. rest[u] = <<>> /\ msg[u].name = "wakeup" /\ at[u] # "idle" /\ Wakes(u)
    BY DEF Handler, Says, Sits
  <2>2. DOMAIN rest[u] = {}
    BY <2>1
  <2> QED
    BY <2>1, <2>2 DEF Wakes
<1> QED
  BY <1>1, BotInvariant, PTL

=============================================================================
