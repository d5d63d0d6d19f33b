----------------------------- MODULE PowerProofs -----------------------------
(***************************************************************************)
(* Proofs about POST / and POST /ping/:alias among all requests of package *)
(* server, for any requests, passwords and devices, and for every pinger   *)
(* that keeps what Ping promises.                                          *)
(***************************************************************************)
EXTENDS Power, PageProofs

(***************************************************************************)
(* What a handler has when it acts: the password has been accepted, the    *)
(* device was looked up, and a yes of a ping is owed to an answer.         *)
(***************************************************************************)
PingedOK(c) ==
  /\ ping[c] = Nil => outcome[c] = "none"
  /\ ping[c] # Nil /\ ping[c].kind = "health" /\ outcome[c] = "yes" => heard[c] # {}
  /\ At(c, "pinging") /\ req[c].route = "ping" => ping[c] # Nil /\ ping[c].kind = "health"

ActedOK(c) ==
  /\ req[c].route = "ping" => req[c].alias \in Aliases
  /\ pc[c] \in {"wake", "turnoff", "sent"} => req[c].route = "power"
  /\ At(c, "pinging") => req[c].route \in {"power", "ping"}
  /\ pc[c] \in {"wake", "turnoff"} => /\ acted[c] = Nil
                                     /\ req[c].pass \in pws[c]
                                     /\ call[c].got.dev \in Devices
                                     /\ <<req[c].alias, call[c].got.dev>> \in was[c]
  /\ At(c, "sent") => acted[c] # Nil
  /\ At(c, "pinging") /\ req[c].route = "power" => acted[c] # Nil
  /\ acted[c] # Nil => /\ pc[c] \in {"sent", "pinging", "answered"}
                       /\ req[c].route = "power"
                       /\ req[c].pass \in pws[c]
                       /\ <<req[c].alias, acted[c].dev>> \in was[c]

RefusedOK(c) ==
  At(c, "answered") /\ req[c].route = "power" =>
    /\ reply[c] \in {"OK", "InternalError", "aborted"} => acted[c] # Nil
    /\ reply[c] \in {"Unprocessable", "Unauthorized", "NotFound"} => acted[c] = Nil
    /\ reply[c] = "BadRequest" => acted[c] = Nil \/ acted[c].do = "off"
    /\ reply[c] = "NotFound" => req[c].alias = Empty \/ <<req[c].alias, Nil>> \in was[c]

PowerOK(c) == PingedOK(c) /\ ActedOK(c) /\ RefusedOK(c)

PowerRecords ==
  /\ P!PingTypeOK
  /\ devStatus \subseteq Aliases
  /\ acted \in [Clients -> Action \cup {Nil}]
  /\ answers \in [Aliases -> SUBSET Devices]
  /\ \A a \in devStatus : answers[a] # {}

BaseOK == RequestsOK /\ ListsOK /\ OneInService /\ EmptyWithoutBuckets /\ SetupInv

PowerInv ==
  /\ BaseOK /\ PowerRecords
  /\ \A c \in Clients : Accounted(c) /\ Viewed(c) /\ PowerOK(c)

-----------------------------------------------------------------------------
(* The steps as steps of the storage. *)

LEMMA PowerForms ==
  /\ \A r \in Route : [NoForm EXCEPT !.route = r] \in Form
  /\ \A a \in Aliases : [NoForm EXCEPT !.route = "ping", !.alias = a] \in Form
  /\ \A a \in Names, p \in Phrases :
       [NoForm EXCEPT !.route = "power", !.alias = a, !.pass = p] \in Form
<1>1. NoForm \in Form
  BY FormTypes
<1>2. \A a \in Aliases : [NoForm EXCEPT !.route = "ping", !.alias = a] \in Form
  BY <1>1 DEF Form, Route, Names
<1>3. \A a \in Names, p \in Phrases :
        [NoForm EXCEPT !.route = "power", !.alias = a, !.pass = p] \in Form
  BY <1>1 DEF Form, Route
<1> QED
  BY <1>2, <1>3, RouteForms

PowerMoves == {"answered", "check", "get", "wake", "turnoff", "sent", "pinging"}

\* The point and the form at which the step of a request leaves it.
Leaves(c) ==
  /\ \E l \in PowerMoves : pc' = [pc EXCEPT ![c] = l]
  /\ reply' \in [Clients -> Status]
  /\ req' \in [Clients -> Form]
  /\ UNCHANGED <<boot, lists>>

LEMMA PowerSends ==
  ASSUME RequestsOK, NEW c \in Clients, PowerBegins(c) \/ PowerStep(c)
  PROVE  (StorageNext \/ UNCHANGED storageVars) /\ OnlyCalls /\ Leaves(c)
<1>0. /\ req \in [Clients -> Form] /\ reply \in [Clients -> Status] /\ req[c].alias \in Names
      /\ PowerMoves = {"answered", "check", "get", "wake", "turnoff", "sent", "pinging"}
  BY DEF RequestsOK, RecordsTypeOK, Form, PowerMoves
<1>1. CASE HandleRootPost(c)
  <2>1. PICK a \in Names, p \in Phrases :
          /\ Begin(c, [NoForm EXCEPT !.route = "power", !.alias = a, !.pass = p])
          /\ CheckPassword(c, p)
          /\ UNCHANGED <<boot, lists>>
    BY <1>1 DEF HandleRootPost
  <2>2. StorageNext
    BY <2>1, RouteRequests DEF CheckPassword, StorageNext
  <2> QED
    BY <1>0, <2>1, <2>2, PowerForms, SendTouches DEF Leaves, Begin, CheckPassword, GoTo
<1>2. CASE RootPostRejected(c)
  BY <1>0, <1>2, PowerForms, SendTouches DEF RootPostRejected, Leaves, Begin, Answer, Route, Status
<1>3. CASE HandlePing(c)
  <2>1. PICK a \in Aliases :
          /\ Begin(c, [NoForm EXCEPT !.route = "ping", !.alias = a])
          /\ GetDevice(c, a)
          /\ UNCHANGED <<boot, lists>>
    BY <1>3 DEF HandlePing
  <2>2. StorageNext
    BY <2>1, RouteRequests DEF GetDevice, StorageNext, Names
  <2> QED
    BY <1>0, <2>1, <2>2, PowerForms, SendTouches DEF Leaves, Begin, GetDevice, GoTo
<1>4. CASE LookUp(c)
  <2>1. StorageNext
    BY <1>0, <1>4, RouteRequests DEF LookUp, GetDevice, StorageNext
  <2> QED
    BY <1>0, <1>4, <2>1, SendTouches DEF LookUp, GetDevice, GoTo, Leaves
<1>5. CASE NoDevice(c) \/ ActionFails(c) \/ Report(c) \/ SetStatus(c)
  <2>1. PICK s \in Status : Answer(c, s)
    BY <1>5 DEF NoDevice, ActionFails, Report, SetStatus, Status
  <2>2. UNCHANGED <<storageVars, boot, req, lists>>
    BY <1>5 DEF NoDevice, ActionFails, Report, SetStatus
  <2> QED
    BY <1>0, <2>1, <2>2, SendTouches DEF Answer, Leaves
<1>6. CASE \/ HandleDeviceAction(c) \/ SendPacket(c) \/ TurnOffDev(c) \/ PingHost(c)
           \/ CheckHealt(c)
  <2>1. PICK l \in PowerMoves : GoTo(c, l) /\ UNCHANGED <<storageVars, boot, req, lists>>
    BY <1>0, <1>6 DEF HandleDeviceAction, SendPacket, TurnOffDev, Sends, PingHost, CheckHealt
  <2> QED
    BY <1>0, <2>1, SendTouches DEF GoTo, Leaves
<1> QED
  BY <1>1, <1>2, <1>3, <1>4, <1>5, <1>6 DEF PowerBegins, PowerStep

LEMMA PowerStorageStep ==
  ASSUME RequestsOK, ListsOK, [PowerSteps /\ Track]_powerVars
  PROVE  [StorageNext]_storageVars
<1>1. ASSUME NEW c \in Clients,
             \/ PowerBegins(c) \/ PowerStep(c) \/ PowerReturn(c) \/ OtherBegins(c) \/ OtherStep(c)
      PROVE  StorageNext \/ UNCHANGED storageVars
  <2>1. ASSUME Finish(c)
        PROVE  StorageNext
    BY <2>1 DEF Finish, StorageNext
  <2> QED
    BY <1>1, <2>1, PowerSends, BeginsSends, StepSends, ConfigStorageStep
    DEF PowerReturn, Return, OtherBegins, OtherStep, RequestsOK
<1>2. ASSUME NEW c \in Clients, StorageServes(c)
      PROVE  StorageNext
  BY <1>2 DEF StorageServes, Serve, StoragePanics, StorageNext
<1>3. ASSUME StorageDelivers \/ Restart
      PROVE  StorageNext
  BY <1>3 DEF StorageDelivers, Deliver, Restart, StorageNext
<1>4. ASSUME PingGoesOn \/ UNCHANGED powerVars
      PROVE  UNCHANGED storageVars
  BY <1>4 DEF PingGoesOn, powerVars, serverVars, setupVars
<1> QED
  BY <1>1, <1>2, <1>3, <1>4 DEF PowerSteps

LEMMA PowerBaseStep ==
  ASSUME BaseOK, [PowerSteps /\ Track]_powerVars
  PROVE  RequestsOK' /\ OneInService' /\ EmptyWithoutBuckets'
<1>1. StorageTypeOK' /\ OneInService' /\ EmptyWithoutBuckets'
  BY PowerStorageStep, StorageTypeStep, ServiceStep, EmptyStep DEF BaseOK, RequestsOK, RecordsTypeOK
<1>2. RecordsAt(AllPoints)'
  <2>1. ASSUME NEW c \in Clients, PowerBegins(c) \/ PowerStep(c)
        PROVE  RecordsAt(AllPoints)'
    <3>1. PowerMoves \subseteq AllPoints
      BY DEF PowerMoves, AllPoints, ServerPoints, SetupPoints
    <3> QED
      BY <2>1, <3>1, PowerSends DEF Leaves, BaseOK, RequestsOK, RecordsTypeOK, RecordsAt, boot
  <2>2. ASSUME \/ \E c \in Clients : PowerReturn(c) \/ OtherBegins(c) \/ OtherStep(c)
               \/ \E c \in Clients : StorageServes(c)
               \/ StorageDelivers \/ PingGoesOn \/ Restart \/ UNCHANGED powerVars
        PROVE  RecordsAt(AllPoints)'
    <3>1. \/ \E c \in Clients : \/ ServerBegins(c) \/ ServerStep(c)
                                \/ ConfigBegins(c) \/ ConfigStep(c) \/ Finish(c)
          \/ Start
          \/ UNCHANGED <<boot, requests>>
      BY <2>2 DEF PowerReturn, Return, OtherBegins, OtherStep, StorageServes, Serve,
         StoragePanics, StorageDelivers, Deliver, PingGoesOn, Restart, powerVars, serverVars,
         setupVars
    <3>2. ServerPoints \subseteq AllPoints
      BY DEF AllPoints
    <3> QED
      BY <3>1, <3>2, RecordsKept DEF BaseOK, RequestsOK
  <2> QED
    BY <2>1, <2>2 DEF PowerSteps
<1> QED
  BY <1>1, <1>2 DEF RequestsOK, RecordsTypeOK, RecordsAt

LEMMA PowerListsStep ==
  ASSUME BaseOK, \A c \in Clients : Accounted(c), [PowerSteps /\ Track]_powerVars
  PROVE  ListsOK'
<1>1. ASSUME NEW c \in Clients, PowerBegins(c) \/ PowerStep(c)
      PROVE  UNCHANGED lists
  BY <1>1, PowerSends DEF Leaves, BaseOK
<1>2. \/ \E c \in Clients : ServerBegins(c) \/ ServerStep(c) \/ Return(c)
      \/ Forget
      \/ UNCHANGED lists
  BY <1>1 DEF PowerSteps, PowerReturn, OtherBegins, OtherStep, StorageServes, StorageDelivers,
     PingGoesOn, PowerForget, powerVars, serverVars
<1> QED
  BY <1>2, ListsKept DEF BaseOK

\* The handlers of Power change nothing that a configuration relies on, and
\* nothing on the disk.
LEMMA PowerKeepsSetup ==
  ASSUME BaseOK, NEW c \in Clients, PowerBegins(c) \/ PowerStep(c)
  PROVE  SetupInv' /\ UNCHANGED disk
<1>1. OnlyCalls /\ Leaves(c) /\ SetupInv /\ pc \in [Clients -> AllPoints]
  BY PowerSends DEF BaseOK, RequestsOK
<1>2. \A d \in Clients : pc'[d] \in Configuring => pc'[d] = pc[d]
  BY <1>1 DEF Leaves, PowerMoves, Configuring
<1> QED
  BY <1>1, <1>2, SetupInvStands DEF OnlyCalls, Leaves, disk

\* The other steps, as SetupProofs and ServerProofs know them.
LEMMA PowerOtherSteps ==
  ASSUME [PowerSteps /\ Track]_powerVars
  PROVE  \/ \E c \in Clients : \/ PowerBegins(c) \/ PowerStep(c)
                              \/ ServerBegins(c) \/ ServerStep(c)
                              \/ ConfigBegins(c) \/ ConfigStep(c) \/ Finish(c) \/ Serve(c)
                              \/ StoragePanics(c)
         \/ Deliver
         \/ Start /\ UNCHANGED disk
         \/ UNCHANGED setupVars
<1>1. ASSUME NEW c \in Clients, PowerReturn(c) \/ OtherBegins(c) \/ OtherStep(c) \/ StorageServes(c)
      PROVE  \/ ServerBegins(c) \/ ServerStep(c) \/ ConfigBegins(c) \/ ConfigStep(c)
             \/ Finish(c) \/ Serve(c) \/ StoragePanics(c)
  BY <1>1 DEF PowerReturn, Return, OtherBegins, OtherStep, StorageServes
<1>2. ASSUME Restart
      PROVE  Start /\ UNCHANGED disk
  BY <1>2 DEF Restart, Die
<1>3. ASSUME PingGoesOn \/ UNCHANGED powerVars
      PROVE  UNCHANGED setupVars
  BY <1>3 DEF PingGoesOn, powerVars, serverVars
<1> QED
  BY <1>1, <1>2, <1>3 DEF PowerSteps, StorageDelivers

\* Every step of the whole server keeps the invariant of the setup.
LEMMA PowerSetupStep ==
  ASSUME BaseOK, [PowerSteps /\ Track]_powerVars
  PROVE  SetupInv'
<1>0. RequestsOK /\ RecordsTypeOK /\ pc \in [Clients -> AllPoints] /\ ListsOK /\ SetupInv
  BY DEF BaseOK, RequestsOK
<1>1. ASSUME NEW c \in Clients, PowerBegins(c) \/ PowerStep(c)
      PROVE  SetupInv'
  BY <1>1, PowerKeepsSetup
<1>2. ASSUME NEW c \in Clients, ServerBegins(c) \/ ServerStep(c)
      PROVE  SetupInv'
  BY <1>0, <1>2, RoutesKeepSetup
<1>3. CASE \/ \E c \in Clients : \/ ConfigBegins(c) \/ ConfigStep(c) \/ Finish(c) \/ Serve(c)
                               \/ StoragePanics(c)
           \/ Deliver
           \/ Start /\ UNCHANGED disk
  BY <1>0, <1>3, SetupInvStep
<1>4. CASE UNCHANGED setupVars
  BY <1>0, <1>4, SetupInvStands DEF setupVars, storageVars, disk, requests
<1> QED
  BY <1>1, <1>2, <1>3, <1>4, PowerOtherSteps

-----------------------------------------------------------------------------
(* The account and the views, over the steps of Power. *)

\* A handler of Power goes on, without a call.
LEMMA GoesAccounted ==
  ASSUME RequestsOK, NEW c \in Clients, NEW l \in {"wake", "turnoff", "sent", "pinging"},
         GoTo(c, l), UNCHANGED <<storageVars, req>>, Accounted(c), Track,
         pc[c] \in {"get", "wake", "turnoff", "sent"},
         call[c].at = "idle"
  PROVE  Accounted(c)'
<1>1. pc'[c] = l /\ wrote[c] = {} /\ call' = call /\ Committed(c) = {}
  BY NothingCommitted DEF GoTo, RequestsOK, Accounted, WroteOK, At, storageVars, Unwritten
<1>2. wrote'[c] = {} /\ (req[c].route \notin Pages => password' \in pws'[c])
  BY <1>1, Tracked DEF At
<1> QED
  BY <1>1, <1>2 DEF Accounted, CallOK, AuthorOK, Admitted, RouteOK, WroteOK, At, Awaiting,
     Configuring, Unwritten

LEMMA PowerAccounted ==
  ASSUME RequestsOK, NEW c \in Clients, Accounted(c), ActedOK(c), Track,
         PowerBegins(c) \/ PowerStep(c)
  PROVE  Accounted(c)'
<1>0. call[c].at = "idle" /\ wrote[c] = {}
  BY DEF PowerBegins, PowerStep, HandleRootPost, RootPostRejected, HandlePing, Begin, LookUp,
         Granted, NoDevice, HandleDeviceAction, SendPacket, TurnOffDev, ActionFails, PingHost,
         Report, CheckHealt, SetStatus, Answered, At, Accounted, CallOK, WroteOK, Awaiting,
         Unwritten
<1>1. CASE HandleRootPost(c)
  <2>1. PICK a \in Names, p \in Phrases :
          /\ Begin(c, [NoForm EXCEPT !.route = "power", !.alias = a, !.pass = p])
          /\ CheckPassword(c, p)
    BY <1>1 DEF HandleRootPost
  <2> DEFINE f == [NoForm EXCEPT !.route = "power", !.alias = a, !.pass = p]
  <2>2. f.route = "power" /\ f.pass = p
    BY DEF NoForm
  <2>3. req'[c] = f
    BY <2>1 DEF Begin, RequestsOK, RecordsTypeOK
  <2>4. Send(c, [op |-> "pass", pass |-> p]) /\ GoTo(c, "check") /\ pc[c] = "idle"
    BY <2>1 DEF CheckPassword, Begin, At
  <2> HIDE DEF f
  <2> QED
    BY <1>0, <2>2, <2>3, <2>4, SendAccounted DEF Awaiting, Awaits
<1>2. CASE HandlePing(c)
  <2>1. PICK a \in Aliases :
          /\ Begin(c, [NoForm EXCEPT !.route = "ping", !.alias = a])
          /\ GetDevice(c, a)
    BY <1>2 DEF HandlePing
  <2>2. [NoForm EXCEPT !.route = "ping", !.alias = a].route = "ping"
    BY DEF NoForm
  <2>3. req'[c].route = "ping"
    BY <2>1, <2>2 DEF Begin, RequestsOK, RecordsTypeOK
  <2>4. Send(c, [op |-> "get", name |-> a]) /\ GoTo(c, "get") /\ pc[c] = "idle"
    BY <2>1 DEF GetDevice, Begin, At
  <2> QED
    BY <1>0, <2>3, <2>4, SendAccounted DEF Awaiting, Awaits, Pages
<1>3. CASE LookUp(c)
  <2>1. Send(c, [op |-> "get", name |-> req[c].alias]) /\ GoTo(c, "get") /\ req' = req
        /\ req[c].route = "power" /\ At(c, "check") /\ call[c].got.ok
    BY <1>3 DEF LookUp, Granted, Answered, GetDevice
  <2>2. Trusted(c) \/ loop = "dying"
    BY <1>0, <2>1 DEF Accounted, AuthorOK, Fine, ResultFor
  <2> QED
    BY <1>0, <2>1, <2>2, SendAccounted DEF Awaiting, Awaits, At, Trusted
<1>4. CASE RootPostRejected(c) \/ NoDevice(c) \/ ActionFails(c) \/ Report(c) \/ SetStatus(c)
  <2>1. PICK s \in Status : Answer(c, s)
    BY <1>4 DEF RootPostRejected, NoDevice, ActionFails, Report, SetStatus, Status
  <2>2. call' = call /\ password' = password /\ Lasting
    BY <1>4 DEF RootPostRejected, NoDevice, ActionFails, Report, SetStatus, storageVars, disk,
       Lasting
  <2>3. req'[c].route \in {"power", "ping"}
    <3>1. CASE RootPostRejected(c)
      <4>1. [NoForm EXCEPT !.route = "power"].route = "power"
        BY DEF NoForm
      <4> QED
        BY <3>1, <4>1 DEF RootPostRejected, Begin, RequestsOK, RecordsTypeOK
    <3>2. CASE NoDevice(c) \/ ActionFails(c) \/ Report(c) \/ SetStatus(c)
      BY <3>2 DEF NoDevice, ActionFails, Report, SetStatus, ActedOK, At
    <3> QED
      BY <1>4, <3>1, <3>2
  <2>4. Asked(c)' = {{}}
    BY <2>3 DEF Asked
  <2> QED
    BY <1>0, <2>1, <2>2, <2>3, <2>4, AnswerAccounted
<1>5. CASE \/ HandleDeviceAction(c) \/ SendPacket(c) \/ TurnOffDev(c) \/ PingHost(c)
           \/ CheckHealt(c)
  <2>1. PICK l \in {"wake", "turnoff", "sent", "pinging"} :
          /\ GoTo(c, l) /\ UNCHANGED <<storageVars, req>>
          /\ pc[c] \in {"get", "wake", "turnoff", "sent"}
    BY <1>5 DEF HandleDeviceAction, SendPacket, TurnOffDev, Sends, PingHost, CheckHealt, Answered,
       At
  <2> QED
    BY <1>0, <2>1, GoesAccounted
<1> QED
  BY <1>1, <1>2, <1>3, <1>4, <1>5 DEF PowerBegins, PowerStep

LEMMA PowerViewed ==
  ASSUME RequestsOK, NEW c \in Clients, Accounted(c), Viewed(c), ActedOK(c), Track,
         PowerBegins(c) \/ PowerStep(c)
  PROVE  Viewed(c)'
<1>0. /\ pc[c] # "answered" /\ page' = page /\ page[c] \subseteq was[c]
      /\ call[c].at = "idle"
  BY PowerSends DEF Leaves, lists, PowerBegins, PowerStep, HandleRootPost, RootPostRejected,
     HandlePing, Begin, LookUp, Granted, NoDevice, HandleDeviceAction, SendPacket, TurnOffDev,
     ActionFails, PingHost, Report, CheckHealt, SetStatus, Answered, At, Accounted, CallOK,
     Awaiting, Viewed, PageOK
<1>1. CASE \/ HandleRootPost(c) \/ HandleDeviceAction(c) \/ SendPacket(c) \/ TurnOffDev(c)
           \/ PingHost(c) \/ CheckHealt(c)
  <2>1. pc'[c] \in {"check", "wake", "turnoff", "sent", "pinging"}
    BY <1>1 DEF HandleRootPost, CheckPassword, HandleDeviceAction, SendPacket, TurnOffDev, Sends,
       PingHost, CheckHealt, GoTo, RequestsOK
  <2> QED
    BY <1>0, <2>1, MoveViewed
<1>2. CASE HandlePing(c)
  <2>1. PICK a \in Aliases :
          /\ Begin(c, [NoForm EXCEPT !.route = "ping", !.alias = a])
          /\ GetDevice(c, a)
    BY <1>2 DEF HandlePing
  <2> DEFINE f == [NoForm EXCEPT !.route = "ping", !.alias = a]
  <2>2. f.route = "ping" /\ f.alias = a
    BY DEF NoForm
  <2>3. req'[c] = f
    BY <2>1 DEF Begin, RequestsOK, RecordsTypeOK
  <2>4. Send(c, [op |-> "get", name |-> a]) /\ GoTo(c, "get")
    BY <2>1 DEF GetDevice
  <2>5. page'[c] \subseteq was'[c]
    <3>1. pc'[c] = "get"
      BY <2>4 DEF GoTo, RequestsOK
    <3> QED
      BY <1>0, <3>1, Watched
  <2> HIDE DEF f
  <2> QED
    BY <1>0, <2>2, <2>3, <2>4, <2>5, SendViewed
<1>3. CASE LookUp(c)
  <2>1. Send(c, [op |-> "get", name |-> req[c].alias]) /\ GoTo(c, "get") /\ req' = req
        /\ req[c].route = "power"
    BY <1>3 DEF LookUp, GetDevice
  <2>2. page'[c] \subseteq was'[c]
    <3>1. pc'[c] = "get"
      BY <2>1 DEF GoTo, RequestsOK
    <3> QED
      BY <1>0, <3>1, Watched
  <2> QED
    BY <1>0, <2>1, <2>2, SendViewed
<1>4. CASE RootPostRejected(c) \/ NoDevice(c) \/ ActionFails(c) \/ Report(c) \/ SetStatus(c)
  <2>1. PICK s \in Status : Answer(c, s)
    BY <1>4 DEF RootPostRejected, NoDevice, ActionFails, Report, SetStatus, Status
  <2>2. req'[c].route \in {"power", "ping"}
    <3>1. CASE RootPostRejected(c)
      <4>1. [NoForm EXCEPT !.route = "power"].route = "power"
        BY DEF NoForm
      <4> QED
        BY <3>1, <4>1 DEF RootPostRejected, Begin, RequestsOK, RecordsTypeOK
    <3>2. CASE NoDevice(c) \/ ActionFails(c) \/ Report(c) \/ SetStatus(c)
      BY <3>2 DEF NoDevice, ActionFails, Report, SetStatus, ActedOK, At
    <3> QED
      BY <1>4, <3>1, <3>2
  <2>3. page'[c] \subseteq was'[c]
    <3>1. pc'[c] = "answered"
      BY <2>1 DEF Answer, RequestsOK
    <3> QED
      BY <1>0, <3>1, Watched
  <2>4. DoneOK(c)'
    BY <2>2 DEF DoneOK
  <2> QED
    BY <2>1, <2>3, <2>4, AnswerViewed
<1> QED
  BY <1>1, <1>2, <1>3, <1>4 DEF PowerBegins, PowerStep

-----------------------------------------------------------------------------
(* What was done on behalf of a request, over the steps of Power. *)

\* What one request does leaves the others where they are.
LEMMA PowerOthers ==
  ASSUME RequestsOK, ListsOK, PowerRecords, NEW c \in Clients, NEW d \in Clients \ {c},
         PowerBegins(c) \/ PowerStep(c) \/ OtherBegins(c) \/ OtherStep(c) \/ PowerReturn(c)
  PROVE  /\ UNCHANGED <<cur, out>>
         /\ pc'[d] = pc[d] /\ req'[d] = req[d] /\ reply'[d] = reply[d] /\ call'[d] = call[d]
         /\ todo'[d] = todo[d] /\ page'[d] = page[d] /\ acted'[d] = acted[d]
         /\ ping'[d] = ping[d] /\ heard'[d] = heard[d] /\ outcome'[d] = outcome[d]
<1>0. /\ \A q : Send(c, q) => UNCHANGED <<cur, out>> /\ call'[d] = call[d]
      /\ UNCHANGED storageVars => UNCHANGED <<cur, out>> /\ call'[d] = call[d]
      /\ \A l : GoTo(c, l) => pc'[d] = pc[d] /\ reply'[d] = reply[d]
      /\ \A s : Answer(c, s) => pc'[d] = pc[d] /\ reply'[d] = reply[d]
      /\ \A f : Begin(c, f) => req'[d] = req[d]
  BY DEF Send, storageVars, GoTo, Answer, Begin, RequestsOK, RecordsTypeOK, StorageTypeOK
<1>1. /\ P!Drop(c) => /\ ping'[d] = ping[d] /\ heard'[d] = heard[d]
                      /\ outcome'[d] = outcome[d]
      /\ \A k, h : P!Begin(c, k, h) => /\ ping'[d] = ping[d] /\ heard'[d] = heard[d]
                                       /\ outcome'[d] = outcome[d]
      /\ UNCHANGED pings => ping'[d] = ping[d] /\ heard'[d] = heard[d] /\ outcome'[d] = outcome[d]
  BY DEF P!Drop, P!Begin, pings, PowerRecords, P!PingTypeOK
<1>2. CASE PowerBegins(c)
  BY <1>0, <1>1, <1>2 DEF PowerBegins, HandleRootPost, RootPostRejected, HandlePing,
     CheckPassword, GetDevice, lists
<1>3. CASE PowerStep(c)
  <2>1. CASE LookUp(c) \/ NoDevice(c) \/ ActionFails(c) \/ PingHost(c) \/ CheckHealt(c)
    BY <1>0, <1>1, <2>1 DEF LookUp, NoDevice, ActionFails, PingHost, CheckHealt, GetDevice, lists
  <2>2. CASE HandleDeviceAction(c) \/ SendPacket(c) \/ TurnOffDev(c)
    BY <1>0, <1>1, <2>2 DEF HandleDeviceAction, SendPacket, TurnOffDev, Sends, lists, PowerRecords
  <2>3. CASE Report(c) \/ SetStatus(c)
    BY <1>0, <1>1, <2>3 DEF Report, SetStatus, lists
  <2> QED
    BY <1>3, <2>1, <2>2, <2>3 DEF PowerStep
<1>4. CASE OtherBegins(c) \/ OtherStep(c)
  <2>1. UNCHANGED <<acted, pings>>
    BY <1>4 DEF OtherBegins, OtherStep
  <2>2. ServerBegins(c) \/ RequestStep(c) \/ (ConfigBegins(c) /\ UNCHANGED lists)
    BY <1>4 DEF OtherBegins, OtherStep, RequestStep
  <2>3. todo'[d] = todo[d] /\ page'[d] = page[d]
    BY <2>2, ListsUntouched DEF lists
  <2> QED
    BY <1>1, <2>1, <2>2, <2>3, OthersUntouched
<1>5. CASE PowerReturn(c)
  <2>1. RequestStep(c) /\ UNCHANGED pings /\ acted'[d] = acted[d]
    BY <1>5 DEF PowerReturn, RequestStep, PowerRecords
  <2> QED
    BY <1>1, <2>1, ListsUntouched, OthersUntouched
<1> QED
  BY <1>2, <1>3, <1>4, <1>5

\* A request that stands, while others move or the hosts answer.
LEMMA PowerStands ==
  ASSUME NEW d \in Clients, PowerOK(d), Track, PingedOK(d)',
         pc'[d] = pc[d], req'[d] = req[d], reply'[d] = reply[d], acted'[d] = acted[d],
         pc[d] \in {"wake", "turnoff"} => call'[d] = call[d]
  PROVE  PowerOK(d)'
<1>1. CASE pc[d] = "idle"
  BY <1>1 DEF PowerOK, ActedOK, RefusedOK, At
<1>2. CASE pc[d] # "idle"
  <2>1. pws[d] \subseteq pws'[d] /\ was[d] \subseteq was'[d]
    BY <1>2, Tracked, Watched
  <2>2. ActedOK(d)'
    BY <2>1 DEF PowerOK, ActedOK, At
  <2>3. RefusedOK(d)'
    BY <2>1 DEF PowerOK, RefusedOK, At
  <2> QED
    BY <2>2, <2>3 DEF PowerOK
<1> QED
  BY <1>1, <1>2

\* The storage goroutine touches the call of nobody who does not wait for it.
LEMMA IdleCallStands ==
  ASSUME RequestsOK, OneInService, NEW d \in Clients, call[d].at = "idle",
         Deliver \/ \E c \in Clients : Serve(c) \/ StoragePanics(c)
  PROVE  call'[d] = call[d]
<1>0. call \in [Clients -> Call] /\ (loop = "send" => d # cur)
  BY DEF RequestsOK, RecordsTypeOK, StorageTypeOK, OneInService
<1>1. CASE Deliver
  BY <1>0, <1>1 DEF Deliver, SendAlias, SendReply
<1>2. ASSUME NEW c \in Clients, Serve(c)
      PROVE  call'[d] = call[d]
  BY <1>0, <1>2, HandleAnswers DEF Serve, RequestsOK, RecordsTypeOK, StorageTypeOK
<1>3. ASSUME NEW c \in Clients, StoragePanics(c)
      PROVE  call'[d] = call[d]
  BY <1>0, <1>3 DEF StoragePanics, NilBucket
<1> QED
  BY <1>1, <1>2, <1>3

\* A request for which nothing has been done.
LEMMA NothingDone ==
  ASSUME NEW c \in Clients, PowerOK(c), UNCHANGED pings, acted'[c] = Nil,
         pc'[c] \notin {"wake", "turnoff", "sent", "pinging"},
         req'[c].route = "ping" => req'[c].alias \in Aliases,
         pc'[c] = "answered" /\ req'[c].route = "power" =>
           /\ reply'[c] \in {"Unprocessable", "Unauthorized", "NotFound"}
           /\ reply'[c] = "NotFound" => req'[c].alias = Empty \/ <<req'[c].alias, Nil>> \in was'[c]
  PROVE  PowerOK(c)'
  BY DEF PowerOK, PingedOK, ActedOK, RefusedOK, At, pings

LEMMA PowerBeginsOK ==
  ASSUME RequestsOK, NEW c \in Clients, PowerOK(c), Track, PowerBegins(c)
  PROVE  PowerOK(c)'
<1>0. /\ UNCHANGED <<acted, pings>> /\ acted[c] = Nil
      /\ req \in [Clients -> Form] /\ reply \in [Clients -> Status]
  BY DEF PowerBegins, HandleRootPost, RootPostRejected, HandlePing, Begin, At, PowerOK, ActedOK,
         RequestsOK, RecordsTypeOK
<1>1. CASE HandleRootPost(c)
  <2>1. PICK a \in Names, p \in Phrases :
          /\ Begin(c, [NoForm EXCEPT !.route = "power", !.alias = a, !.pass = p])
          /\ CheckPassword(c, p)
    BY <1>1 DEF HandleRootPost
  <2>2. [NoForm EXCEPT !.route = "power", !.alias = a, !.pass = p].route = "power"
    BY DEF NoForm
  <2>3. req'[c].route = "power" /\ pc'[c] = "check"
    BY <1>0, <2>1, <2>2 DEF Begin, CheckPassword, GoTo, RequestsOK
  <2> QED
    BY <1>0, <2>3, NothingDone
<1>2. CASE RootPostRejected(c)
  <2>1. reply'[c] = "Unprocessable" /\ pc'[c] = "answered"
    BY <1>0, <1>2 DEF RootPostRejected, Answer, RequestsOK
  <2>2. [NoForm EXCEPT !.route = "power"].route = "power"
    BY DEF NoForm
  <2>3. req'[c].route = "power"
    BY <1>0, <1>2, <2>2 DEF RootPostRejected, Begin
  <2> QED
    BY <1>0, <2>1, <2>3, NothingDone
<1>3. CASE HandlePing(c)
  <2>1. PICK a \in Aliases :
          /\ Begin(c, [NoForm EXCEPT !.route = "ping", !.alias = a])
          /\ GetDevice(c, a)
    BY <1>3 DEF HandlePing
  <2> DEFINE f == [NoForm EXCEPT !.route = "ping", !.alias = a]
  <2>2. f.route = "ping" /\ f.alias = a
    BY DEF NoForm
  <2>3. req'[c] = f /\ pc'[c] = "get"
    BY <1>0, <2>1 DEF Begin, GetDevice, GoTo, RequestsOK
  <2> HIDE DEF f
  <2> QED
    BY <1>0, <2>2, <2>3, NothingDone
<1> QED
  BY <1>1, <1>2, <1>3 DEF PowerBegins

\* The answer of getDevice, when there is a device and when there is none.
LEMMA LookedUp ==
  ASSUME RequestsOK, NEW c \in Clients, Viewed(c), Answered(c, "get"),
         req[c].route \in {"power", "ping"}
  PROVE  /\ call[c].got.ok <=> call[c].got.dev # Nil
         /\ req[c].route = "power" => Seen(c, req[c].alias, call[c].got.dev)
         /\ call[c].got.dev \in MaybeDevice
<1>1. ResultFor(c) = call[c].got /\ call[c].at # "sending"
  BY DEF Answered, ResultFor
<1>2. call[c].got \in Reply
  BY DEF RequestsOK, RecordsTypeOK, StorageTypeOK, Call
<1> QED
  BY <1>1, <1>2 DEF Viewed, GetOK, Answered, At, Sees, Reply

\* What is sent, and to whom.
LEMMA ActsOn ==
  ASSUME PowerRecords, NEW c \in Clients, ActedOK(c), SendPacket(c) \/ TurnOffDev(c)
  PROVE  /\ acted'[c] \in Action /\ acted'[c] # Nil
         /\ acted'[c].dev = call[c].got.dev
         /\ acted'[c].do = "off" => At(c, "turnoff")
         /\ acted' \in [Clients -> Action \cup {Nil}]
<1>1. PICK w \in {"wake", "off"} : Sends(c, w) /\ (w = "off" => At(c, "turnoff"))
  BY DEF SendPacket, TurnOffDev
<1> DEFINE r == [do |-> w, dev |-> call[c].got.dev]
<1>2. call[c].got.dev \in Devices
  BY DEF ActedOK, SendPacket, TurnOffDev, At
<1>3. acted' = [acted EXCEPT ![c] = r] /\ acted \in [Clients -> Action \cup {Nil}]
  BY <1>1 DEF Sends, PowerRecords
<1>4. r \in Action /\ r.dev = call[c].got.dev /\ r.do = w
  BY <1>2 DEF Action
<1>5. acted'[c] = r
  BY <1>3
<1> HIDE DEF r
<1> QED
  BY <1>1, <1>3, <1>4, <1>5, PowerAssumption

LEMMA PingStarts ==
  ASSUME PowerRecords, NEW c \in Clients, NEW k \in P!Kinds, NEW h \in Devices, P!Begin(c, k, h)
  PROVE  /\ ping'[c] # Nil /\ ping'[c].kind = k
         /\ UNCHANGED <<heard, outcome>>
         /\ ping' \in [Clients -> [kind : P!Kinds, host : Devices] \cup {Nil}]
<1> DEFINE r == [kind |-> k, host |-> h]
<1>1. r \in [kind : P!Kinds, host : Devices] /\ r.kind = k
  OBVIOUS
<1>2. /\ ping' = [ping EXCEPT ![c] = r] /\ UNCHANGED <<heard, outcome>>
      /\ ping \in [Clients -> [kind : P!Kinds, host : Devices] \cup {Nil}]
  BY DEF P!Begin, PowerRecords, P!PingTypeOK
<1>3. ping'[c] = r
  BY <1>2
<1> HIDE DEF r
<1> QED
  BY <1>1, <1>2, <1>3, PowerAssumption

\* The pings that the two handlers ask for.
LEMMA PingsAsked ==
  ASSUME RequestsOK, PowerRecords, NEW c \in Clients, Viewed(c), PowerOK(c)
  PROVE  /\ PingHost(c) => acted[c].do \in P!Kinds /\ acted[c].dev \in Devices
         /\ CheckHealt(c) => "health" \in P!Kinds /\ call[c].got.dev \in Devices
<1>1. ASSUME PingHost(c)
      PROVE  acted[c] \in Action
  BY <1>1 DEF PingHost, PowerOK, ActedOK, PowerRecords
<1>2. ASSUME CheckHealt(c)
      PROVE  call[c].got.dev \in Devices
  BY <1>2, LookedUp DEF CheckHealt, MaybeDevice
<1> QED
  BY <1>1, <1>2 DEF Action, P!Kinds

LEMMA PowerStepOK ==
  ASSUME RequestsOK, PowerRecords, NEW c \in Clients, Accounted(c), Viewed(c), PowerOK(c), Track,
         PowerStep(c)
  PROVE  PowerOK(c)'
<1>0. /\ req' = req /\ req[c].alias \in Names /\ pc[c] \notin {"idle", "answered"}
      /\ pc \in [Clients -> AllPoints] /\ reply \in [Clients -> Status]
      /\ acted \in [Clients -> Action \cup {Nil}]
  BY DEF PowerStep, LookUp, Granted, NoDevice, HandleDeviceAction, SendPacket, TurnOffDev, Sends,
         ActionFails, PingHost, Report, CheckHealt, SetStatus, Answered, At, RequestsOK,
         RecordsTypeOK, Form, PowerRecords
<1>1. pc'[c] # "idle" => pws[c] \subseteq pws'[c] /\ was[c] \subseteq was'[c]
  BY Tracked, Watched
<1>2. CASE LookUp(c)
  <2>1. pc'[c] = "get" /\ acted' = acted /\ acted[c] = Nil /\ UNCHANGED pings
        /\ req[c].route = "power"
    BY <1>0, <1>2 DEF LookUp, GetDevice, GoTo, Granted, Answered, At, PowerOK, ActedOK
  <2> QED
    BY <1>0, <2>1, NothingDone
<1>3. CASE NoDevice(c)
  <2>1. /\ pc'[c] = "answered" /\ reply'[c] = "NotFound" /\ acted' = acted /\ acted[c] = Nil
        /\ UNCHANGED pings
    BY <1>0, <1>3 DEF NoDevice, Answer, Answered, At, PowerOK, ActedOK
  <2>2. req[c].route = "power" => Seen(c, req[c].alias, Nil)
    BY <1>3, LookedUp DEF NoDevice
  <2>3. req[c].route = "power" => req[c].alias = Empty \/ <<req[c].alias, Nil>> \in was'[c]
    BY <1>1, <2>1, <2>2 DEF Seen
  <2>4. req[c].route = "ping" => req[c].alias \in Aliases
    BY DEF PowerOK, ActedOK
  <2> QED
    BY <1>0, <2>1, <2>3, <2>4, NothingDone
<1>4. CASE HandleDeviceAction(c)
  <2>1. /\ pc'[c] \in {"wake", "turnoff"} /\ UNCHANGED pings /\ req[c].route = "power"
        /\ call' = call /\ acted' = acted /\ acted[c] = Nil
    BY <1>0, <1>4 DEF HandleDeviceAction, GoTo, Answered, At, storageVars, PowerOK, ActedOK
  <2>2. req[c].pass \in pws'[c]
    BY <1>1, <1>4, <2>1
    DEF HandleDeviceAction, Answered, Accounted, AuthorOK, Admitted, Trusted
  <2>3. call[c].got.dev \in Devices /\ <<req[c].alias, call[c].got.dev>> \in was'[c]
    BY <1>1, <1>4, <2>1, LookedUp DEF HandleDeviceAction, Seen, MaybeDevice
  <2> QED
    BY <1>0, <2>1, <2>2, <2>3 DEF PowerOK, PingedOK, ActedOK, RefusedOK, At, pings
<1>10. CASE SendPacket(c) \/ TurnOffDev(c)
  <2>1. /\ pc'[c] = "sent" /\ UNCHANGED pings /\ req[c].route = "power"
        /\ acted'[c] # Nil /\ acted'[c].dev = call[c].got.dev
    BY <1>0, <1>10, ActsOn DEF SendPacket, TurnOffDev, Sends, GoTo, At, PowerOK, ActedOK
  <2>2. /\ req[c].pass \in pws'[c]
        /\ <<req[c].alias, call[c].got.dev>> \in was'[c]
    BY <1>1, <1>10, <2>1 DEF SendPacket, TurnOffDev, At, PowerOK, ActedOK
  <2> QED
    BY <1>0, <2>1, <2>2 DEF PowerOK, PingedOK, ActedOK, RefusedOK, At, pings
<1>5. CASE ActionFails(c)
  <2>1. /\ pc'[c] = "answered" /\ reply'[c] = "BadRequest" /\ acted' = acted
        /\ acted[c] = Nil \/ acted[c].do = "off"
        /\ UNCHANGED pings
        /\ req[c].route = "power"
    BY <1>0, <1>5 DEF ActionFails, Answer, At, PowerOK, ActedOK
  <2> QED
    BY <1>0, <1>1, <2>1 DEF PowerOK, PingedOK, ActedOK, RefusedOK, At, pings
<1>6. CASE PingHost(c)
  <2>1. /\ pc'[c] = "pinging" /\ acted' = acted /\ acted[c] # Nil /\ req[c].route = "power"
        /\ outcome' = outcome /\ outcome[c] = "none" /\ ping'[c] # Nil
    BY <1>0, <1>6, PingStarts, PingsAsked
    DEF PingHost, GoTo, At, PowerOK, ActedOK, PingedOK, P!Begin, PowerRecords, Action
  <2> QED
    BY <1>0, <1>1, <2>1 DEF PowerOK, PingedOK, ActedOK, RefusedOK, At
<1>7. CASE Report(c)
  <2>1. /\ pc'[c] = "answered" /\ reply'[c] \in {"OK", "InternalError", "aborted"}
        /\ acted' = acted /\ acted[c] # Nil /\ req[c].route = "power"
        /\ ping'[c] = Nil /\ outcome'[c] = "none"
    BY <1>0, <1>7 DEF Report, Answer, At, PowerOK, ActedOK, P!Drop, PowerRecords, P!PingTypeOK
  <2> QED
    BY <1>0, <1>1, <2>1 DEF PowerOK, PingedOK, ActedOK, RefusedOK, At
<1>8. CASE CheckHealt(c)
  <2>1. /\ pc'[c] = "pinging" /\ acted' = acted /\ acted[c] = Nil /\ req[c].route = "ping"
        /\ outcome' = outcome /\ outcome[c] = "none"
        /\ ping'[c] # Nil /\ ping'[c].kind = "health"
    BY <1>0, <1>8, PingStarts, PingsAsked
    DEF CheckHealt, GoTo, Answered, At, PowerOK, ActedOK, PingedOK, P!Begin, PowerRecords, P!PingTypeOK
  <2> QED
    BY <1>0, <2>1, MessagesAssumption DEF PowerOK, PingedOK, ActedOK, RefusedOK, At
<1>9. CASE SetStatus(c)
  <2>1. /\ pc'[c] = "answered" /\ acted' = acted /\ acted[c] = Nil /\ req[c].route = "ping"
        /\ ping'[c] = Nil /\ outcome'[c] = "none"
    BY <1>0, <1>9 DEF SetStatus, Answer, At, PowerOK, ActedOK, P!Drop, PowerRecords, P!PingTypeOK
  <2> QED
    BY <1>0, <2>1 DEF PowerOK, PingedOK, ActedOK, RefusedOK, At
<1> QED
  BY <1>2, <1>3, <1>4, <1>5, <1>6, <1>7, <1>8, <1>9, <1>10 DEF PowerStep

\* The points at which a device is woken up, turned off or pinged.
PowerWork == {"wake", "turnoff", "sent", "pinging"}

LEMMA OtherMoves ==
  ASSUME RequestsOK, NEW c \in Clients, OtherBegins(c) \/ OtherStep(c) \/ PowerReturn(c)
  PROVE  pc'[c] \notin PowerWork
<1>0. /\ \A q : GoTo(c, q) => pc'[c] = q
      /\ \A s : Answer(c, s) => pc'[c] = "answered"
  BY DEF GoTo, Answer, RequestsOK
<1> USE DEF PowerWork
<1>1. CASE PowerReturn(c)
  BY <1>1 DEF PowerReturn, Return, Finish, RequestsOK
<1>2. CASE ServerBegins(c)
  BY <1>0, <1>2 DEF ServerBegins, WriteBegins, WriteRejected, Redirected, HandleRootGet,
     HandleDevicesGet, HandleDeviceGet, CheckPassword, GetAllAliases, GetDevice
<1>3. CASE ConfigBegins(c)
  BY <1>0, <1>3 DEF ConfigBegins, RejectConfig, HandleConfigInit, HandleConfigUpdate
<1>4. CASE ServerStep(c)
  BY <1>0, <1>4 DEF ServerStep, PasswordRefused, DeleteFirst, DelDevice, RegisterAtOnce,
     DeleteDone, RenameGoesOn, RegisterDone, RootListed, DevicesListed, DeviceFetched,
     DeviceGetDone, RegisterOrUpdateDevice, GetNext, GetDevice
<1>5. CASE ConfigStep(c)
  BY <1>0, <1>5 DEF ConfigStep, GetDB, OpenDB, OpenFails, InitBuckets, InitPassword,
     InitPanics, Launch, SetFlag, UpdateDone
<1> QED
  BY <1>1, <1>2, <1>3, <1>4, <1>5 DEF OtherBegins, OtherStep

\* Who comes to turn a device off has chosen to.
LEMMA OnlyChosen ==
  ASSUME RequestsOK, ListsOK, PowerRecords, [PowerSteps /\ Track]_powerVars,
         NEW d \in Clients, pc[d] # "turnoff", pc'[d] = "turnoff"
  PROVE  HandleDeviceAction(d)
<1>1. PICK c \in Clients : \/ PowerBegins(c) \/ PowerStep(c)
                           \/ OtherBegins(c) \/ OtherStep(c) \/ PowerReturn(c)
  BY DEF PowerSteps, StorageServes, Serve, StoragePanics, StorageDelivers, Deliver, PingGoesOn,
     Restart, Start, powerVars, serverVars, setupVars, requests
<1>2. c = d
  BY <1>1, PowerOthers
<1>3. /\ \A q : GoTo(d, q) => pc'[d] = q
      /\ \A s : Answer(d, s) => pc'[d] = "answered"
  BY DEF GoTo, Answer, RequestsOK
<1>4. ~PowerBegins(d)
  BY <1>3 DEF PowerBegins, HandleRootPost, RootPostRejected, HandlePing, CheckPassword, GetDevice
<1> QED
  BY <1>1, <1>2, <1>3, <1>4, OtherMoves DEF PowerWork, PowerStep, LookUp, NoDevice, GetDevice,
     SendPacket, TurnOffDev, Sends, ActionFails, PingHost, Report, CheckHealt, SetStatus

\* A step of a handler that has nothing to do with power.
LEMMA PowerOtherOK ==
  ASSUME RequestsOK, ListsOK, NEW c \in Clients, Accounted(c), PowerOK(c), Track,
         OtherBegins(c) \/ OtherStep(c) \/ PowerReturn(c), PowerRecords
  PROVE  PowerOK(c)'
<1>0. req \in [Clients -> Form] /\ reply \in [Clients -> Status] /\ UNCHANGED pings
  BY DEF RequestsOK, RecordsTypeOK, OtherBegins, OtherStep, PowerReturn
<1>1. CASE PowerReturn(c)
  <2>1. pc'[c] = "idle" /\ req'[c] = NoForm /\ acted'[c] = Nil
    BY <1>0, <1>1 DEF PowerReturn, Return, Finish, RequestsOK, PowerRecords
  <2>2. req'[c].route = "none"
    BY <2>1 DEF NoForm
  <2> QED
    BY <1>0, <2>1, <2>2, NothingDone
<1>2. CASE OtherBegins(c)
  <2>1. req'[c].route \notin {"power", "ping"} /\ acted' = acted /\ acted[c] = Nil
    <3>1. acted' = acted /\ acted[c] = Nil
      BY <1>2 DEF OtherBegins, ServerBegins, ConfigBegins, WriteBegins, WriteRejected, Redirected,
         HandleRootGet, HandleDevicesGet, HandleDeviceGet, RejectConfig, HandleConfigInit,
         HandleConfigUpdate, Begin, At, PowerOK, ActedOK
    <3>2. /\ \A f : Begin(c, f) => req'[c] = f
          /\ \A r : [NoForm EXCEPT !.route = r].route = r
          /\ \A p : ConfigForm(p).route = "config"
          /\ \A a : [NoForm EXCEPT !.route = "device", !.alias = a].route = "device"
          /\ \A f \in WriteForms : f.route \in {"manage", "post", "delete"}
      BY <1>0 DEF Begin, NoForm, ConfigForm, WriteForms, Form4
    <3>3. CASE WriteBegins(c)
      BY <3>1, <3>2, <3>3 DEF WriteBegins
    <3>4. CASE WriteRejected(c) \/ Redirected(c) \/ HandleRootGet(c) \/ HandleDevicesGet(c)
      <4>1. PICK r \in {"manage", "post", "delete", "root", "devices"} :
              Begin(c, [NoForm EXCEPT !.route = r])
        BY <3>4 DEF WriteRejected, Redirected, HandleRootGet, HandleDevicesGet
      <4>2. [NoForm EXCEPT !.route = r].route = r
        BY <3>2
      <4>3. req'[c].route = r
        BY <1>0, <4>1, <4>2 DEF Begin
      <4> QED
        BY <3>1, <4>3
    <3>5. CASE HandleDeviceGet(c)
      <4>1. PICK a \in Aliases : Begin(c, [NoForm EXCEPT !.route = "device", !.alias = a])
        BY <3>5 DEF HandleDeviceGet
      <4> DEFINE f == [NoForm EXCEPT !.route = "device", !.alias = a]
      <4>2. f.route = "device"
        BY <3>2
      <4>3. req'[c] = f
        BY <1>0, <4>1 DEF Begin
      <4> QED
        BY <3>1, <4>2, <4>3
    <3>6. CASE ConfigBegins(c)
      BY <3>1, <3>2, <3>6 DEF ConfigBegins, RejectConfig, HandleConfigInit, HandleConfigUpdate
    <3> QED
      BY <1>2, <3>3, <3>4, <3>5, <3>6 DEF OtherBegins, ServerBegins
  <2>2. pc'[c] \notin PowerWork
    BY <1>2, OtherMoves
  <2> QED
    BY <1>0, <2>1, <2>2, NothingDone DEF PowerWork
<1>3. CASE OtherStep(c)
  <2>1. /\ acted' = acted /\ req' = req /\ acted[c] = Nil
        /\ req[c].route = "ping" => req[c].alias \in Aliases
    BY <1>3 DEF OtherStep, ServerStep, PasswordRefused, DeleteFirst, RegisterAtOnce, DeleteDone,
       RenameGoesOn, RegisterDone, RootListed, DevicesListed, DeviceFetched, DeviceGetDone,
       ConfigStep, GetDB, OpenDB, OpenFails, InitBuckets, InitPassword, InitPanics, Launch,
       SetFlag, UpdateDone, Granted, Answered, At, PowerOK, ActedOK
  <2>2. /\ \A q : GoTo(c, q) => pc'[c] = q
        /\ \A s : Answer(c, s) => pc'[c] = "answered" /\ reply'[c] = s
    BY <1>0 DEF GoTo, Answer, RequestsOK
  <2>3. pc'[c] \notin PowerWork
    BY <1>3, OtherMoves
  <2>4. req[c].route = "power" /\ pc'[c] = "answered" => reply'[c] = "Unauthorized"
    <3> SUFFICES ASSUME req[c].route = "power"
                 PROVE  ServerStep(c) => PasswordRefused(c)
      BY <1>3, <2>2 DEF OtherStep, PasswordRefused, ConfigStep, GetDB, OpenDB, OpenFails,
         InitBuckets, InitPassword, InitPanics, Launch, SetFlag, UpdateDone, Answered, At,
         Accounted, RouteOK, Configuring
    <3> QED
      BY DEF ServerStep, DeleteFirst, RegisterAtOnce, DeleteDone, RenameGoesOn, RegisterDone,
         RootListed, DevicesListed, DeviceFetched, DeviceGetDone, Granted, Answered, At,
         Accounted, RouteOK, Renames
  <2> QED
    BY <1>0, <2>1, <2>3, <2>4, NothingDone DEF PowerWork
<1> QED
  BY <1>1, <1>2, <1>3
LEMMA PingGoesOnOK ==
  ASSUME PowerRecords, NEW d \in Clients, PowerOK(d), Track, PingGoesOn
  PROVE  PowerOK(d)'
<1>1. /\ pc' = pc /\ req' = req /\ reply' = reply /\ acted' = acted /\ call' = call
  BY DEF PingGoesOn, setupVars, storageVars, requests
<1>2. PingedOK(d)'
  <2>1. ASSUME NEW c \in Clients, NEW o \in {"yes", "no", "error", "aborted"}, P!End(c, o)
        PROVE  PingedOK(d)'
    <3>1. CASE d = c
      BY <1>1, <2>1, <3>1 DEF P!End, P!Pinging, PowerOK, PingedOK, At, PowerRecords,
         P!PingTypeOK
    <3>2. CASE d # c
      BY <1>1, <2>1, <3>2 DEF P!End, PowerOK, PingedOK, At, PowerRecords, P!PingTypeOK
    <3> QED
      BY <3>1, <3>2
  <2>2. ASSUME NEW h \in Devices, P!Hear(h)
        PROVE  PingedOK(d)'
    <3>1. heard[d] # {} => heard'[d] # {}
      BY <2>2 DEF P!Hear
    <3> QED
      BY <1>1, <2>2, <3>1 DEF P!Hear, PowerOK, PingedOK, At
  <2> QED
    BY <2>1, <2>2 DEF PingGoesOn, PingEnds
<1> QED
  BY <1>1, <1>2, PowerStands

LEMMA PowerForgetOK ==
  ASSUME NEW d \in Clients, Start, PowerForget
  PROVE  PowerOK(d)'
<1>1. /\ pc'[d] = "idle" /\ req'[d] = NoForm /\ acted'[d] = Nil /\ ping'[d] = Nil
      /\ outcome'[d] = "none"
  BY DEF Start, PowerForget, P!Lose
<1>2. req'[d].route = "none"
  BY <1>1 DEF NoForm
<1> QED
  BY <1>1, <1>2 DEF PowerOK, PingedOK, ActedOK, RefusedOK, At

-----------------------------------------------------------------------------
(* The invariant. *)

LEMMA PowerRecordsStep ==
  ASSUME PowerInv, [PowerSteps /\ Track]_powerVars
  PROVE  PowerRecords'
<1>0. /\ BaseOK /\ RequestsOK /\ PowerRecords /\ P!PingTypeOK
      /\ acted \in [Clients -> Action \cup {Nil}] /\ answers \in [Aliases -> SUBSET Devices]
      /\ \A c \in Clients : Accounted(c) /\ Viewed(c) /\ PowerOK(c)
  BY DEF PowerInv, BaseOK, PowerRecords
<1>1. ASSUME UNCHANGED <<cache, acted>>, P!PingTypeOK'
      PROVE  PowerRecords'
  BY <1>0, <1>1 DEF PowerRecords, cache
<1>2. ASSUME UNCHANGED pings
      PROVE  P!PingTypeOK'
  BY <1>0, <1>2 DEF pings, P!PingTypeOK
<1>3. ASSUME NEW c \in Clients, P!Drop(c)
      PROVE  P!PingTypeOK'
  BY <1>0, <1>3 DEF P!Drop, P!PingTypeOK, P!Outcomes
<1>4. ASSUME NEW c \in Clients, PowerStep(c)
      PROVE  PowerRecords'
  <2>1. CASE LookUp(c) \/ NoDevice(c) \/ HandleDeviceAction(c) \/ ActionFails(c)
    BY <1>1, <1>2, <2>1 DEF LookUp, NoDevice, HandleDeviceAction, ActionFails
  <2>2. CASE SendPacket(c) \/ TurnOffDev(c)
    <3>1. acted' \in [Clients -> Action \cup {Nil}] /\ UNCHANGED <<cache, pings>>
      BY <1>0, <2>2, ActsOn DEF SendPacket, TurnOffDev, Sends, PowerOK
    <3> QED
      BY <1>0, <1>2, <3>1 DEF PowerRecords, cache
  <2>3. CASE PingHost(c) \/ CheckHealt(c)
    <3>1. PICK k \in P!Kinds, h \in Devices : P!Begin(c, k, h)
      BY <1>0, <2>3, PingsAsked DEF PingHost, CheckHealt
    <3>2. P!PingTypeOK'
      BY <1>0, <3>1, PingStarts DEF P!PingTypeOK
    <3> QED
      BY <1>1, <2>3, <3>2 DEF PingHost, CheckHealt
  <2>4. CASE Report(c)
    BY <1>1, <1>3, <2>4 DEF Report
  <2>5. CASE SetStatus(c)
    <3>1. P!PingTypeOK' /\ acted' = acted
      BY <1>3, <2>5 DEF SetStatus
    <3>2. /\ req[c].alias \in Aliases /\ heard[c] \in SUBSET Devices
          /\ outcome[c] = "yes" => heard[c] # {}
      BY <1>0, <2>5 DEF SetStatus, PowerOK, ActedOK, PingedOK, P!PingTypeOK
    <3>3. CASE UNCHANGED cache
      BY <1>1, <3>1, <3>3
    <3>4. CASE /\ devStatus' = IF outcome[c] = "yes" THEN devStatus \cup {req[c].alias}
                                                     ELSE devStatus \ {req[c].alias}
               /\ Remember(c)
      <4>1. answers' = [answers EXCEPT ![req[c].alias] = heard[c]]
        BY <3>4 DEF Remember
      <4>2. answers' \in [Aliases -> SUBSET Devices]
        BY <1>0, <3>2, <4>1
      <4>3. devStatus' \subseteq Aliases /\ \A a \in devStatus' : answers'[a] # {}
        BY <1>0, <3>2, <3>4, <4>1 DEF PowerRecords
      <4> QED
        BY <1>0, <3>1, <4>2, <4>3 DEF PowerRecords
    <3> QED
      BY <2>5, <3>3, <3>4 DEF SetStatus
  <2> QED
    BY <1>4, <2>1, <2>2, <2>3, <2>4, <2>5 DEF PowerStep
<1>5. ASSUME NEW c \in Clients, PowerReturn(c)
      PROVE  PowerRecords'
  BY <1>0, <1>2, <1>5 DEF PowerReturn, PowerRecords, cache
<1>6. ASSUME \/ \E c \in Clients : PowerBegins(c) \/ OtherBegins(c) \/ OtherStep(c) \/ StorageServes(c)
             \/ StorageDelivers
             \/ UNCHANGED powerVars
      PROVE  UNCHANGED <<cache, acted, pings>>
  BY <1>6 DEF PowerBegins, HandleRootPost, RootPostRejected, HandlePing, OtherBegins, OtherStep,
     StorageServes, StorageDelivers, powerVars, cache
<1>7. ASSUME PingGoesOn
      PROVE  P!PingTypeOK' /\ UNCHANGED <<cache, acted>>
  <2>1. ASSUME NEW c \in Clients, NEW o \in {"yes", "no", "error", "aborted"}, P!End(c, o)
        PROVE  P!PingTypeOK'
    BY <1>0, <2>1 DEF P!End, P!PingTypeOK, P!Outcomes
  <2>2. ASSUME NEW h \in Devices, P!Hear(h)
        PROVE  P!PingTypeOK'
    BY <1>0, <2>2 DEF P!Hear, P!PingTypeOK
  <2> QED
    BY <1>7, <2>1, <2>2 DEF PingGoesOn, PingEnds
<1>8. ASSUME PowerForget
      PROVE  PowerRecords'
  BY <1>8 DEF PowerForget, PowerRecords, P!Lose, P!PingTypeOK, P!Outcomes
<1> QED
  BY <1>1, <1>2, <1>4, <1>5, <1>6, <1>7, <1>8 DEF PowerSteps

LEMMA PowerEach ==
  ASSUME PowerInv, [PowerSteps /\ Track]_powerVars, NEW d \in Clients
  PROVE  Accounted(d)' /\ Viewed(d)' /\ PowerOK(d)'
<1>0. /\ RequestsOK /\ ListsOK /\ OneInService /\ EmptyWithoutBuckets /\ PowerRecords
      /\ Accounted(d) /\ Viewed(d) /\ PowerOK(d) /\ ActedOK(d)
  BY DEF PowerInv, BaseOK, PowerOK
<1>1. ASSUME NEW c \in Clients, Track,
             \/ PowerBegins(c) \/ PowerStep(c)
             \/ OtherBegins(c) \/ OtherStep(c) \/ PowerReturn(c)
      PROVE  Accounted(d)' /\ Viewed(d)' /\ PowerOK(d)'
  <2>1. CASE d = c /\ (PowerBegins(c) \/ PowerStep(c))
    BY <1>0, <1>1, <2>1, PowerAccounted, PowerViewed, PowerBeginsOK, PowerStepOK
  <2>2. CASE d = c /\ (OtherBegins(c) \/ OtherStep(c) \/ PowerReturn(c))
    <3>1. Accounted(d)'
      BY <1>0, <1>1, <2>2, BeginsAccounted, StepAccounted, ConfigAccounted, ReturnAccounted
      DEF OtherBegins, OtherStep, PowerReturn, Return
    <3>2. Viewed(d)'
      BY <1>0, <1>1, <2>2, BeginsViewed, StepViewed, ConfigViewed, ReturnViewed
      DEF OtherBegins, OtherStep, PowerReturn
    <3> QED
      BY <1>0, <1>1, <2>2, <3>1, <3>2, PowerOtherOK
  <2>3. CASE d # c
    <3>1. /\ UNCHANGED <<cur, out>>
          /\ pc'[d] = pc[d] /\ req'[d] = req[d] /\ reply'[d] = reply[d] /\ call'[d] = call[d]
          /\ todo'[d] = todo[d] /\ page'[d] = page[d] /\ acted'[d] = acted[d]
          /\ ping'[d] = ping[d] /\ heard'[d] = heard[d] /\ outcome'[d] = outcome[d]
      BY <1>0, <1>1, <2>3, PowerOthers
    <3>2. PingedOK(d)'
      BY <1>0, <3>1 DEF PowerOK, PingedOK, At
    <3>3. Lasting
      <4>1. PowerReturn(c) => Lasting
        BY DEF PowerReturn, Return, Finish, Release, disk, Lasting
      <4> QED
        BY <1>0, <1>1, <4>1, PowerSends, BeginsSends, StepSends, ConfigLasts
        DEF OtherBegins, OtherStep, OnlyCalls, disk, Lasting
    <3> QED
      BY <1>0, <1>1, <3>1, <3>2, <3>3, OtherAccounted, OtherViewed, PowerStands
  <2> QED
    BY <1>1, <2>1, <2>2, <2>3
<1>2. ASSUME Track, StorageDelivers \/ \E c \in Clients : StorageServes(c)
      PROVE  Accounted(d)' /\ Viewed(d)' /\ PowerOK(d)'
  <2>1. /\ Deliver \/ \E c \in Clients : Serve(c) \/ StoragePanics(c)
        /\ UNCHANGED <<lists, requests, acted, pings>>
    BY <1>2 DEF StorageDelivers, StorageServes, Deliver, Serve, StoragePanics
  <2>2. PingedOK(d)'
    BY <1>0, <2>1 DEF PowerOK, PingedOK, At, pings, requests
  <2>3. pc[d] \in {"wake", "turnoff"} => call'[d] = call[d]
    <3>1. pc[d] \in {"wake", "turnoff"} => call[d].at = "idle"
      BY <1>0 DEF Accounted, CallOK, Awaiting
    <3> QED
      BY <1>0, <2>1, <3>1, IdleCallStands
  <2>4. PowerOK(d)'
    BY <1>0, <1>2, <2>1, <2>2, <2>3, PowerStands DEF requests
  <2> QED
    BY <1>0, <1>2, <2>1, <2>4, StorageAccounted, StorageViewed, PanicAccounted, PanicViewed
<1>3. ASSUME Track, PingGoesOn
      PROVE  Accounted(d)' /\ Viewed(d)' /\ PowerOK(d)'
  BY <1>0, <1>3, PingGoesOnOK, OtherAccounted, OtherViewed
  DEF PingGoesOn, setupVars, storageVars, disk, requests, lists, Lasting
<1>4. ASSUME Track, Die, Start, PowerForget
      PROVE  Accounted(d)' /\ Viewed(d)' /\ PowerOK(d)'
  <2>1. pc'[d] = "idle" /\ page'[d] = {}
    BY <1>4 DEF Start, PowerForget, Forget
  <2> QED
    BY <1>0, <1>4, <2>1, RestartAccounted, IdleViewed, PowerForgetOK
<1>5. CASE UNCHANGED powerVars
  <2>1. UNCHANGED <<setupVars, lists, history, acted, pings>>
    BY <1>5 DEF powerVars, serverVars
  <2>2. Accounted(d)'
    BY <1>0, <2>1 DEF setupVars, storageVars, disk, requests, history, Accounted, CallOK, AuthorOK,
       Admitted, Trusted, RouteOK, WroteOK, ToldByPanic, Fine, Written, Deletes, Asked, Renames,
       ResultFor, At
  <2>3. Viewed(d)'
    BY <1>0, <2>1 DEF setupVars, storageVars, disk, requests, history, lists, Viewed, NowOK, GetOK,
       ListOK, PageOK, DoneOK, Seen, NamesSeen, Covered, Known, Collected, CameAndWent, Shown,
       ResultFor, At
  <2>4. PowerOK(d)'
    BY <1>0, <2>1 DEF setupVars, storageVars, requests, history, pings, PowerOK, PingedOK, ActedOK,
       RefusedOK, At
  <2> QED
    BY <2>2, <2>3, <2>4
<1> QED
  BY <1>1, <1>2, <1>3, <1>4, <1>5 DEF PowerSteps, Restart

LEMMA PowerInvariant == PowerSpec => []PowerInv
<1>1. PowerInit => PowerInv
  <2> SUFFICES ASSUME PowerInit
               PROVE  PowerInv
    OBVIOUS
  <2>1. RequestsOK
    BY StorageTypeInit, FormTypes
    DEF PowerInit, ServerInit, SetupInit, RequestsOK, RecordsTypeOK, AllPoints, ServerPoints,
        SetupPoints, Status
  <2>2. OneInService
    BY MessagesAssumption DEF PowerInit, ServerInit, SetupInit, StorageInit, OneInService, NoCall
  <2>3. ListsOK /\ EmptyWithoutBuckets
    BY DEF PowerInit, ServerInit, SetupInit, StorageInit, ListsOK, EmptyWithoutBuckets, Registered
  <2>6. SetupInv
    BY DEF PowerInit, ServerInit, SetupInit, StorageInit, SetupInv, OneConfigurer,
           ReadyWhenInitialized, ConfigurationProgress, At, Configuring
  <2>4. PowerRecords
    BY DEF PowerInit, P!PingInit, PowerRecords, P!PingTypeOK, P!Outcomes
  <2>5. ASSUME NEW c \in Clients
        PROVE  Accounted(c) /\ Viewed(c) /\ PowerOK(c)
    <3>1. /\ pc[c] = "idle" /\ call[c].at = "idle" /\ wrote[c] = {} /\ page[c] = {} /\ was[c] = {}
          /\ req[c].route = "none" /\ acted[c] = Nil /\ ping[c] = Nil /\ outcome[c] = "none"
      BY DEF PowerInit, ServerInit, SetupInit, StorageInit, NoCall, NoForm, P!PingInit
    <3>2. Accounted(c)
      BY <3>1 DEF Accounted, CallOK, AuthorOK, Admitted, RouteOK, WroteOK, At, Awaiting, Configuring,
         Unwritten
    <3>3. Viewed(c)
      BY <3>1 DEF Viewed, NowOK, GetOK, ListOK, PageOK, DoneOK, At
    <3>4. PowerOK(c)
      BY <3>1 DEF PowerOK, PingedOK, ActedOK, RefusedOK, At
    <3> QED
      BY <3>2, <3>3, <3>4
  <2> QED
    BY <2>1, <2>2, <2>3, <2>4, <2>5, <2>6 DEF PowerInv, BaseOK
<1>2. PowerInv /\ [PowerSteps /\ Track]_powerVars => PowerInv'
  <2> SUFFICES ASSUME PowerInv, [PowerSteps /\ Track]_powerVars
               PROVE  PowerInv'
    OBVIOUS
  <2>1. BaseOK'
    BY PowerBaseStep, PowerListsStep, PowerSetupStep DEF PowerInv, BaseOK
  <2> QED
    BY <2>1, PowerRecordsStep, PowerEach DEF PowerInv
<1> QED
  BY <1>1, <1>2, PTL DEF PowerSpec

(***************************************************************************)
(* Every variable of the power and ping routes keeps its type.             *)
(***************************************************************************)
THEOREM PowerTypeCorrect == PowerSpec => []PowerTypeOK
<1>1. PowerInv => PowerTypeOK
  BY DEF PowerInv, BaseOK, RequestsOK, PowerRecords, PowerTypeOK, PowerPoints, AllPoints
<1> QED
  BY <1>1, PowerInvariant, PTL

(***************************************************************************)
(* The power and ping routes use the channels of the storage goroutine as  *)
(* Storage allows, so DeviceStore's promise stands under them as well.     *)
(***************************************************************************)
THEOREM PowerUsesStorage == PowerSpec => StorageSpec
<1>1. PowerInit => StorageInit
  BY DEF PowerInit, ServerInit, SetupInit
<1>2. PowerInv /\ [PowerSteps /\ Track]_powerVars => [StorageNext]_storageVars
  BY PowerStorageStep DEF PowerInv, BaseOK
<1> QED
  BY <1>1, <1>2, PowerInvariant, PTL DEF PowerSpec, StorageSpec

\* So with the wake, turn-off and ping handlers beside the device routes the
\* storage (handleDevices over the bbolt file) does what DeviceStore promises.
THEOREM PowerImplements == PowerSpec => ImplementsDeviceStore
  BY PowerUsesStorage, StorageImplements, PTL

(***************************************************************************)
(* The handlers ask for pings, and use their outcomes, only as Ping lets   *)
(* its callers: one at a time, and the outcome when there is one.          *)
(***************************************************************************)
THEOREM PowerUsesPing == PowerSpec => P!PingSpec
<1>1. PowerInit => P!PingInit
  BY DEF PowerInit
<1>2. PowerInv /\ [PowerSteps /\ Track]_powerVars => [P!PingNext]_(P!pingVars)
  <2> SUFFICES ASSUME PowerInv, [PowerSteps /\ Track]_powerVars
               PROVE  P!PingNext \/ UNCHANGED pings
    BY DEF pings, P!pingVars
  <2>0. /\ RequestsOK /\ ListsOK /\ PowerRecords
        /\ \A c \in Clients : Viewed(c) /\ PowerOK(c)
    BY DEF PowerInv, BaseOK
  <2>1. ASSUME NEW c \in Clients, PowerStep(c)
        PROVE  P!PingNext \/ UNCHANGED pings
    <3>1. CASE PingHost(c) \/ CheckHealt(c)
      <4>1. PICK k \in P!Kinds, h \in Devices : P!Begin(c, k, h)
        BY <2>0, <3>1, PingsAsked DEF PingHost, CheckHealt
      <4> QED
        BY <4>1 DEF P!PingNext
    <3>2. CASE Report(c) \/ SetStatus(c)
      BY <3>2 DEF Report, SetStatus, P!PingNext
    <3>3. CASE \/ LookUp(c) \/ NoDevice(c) \/ HandleDeviceAction(c) \/ SendPacket(c)
               \/ TurnOffDev(c) \/ ActionFails(c)
      BY <3>3 DEF LookUp, NoDevice, HandleDeviceAction, SendPacket, TurnOffDev, Sends, ActionFails
    <3> QED
      BY <2>1, <3>1, <3>2, <3>3 DEF PowerStep
  <2>2. ASSUME PingGoesOn
        PROVE  P!PingNext
    BY <2>2 DEF PingGoesOn, PingEnds, P!PingNext, P!Outcomes
  <2>3. ASSUME PowerForget
        PROVE  P!PingNext
    BY <2>3 DEF PowerForget, P!PingNext
  <2>4. ASSUME \/ \E c \in Clients : \/ PowerBegins(c) \/ PowerReturn(c) \/ OtherBegins(c)
                                     \/ OtherStep(c) \/ StorageServes(c)
               \/ StorageDelivers
               \/ UNCHANGED powerVars
        PROVE  UNCHANGED pings
    BY <2>4 DEF PowerBegins, HandleRootPost, RootPostRejected, HandlePing, PowerReturn,
       OtherBegins, OtherStep, StorageServes, StorageDelivers, powerVars
  <2> QED
    BY <2>1, <2>2, <2>3, <2>4 DEF PowerSteps
<1> QED
  BY <1>1, <1>2, PowerInvariant, PTL DEF PowerSpec, P!PingSpec

(***************************************************************************)
(* No packet and no turn off command for a password that was not in force  *)
(* at some moment of the request.                                          *)
(***************************************************************************)
THEOREM PowerAuthorisedHolds == PowerSpec => []PowerAuthorised
<1>1. PowerInv => PowerAuthorised
  BY DEF PowerInv, PowerOK, ActedOK, PowerAuthorised
<1> QED
  BY <1>1, PowerInvariant, PTL

(***************************************************************************)
(* The status of POST / tells whether a datagram or a command left for a   *)
(* device, but for the 400 of a turn off command, which the device may or  *)
(* may not have received; and what left went to the device that the alias  *)
(* named at some moment of the request.                                    *)
(***************************************************************************)
THEOREM PowerRepliesTruthfulHolds == PowerSpec => []PowerRepliesTruthful
<1>1. PowerInv => PowerRepliesTruthful
  BY DEF PowerInv, PowerOK, ActedOK, RefusedOK, PowerRepliesTruthful
<1> QED
  BY <1>1, PowerInvariant, PTL

(***************************************************************************)
(* The turn off command is chosen only if the ping of the alias that was   *)
(* stored last was answered by somebody, and sent only when it was chosen. *)
(***************************************************************************)
THEOREM OffNeedsAnswerHolds == PowerSpec => OffNeedsAnswer
<1> DEFINE Justified ==
      \A c \in Clients :
        /\ pc[c] # "turnoff" /\ pc'[c] = "turnoff" => answers[req[c].alias] # {}
        /\ acted[c] = Nil /\ acted'[c] # Nil /\ acted'[c].do = "off" => At(c, "turnoff")
<1>1. ASSUME PowerInv, [PowerSteps /\ Track]_powerVars
      PROVE  Justified \/ UNCHANGED powerVars
  <2>0. /\ BaseOK /\ RequestsOK /\ ListsOK /\ PowerRecords
        /\ \A c \in Clients : Accounted(c) /\ PowerOK(c)
    BY <1>1 DEF PowerInv, BaseOK
  <2>1. ASSUME NEW d \in Clients, pc[d] # "turnoff", pc'[d] = "turnoff"
        PROVE  answers[req[d].alias] # {}
    <3>1. HandleDeviceAction(d) => answers[req[d].alias] # {}
      BY <2>0, <2>1 DEF HandleDeviceAction, GoTo, RequestsOK, PowerRecords
    <3> QED
      BY <2>0, <2>1, <3>1, OnlyChosen, <1>1
  <2>2. ASSUME NEW d \in Clients, acted[d] = Nil, acted'[d] # Nil, acted'[d].do = "off",
               ~UNCHANGED powerVars
        PROVE  At(d, "turnoff")
    <3>1. PICK c \in Clients : \/ PowerBegins(c) \/ PowerStep(c)
                               \/ OtherBegins(c) \/ OtherStep(c) \/ PowerReturn(c)
      BY <1>1, <2>2 DEF PowerSteps, PowerForget, StorageServes, StorageDelivers, PingGoesOn
    <3>2. c = d
      BY <2>0, <2>2, <3>1, PowerOthers
    <3>3. SendPacket(d) \/ TurnOffDev(d)
      BY <2>0, <2>2, <3>1, <3>2 DEF PowerBegins, HandleRootPost, RootPostRejected, HandlePing,
         PowerStep, LookUp, NoDevice, HandleDeviceAction, ActionFails, PingHost, Report,
         CheckHealt, SetStatus, OtherBegins, OtherStep, PowerReturn, PowerRecords
    <3> QED
      BY <2>0, <2>2, <3>3, ActsOn DEF PowerOK
  <2> QED
    BY <2>1, <2>2
<1>2. PowerSpec => [][Justified]_powerVars
  <2> HIDE DEF Justified
  <2> QED
    BY <1>1, PowerInvariant, PTL DEF PowerSpec
<1> QED
  BY <1>2 DEF OffNeedsAnswer

-----------------------------------------------------------------------------
(***************************************************************************)
(* PowerSpec is the whole of package server: every route, the storage      *)
(* goroutine, deaths and restarts.  What the modules before it prove of    *)
(* the configuration, of the disk and of the answers they prove of a part  *)
(* of the routes; here it is proved of all of them at once.                *)
(*                                                                         *)
(* However many configurations race, among requests of every other kind,   *)
(* one gets beyond its password.                                           *)
(***************************************************************************)
THEOREM WholeOneConfigurer == PowerSpec => []OneConfigurer
  BY PowerInvariant, PTL DEF PowerInv, BaseOK, SetupInv

(***************************************************************************)
(* What initialized promises of the database, with every route.            *)
(***************************************************************************)
THEOREM WholeReadyWhenInitialized == PowerSpec => []ReadyWhenInitialized
  BY PowerInvariant, PTL DEF PowerInv, BaseOK, SetupInv

(***************************************************************************)
(* What a first configuration relies on, with every route.                 *)
(***************************************************************************)
THEOREM WholeConfigurationProgress == PowerSpec => []ConfigurationProgress
  BY PowerInvariant, PTL DEF PowerInv, BaseOK, SetupInv

(***************************************************************************)
(* Nothing is written for a request whose password was not in force at     *)
(* some moment since it began, with every route.                           *)
(***************************************************************************)
THEOREM WholeAuthorisedWrites == PowerSpec => []AuthorisedWrites
<1>1. PowerInv => AuthorisedWrites
  BY DEF PowerInv, Accounted, AuthorOK, AuthorisedWrites
<1> QED
  BY <1>1, PowerInvariant, PTL

(***************************************************************************)
(* The answers say what was committed, with every route; POST / and POST   *)
(* /ping/:alias commit nothing.                                            *)
(***************************************************************************)
THEOREM WholeRepliesTruthful == PowerSpec => []RepliesTruthful
<1>1. PowerInv => RepliesTruthful
  BY DEF PowerInv, Accounted, WroteOK, ToldByPanic, RepliesTruthful
<1> QED
  BY <1>1, PowerInvariant, PTL

(***************************************************************************)
(* The list of devices is true, with every route.                          *)
(***************************************************************************)
THEOREM WholeDevicesPageTruthful == PowerSpec => []DevicesPageTruthful
<1>1. PowerInv => DevicesPageTruthful
  BY ViewedPages DEF PowerInv
<1> QED
  BY <1>1, PowerInvariant, PTL

(***************************************************************************)
(* The other pages are true, with every route.                             *)
(***************************************************************************)
THEOREM WholeSinglePagesTruthful == PowerSpec => []SinglePagesTruthful
<1>1. PowerInv => SinglePagesTruthful
  BY ViewedPages DEF PowerInv
<1> QED
  BY <1>1, PowerInvariant, PTL

\* The steps of PowerSteps, as OnlyOwnWrites knows them.
LEMMA PowerOnlyOwnWrites ==
  ASSUME PowerInv, [PowerSteps /\ Track]_powerVars
  PROVE  PasswordKept /\ DevicesKept
<1>1. BaseOK /\ RequestsOK /\ ListsOK /\ \A c \in Clients : Accounted(c)
  BY DEF PowerInv, BaseOK
<1>2. ASSUME UNCHANGED setupVars \/ \E c \in Clients : PowerBegins(c) \/ PowerStep(c)
      PROVE  UNCHANGED disk
  BY <1>1, <1>2, PowerKeepsSetup DEF setupVars, storageVars, disk
<1>3. (\E c \in Clients : StoragePanics(c)) => UNCHANGED disk
  BY DEF StoragePanics, NilBucket
<1> QED
  BY <1>1, <1>2, <1>3, PowerOtherSteps, OnlyOwnWrites

(***************************************************************************)
(* Only a request for /config that presented the password in force         *)
(* replaces it, with every route.                                          *)
(***************************************************************************)
THEOREM WholePasswordStands == PowerSpec => PasswordStands
<1>1. PowerInv /\ [PowerSteps /\ Track]_powerVars => [PasswordKept]_setupVars
  BY PowerOnlyOwnWrites
<1> QED
  BY <1>1, PowerInvariant, PTL DEF PowerSpec, PasswordStands, PasswordKept

(***************************************************************************)
(* Only the request that names a device changes its entry, with every      *)
(* route: a wake-up, a turn off or a ping changes none.                    *)
(***************************************************************************)
THEOREM WholeDevicesStand == PowerSpec => DevicesStand
<1>1. PowerInv /\ [PowerSteps /\ Track]_powerVars => [DevicesKept]_serverVars
  BY PowerOnlyOwnWrites
<1> QED
  BY <1>1, PowerInvariant, PTL DEF PowerSpec, DevicesStand, DevicesKept

=============================================================================
