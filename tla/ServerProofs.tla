---------------------------- MODULE ServerProofs ----------------------------
(***************************************************************************)
(* Proofs about the device routes, for any requests, passwords and         *)
(* devices: the handlers use package storage only in ways StorageSpec      *)
(* allows, nothing is written for a request whose password was not in      *)
(* force while it ran, and the answers say what was committed.             *)
(***************************************************************************)
EXTENDS Server, SetupProofs

(***************************************************************************)
(* The lemmas about one step of a request are about the whole package:     *)
(* here a client may also stand at a point of the handlers of Power.       *)
(***************************************************************************)
AllPoints == ServerPoints \cup {"wake", "turnoff", "sent", "pinging"}

RequestsOK == RecordsTypeOK /\ pc \in [Clients -> AllPoints]

ServerRecordsOK == RequestsOK /\ pc \in [Clients -> ServerPoints]

\* The steps with which a device route leaves the point where it stands; no
\* such step touches what the setup keeps.
HandlerPoints == {"answered", "check", "delete", "register", "aliases", "get"}
Moves(c) == \E l \in HandlerPoints : pc' = [pc EXCEPT ![c] = l]
OnlyCalls == UNCHANGED <<disk, loop, cur, out>>

\* What no step undoes but the end of the process.
Lasting == (buckets => buckets') /\ (loop = "dying" => loop' = "dying")

-----------------------------------------------------------------------------
(* The forms and requests, and the steps as steps of the storage. *)

LEMMA RouteForms ==
  /\ WriteForms \subseteq Form
  /\ \A r \in Route : [NoForm EXCEPT !.route = r] \in Form
  /\ \A a \in Aliases : [NoForm EXCEPT !.route = "device", !.alias = a] \in Form
<1>1. NoForm \in Form
  BY FormTypes
<1>2. WriteForms \subseteq Form
  BY DEF WriteForms, Form4, Form, Route, Names, Phrases, MaybeDevice
<1>3. \A r \in Route : [NoForm EXCEPT !.route = r] \in Form
  BY <1>1 DEF Form
<1>4. \A a \in Aliases : [NoForm EXCEPT !.route = "device", !.alias = a] \in Form
  BY <1>1 DEF Form, Route, Names
<1> QED
  BY <1>2, <1>3, <1>4

LEMMA RouteRequests ==
  /\ \A p \in Phrases : [op |-> "pass", pass |-> p] \in Request
  /\ \A n \in Names : [op |-> "del", name |-> n] \in Request
  /\ \A n \in Names : [op |-> "get", name |-> n] \in Request
  /\ \A n \in Names, d \in Devices : [op |-> "add", name |-> n, dev |-> d] \in Request
  /\ [op |-> "aliases"] \in Request
  BY DEF Request, PasswordHandling, DelDev, GetDev, AliasResponse, AliasRequest

LEMMA SendTouches ==
  ASSUME NEW c \in Clients, (\E q : Send(c, q)) \/ UNCHANGED storageVars
  PROVE  OnlyCalls
  BY DEF OnlyCalls, Send, storageVars, disk

LEMMA RegisterSends ==
  ASSUME RequestsOK, NEW c \in Clients, RegisterOrUpdateDevice(c)
  PROVE  /\ StorageNext \/ UNCHANGED storageVars
         /\ OnlyCalls /\ Moves(c) /\ reply' \in [Clients -> Status]
<1>1. CASE /\ req[c].dev \in ValidDevices
           /\ Send(c, [op |-> "add", name |-> req[c].name, dev |-> req[c].dev])
           /\ GoTo(c, "register")
  <2>1. req[c].name \in Names /\ req[c].dev \in Devices
    BY <1>1, ServerAssumption DEF RequestsOK, RecordsTypeOK, Form
  <2>2. StorageNext
    BY <1>1, <2>1, RouteRequests DEF StorageNext
  <2> QED
    BY <1>1, <2>2, SendTouches DEF GoTo, Moves, RequestsOK, RecordsTypeOK, HandlerPoints
<1>2. CASE Answer(c, "aborted") /\ UNCHANGED storageVars
  BY <1>2, SendTouches DEF Answer, RequestsOK, RecordsTypeOK, Moves, HandlerPoints, Status
<1> QED
  BY <1>1, <1>2 DEF RegisterOrUpdateDevice

LEMMA GetNextSends ==
  ASSUME RequestsOK, NEW c \in Clients, NEW S \in SUBSET Aliases, NEW pg,
         GetNext(c, S, pg)
  PROVE  /\ StorageNext \/ UNCHANGED storageVars
         /\ OnlyCalls /\ Moves(c) /\ reply' \in [Clients -> Status]
<1>1. CASE S = {} /\ Answer(c, "OK") /\ UNCHANGED storageVars
  BY <1>1, SendTouches DEF Answer, RequestsOK, RecordsTypeOK, Moves, HandlerPoints, Status
<1>2. CASE \E a \in S : GetDevice(c, a)
  BY <1>2, RouteRequests, SendTouches
  DEF GetDevice, GoTo, Moves, StorageNext, Names, RequestsOK, RecordsTypeOK, HandlerPoints
<1> QED
  BY <1>1, <1>2 DEF GetNext

LEMMA BeginsSends ==
  ASSUME RequestsOK, NEW c \in Clients, ServerBegins(c)
  PROVE  /\ StorageNext \/ UNCHANGED storageVars
         /\ OnlyCalls /\ Moves(c) /\ reply' \in [Clients -> Status]
         /\ req' \in [Clients -> Form]
         /\ UNCHANGED <<boot, lists>>
<1> USE DEF RequestsOK, RecordsTypeOK
<1>1. CASE WriteBegins(c)
  <2>1. PICK f \in WriteForms : Begin(c, f) /\ CheckPassword(c, f.pass) /\ UNCHANGED <<boot, lists>>
    BY <1>1 DEF WriteBegins
  <2>2. f \in Form /\ f.pass \in Phrases
    BY RouteForms DEF Form
  <2>3. StorageNext
    BY <2>1, <2>2, RouteRequests DEF CheckPassword, StorageNext
  <2> QED
    BY <2>1, <2>2, <2>3, SendTouches DEF Begin, CheckPassword, GoTo, Moves, HandlerPoints
<1>2. CASE WriteRejected(c) \/ Redirected(c)
  <2>1. PICK r \in Route, s \in {"Unprocessable", "Redirect"} :
          /\ Begin(c, [NoForm EXCEPT !.route = r])
          /\ Answer(c, s)
          /\ UNCHANGED <<storageVars, boot, lists>>
    BY <1>2, ServerAssumption DEF WriteRejected, Redirected
  <2>2. [NoForm EXCEPT !.route = r] \in Form
    BY RouteForms
  <2> QED
    BY <2>1, <2>2, SendTouches DEF Begin, Answer, Moves, HandlerPoints, Status
<1>3. CASE HandleRootGet(c) \/ HandleDevicesGet(c)
  <2>1. PICK r \in Route :
          /\ Begin(c, [NoForm EXCEPT !.route = r])
          /\ GetAllAliases(c)
          /\ UNCHANGED <<boot, lists>>
    BY <1>3 DEF HandleRootGet, HandleDevicesGet, Route
  <2>2. [NoForm EXCEPT !.route = r] \in Form
    BY RouteForms
  <2>3. StorageNext
    BY <2>1, RouteRequests DEF GetAllAliases, StorageNext
  <2> QED
    BY <2>1, <2>2, <2>3, SendTouches DEF Begin, GetAllAliases, GoTo, Moves, HandlerPoints
<1>4. CASE HandleDeviceGet(c)
  <2>1. PICK a \in Aliases :
          /\ Begin(c, [NoForm EXCEPT !.route = "device", !.alias = a])
          /\ GetDevice(c, a)
          /\ UNCHANGED <<boot, lists>>
    BY <1>4 DEF HandleDeviceGet
  <2>2. [NoForm EXCEPT !.route = "device", !.alias = a] \in Form
    BY RouteForms
  <2>3. StorageNext
    BY <2>1, RouteRequests DEF GetDevice, StorageNext, Names
  <2> QED
    BY <2>1, <2>2, <2>3, SendTouches DEF Begin, GetDevice, GoTo, Moves, HandlerPoints
<1> QED
  BY <1>1, <1>2, <1>3, <1>4 DEF ServerBegins

ListsOK ==
  /\ todo \in [Clients -> SUBSET Aliases]
  /\ page \in [Clients -> SUBSET Entry]

LEMMA StepSends ==
  ASSUME RequestsOK, ListsOK, NEW c \in Clients, ServerStep(c)
  PROVE  /\ StorageNext \/ UNCHANGED storageVars
         /\ OnlyCalls /\ Moves(c) /\ reply' \in [Clients -> Status]
         /\ UNCHANGED <<boot, req>>
<1>0. /\ pc \in [Clients -> AllPoints] /\ reply \in [Clients -> Status]
      /\ req[c] \in Form /\ call[c].got \in Reply
  BY DEF RequestsOK, RecordsTypeOK, StorageTypeOK, Call
<1>1. CASE \/ PasswordRefused(c) \/ DeleteDone(c) \/ RegisterDone(c) \/ RootListed(c)
           \/ DeviceGetDone(c)
  <2>1. PICK s \in {"Unauthorized", "OK", "BadGateway", "aborted", "NotFound"} :
          Answer(c, s) /\ UNCHANGED <<storageVars, boot, req>>
    BY <1>1 DEF PasswordRefused, DeleteDone, RegisterDone, RootListed, DeviceGetDone
  <2> QED
    BY <1>0, <2>1, SendTouches DEF Answer, Moves, HandlerPoints, Status
<1>2. CASE DeleteFirst(c)
  <2>1. req[c].alias \in Names
    BY <1>0 DEF Form
  <2>2. StorageNext
    BY <1>2, <2>1, RouteRequests DEF DeleteFirst, DelDevice, StorageNext
  <2> QED
    BY <1>0, <1>2, <2>2, SendTouches DEF DeleteFirst, DelDevice, GoTo, Moves, HandlerPoints
<1>3. CASE RegisterAtOnce(c)
  BY <1>3, RegisterSends DEF RegisterAtOnce
<1>4. CASE RenameGoesOn(c)
  <2>1. CASE RegisterOrUpdateDevice(c)
    BY <1>4, <2>1, RegisterSends DEF RenameGoesOn
  <2>2. CASE Answer(c, "BadRequest") /\ UNCHANGED storageVars
    BY <1>0, <1>4, <2>2, SendTouches DEF RenameGoesOn, Answer, Moves, HandlerPoints, Status
  <2> QED
    BY <1>4, <2>1, <2>2 DEF RenameGoesOn
<1>5. CASE DevicesListed(c)
  <2>1. call[c].got.names \in SUBSET Aliases
    BY <1>0 DEF Reply
  <2> QED
    BY <1>5, <2>1, GetNextSends DEF DevicesListed
<1>6. CASE DeviceFetched(c)
  <2>1. todo[c] \in SUBSET Aliases
    BY DEF ListsOK
  <2> QED
    BY <1>6, <2>1, GetNextSends DEF DeviceFetched
<1> QED
  BY <1>1, <1>2, <1>3, <1>4, <1>5, <1>6 DEF ServerStep

LEMMA ServerStorageStep ==
  ASSUME ServerRecordsOK, ListsOK, [ServerNext]_serverVars
  PROVE  [StorageNext]_storageVars
<1>1. ASSUME NEW c \in Clients, ServerBegins(c) \/ RequestStep(c) \/ ConfigBegins(c)
      PROVE  StorageNext \/ UNCHANGED storageVars
  <2>1. ASSUME Finish(c)
        PROVE  StorageNext
    BY <2>1 DEF Finish, StorageNext
  <2> QED
    BY <1>1, <2>1, BeginsSends, StepSends, ConfigStorageStep
    DEF RequestStep, Return, ServerRecordsOK, RequestsOK
<1>2. ASSUME NEW c \in Clients, Serve(c) \/ StoragePanics(c)
      PROVE  StorageNext
  BY <1>2 DEF Serve, StoragePanics, StorageNext
<1>3. ASSUME Deliver \/ Restart
      PROVE  StorageNext
  BY <1>3 DEF Deliver, Restart, StorageNext
<1>4. ASSUME UNCHANGED serverVars
      PROVE  UNCHANGED storageVars
  BY <1>4 DEF serverVars, setupVars
<1> QED
  BY <1>1, <1>2, <1>3, <1>4 DEF ServerNext, Steps

\* The records of package server, with a client at one of the points P.
RecordsAt(P) ==
  /\ file \in BOOLEAN /\ db \in BOOLEAN /\ already \in BOOLEAN /\ initialized \in BOOLEAN
  /\ req \in [Clients -> Form]
  /\ reply \in [Clients -> Status]
  /\ pc \in [Clients -> P]

LEMMA RecordsKept ==
  ASSUME RequestsOK, ListsOK, NEW P, ServerPoints \subseteq P, pc \in [Clients -> P],
         \/ \E c \in Clients : \/ ServerBegins(c) \/ ServerStep(c)
                              \/ ConfigBegins(c) \/ ConfigStep(c) \/ Finish(c)
         \/ Start
         \/ UNCHANGED <<boot, requests>>
  PROVE  RecordsAt(P)'
<1> USE DEF RecordsAt
<1>a. RecordsAt(P)
  BY DEF RequestsOK, RecordsTypeOK
<1>b. \A l \in HandlerPoints : l \in P
  BY DEF HandlerPoints, ServerPoints, SetupPoints
<1>c. \A c \in Clients : Moves(c) => pc' \in [Clients -> P]
  BY <1>a, <1>b DEF Moves
<1>d. SetupPoints \subseteq P
  BY DEF ServerPoints
<1>1. ASSUME NEW c \in Clients, ServerBegins(c)
      PROVE  RecordsAt(P)'
  BY <1>1, <1>a, <1>c, BeginsSends DEF boot
<1>2. ASSUME NEW c \in Clients, ServerStep(c)
      PROVE  RecordsAt(P)'
  BY <1>2, <1>a, <1>c, StepSends DEF boot
<1>3. ASSUME NEW c \in Clients, ConfigBegins(c)
      PROVE  RecordsAt(P)'
  <2>1. PICK p \in Phrases :
          /\ Begin(c, ConfigForm(p))
          /\ GoTo(c, "getDB") \/ GoTo(c, "update") \/ Answer(c, "Unprocessable")
          /\ UNCHANGED boot
    BY <1>3 DEF ConfigBegins, RejectConfig, HandleConfigInit, HandleConfigUpdate, Phrases
  <2>2. ConfigForm(p) \in Form
    BY FormTypes
  <2> QED
    BY <1>a, <1>d, <2>1, <2>2 DEF Begin, GoTo, Answer, boot, SetupPoints, Configuring, Status
<1>4. ASSUME NEW c \in Clients, ConfigStep(c)
      PROVE  RecordsAt(P)'
  BY <1>4, <1>a, <1>d
  DEF ConfigStep, GetDB, OpenDB, OpenFails, InitBuckets, InitPassword, InitPanics, Launch,
      SetFlag, UpdateDone, GoTo, Answer, boot, SetupPoints, Configuring, Status
<1>5. ASSUME NEW c \in Clients, Finish(c)
      PROVE  RecordsAt(P)'
  BY <1>5, <1>a, <1>d, FormTypes DEF Finish, boot, SetupPoints, Status
<1>6. ASSUME Start
      PROVE  RecordsAt(P)'
  BY <1>6, <1>a, <1>d, FormTypes DEF Start, SetupPoints, Status
<1>7. ASSUME UNCHANGED <<boot, requests>>
      PROVE  RecordsAt(P)'
  BY <1>7, <1>a DEF boot, requests
<1> QED
  BY <1>1, <1>2, <1>3, <1>4, <1>5, <1>6, <1>7

LEMMA ServerRecordsStep ==
  ASSUME ServerRecordsOK, ListsOK, [ServerNext]_serverVars
  PROVE  ServerRecordsOK'
<1>1. StorageTypeOK'
  BY ServerStorageStep, StorageTypeStep DEF ServerRecordsOK, RequestsOK, RecordsTypeOK
<1>2. RecordsAt(ServerPoints)'
  BY RecordsKept DEF ServerRecordsOK, ServerNext, Steps, RequestStep, Return, Serve,
     StoragePanics, Deliver, Restart, serverVars, setupVars
<1> QED
  BY <1>1, <1>2 DEF ServerRecordsOK, RequestsOK, RecordsTypeOK, RecordsAt, AllPoints

-----------------------------------------------------------------------------
(***************************************************************************)
(* The account of a request: which call it has with the storage goroutine  *)
(* where it stands, and what has been committed on its behalf by then.     *)
(* While it runs, the password in force is among those it has seen, so the *)
(* password that was compared with the one it presents is one of them; the *)
(* write that follows may find another one in force.                       *)
(***************************************************************************)
Awaits == [check |-> "pass", delete |-> "del", register |-> "add",
           aliases |-> "aliases", get |-> "get", update |-> "update"]
Awaiting == {"check", "delete", "register", "aliases", "get", "update"}
Pages == Readers \cup {"ping"}

\* The result of the call of c, also while it is on its way.
Fine(c) == ResultFor(c).ok
Written(c, o) == IF Fine(c) THEN {o} ELSE {}

CallOK(c) ==
  /\ call[c].at # "idle" => pc[c] \in Awaiting
  /\ pc[c] \in Awaiting => call[c].q.op = Awaits[pc[c]]
  /\ At(c, "get") /\ req[c].route = "devices" => call[c].q.name \in Aliases
  /\ At(c, "delete") => call[c].q.name = req[c].alias
  /\ At(c, "register") => /\ call[c].q.name = req[c].name /\ call[c].q.dev = req[c].dev
                          /\ req[c].dev \in ValidDevices

\* Where a request stands once its password has been accepted.
Admitted(c) ==
  \/ pc[c] \in {"delete", "register"}
  \/ At(c, "get") /\ req[c].route = "power"

\* Its password was compared with the one in the database.  Who was let in by a
\* panic never gets beyond the next request it sends.
Trusted(c) == req[c].pass \in pws[c] /\ buckets

AuthorOK(c) ==
  /\ pc[c] \notin {"idle", "answered"} /\ req[c].route \notin Pages => password \in pws[c]
  /\ wrote[c] # {} => req[c].pass \in pws[c]
  /\ Admitted(c) => Trusted(c) \/ (loop = "dying" /\ call[c].at = "sending")
  /\ At(c, "check") => /\ call[c].q.pass = req[c].pass
                       /\ Fine(c) => Trusted(c) \/ loop = "dying"
  /\ At(c, "update") => call[c].q.old = req[c].pass

RouteOK(c) ==
  /\ At(c, "check") => req[c].route \in {"manage", "post", "delete", "power"}
  /\ At(c, "delete") => req[c].route = "delete" \/ Renames(c)
  /\ At(c, "register") => req[c].route \in {"manage", "post"}
  /\ At(c, "aliases") => req[c].route \in Readers
  /\ At(c, "get") => req[c].route \in Pages \cup {"power"}
  /\ pc[c] \in Configuring \cup {"update"} => req[c].route = "config"

Unwritten == {"idle", "check", "aliases", "get", "wake", "turnoff", "sent", "pinging",
              "getDB", "open", "buckets", "insert"}

WroteOK(c) ==
  /\ pc[c] \in Unwritten => wrote[c] = {}
  /\ pc[c] \in {"launch", "flag"} => wrote[c] = {"insert"}
  /\ At(c, "update") => \/ wrote[c] = Written(c, "update")
                        \/ loop = "dying" /\ wrote[c] = {}
  /\ At(c, "delete") => wrote[c] = Written(c, "del")
  /\ At(c, "register") => wrote[c] = Deletes(c) \cup Written(c, "add")
  /\ At(c, "answered") =>
       /\ reply[c] = "OK" => wrote[c] \in Asked(c) \/ ToldByPanic(c)
       /\ reply[c] = "aborted" => wrote[c] \subseteq Deletes(c)
       /\ reply[c] \notin {"OK", "aborted"} => wrote[c] = {}

Accounted(c) == CallOK(c) /\ AuthorOK(c) /\ RouteOK(c) /\ WroteOK(c)

\* What Track makes of the histories of one request.
LEMMA Tracked ==
  ASSUME NEW c \in Clients, Track
  PROVE  /\ pc'[c] = "idle" => wrote'[c] = {}
         /\ pc'[c] # "idle" => wrote'[c] = wrote[c] \cup Committed(c)
         /\ pc'[c] # "idle" => pws[c] \subseteq pws'[c]
         /\ pc'[c] # "idle" /\ pc[c] # "answered" /\ req'[c].route \notin Pages =>
              password' \in pws'[c]
  BY DEF Track, Running, Pages

LEMMA NothingCommitted ==
  ASSUME NEW c \in Clients,
         call'[c].at # "waiting" \/ call[c].at # "sending",
         pc[c] # "insert" \/ pc'[c] = "insert" \/ password' = password
  PROVE  Committed(c) = {}
  BY DEF Committed, Commits, Defines, At

LEMMA AskedFor ==
  ASSUME NEW c \in Clients
  PROVE  /\ req[c].route = "manage" => Asked(c) = {{"add"}}
         /\ req[c].route = "post" => Asked(c) = {Deletes(c) \cup {"add"}}
         /\ req[c].route = "delete" => Asked(c) = {{"del"}}
         /\ req[c].route = "config" => Asked(c) = {{"insert"}, {"update"}}
         /\ req[c].route \in Pages \cup {"power"} => Asked(c) = {{}}
  BY DEF Asked, Pages, Readers

\* A request that stands, while others move or the answer is on its way.
LEMMA Stands ==
  ASSUME NEW c \in Clients, Accounted(c), Track, Lasting,
         pc'[c] = pc[c], req'[c] = req[c], reply'[c] = reply[c],
         call'[c].q = call[c].q, call'[c].at \in {call[c].at, "idle"},
         loop = "dying" => call'[c].at = call[c].at,
         Fine(c)' = Fine(c)
  PROVE  Accounted(c)'
<1>1. Committed(c) = {}
  BY NothingCommitted
<1>2. CallOK(c)'
  BY DEF Accounted, CallOK, At
<1>3. Renames(c)' = Renames(c) /\ Deletes(c)' = Deletes(c) /\ Asked(c)' = Asked(c)
  BY DEF Renames, Deletes, Asked
<1>4. RouteOK(c)'
  BY <1>3 DEF Accounted, RouteOK, At
<1>5. CASE pc[c] = "idle"
  BY <1>5, Tracked, <1>2, <1>4 DEF Accounted, AuthorOK, Admitted, WroteOK, At, Awaiting, Unwritten
<1>6. CASE pc[c] # "idle"
  <2>1. wrote'[c] = wrote[c] /\ pws[c] \subseteq pws'[c]
    BY <1>1, <1>6, Tracked
  <2>2. AuthorOK(c)'
    BY <1>6, <2>1, Tracked DEF Accounted, AuthorOK, Admitted, Trusted, Lasting, At
  <2>3. WroteOK(c)'
    BY <1>3, <2>1 DEF Accounted, WroteOK, ToldByPanic, Lasting, At, Written
  <2> QED
    BY <1>2, <1>4, <2>2, <2>3 DEF Accounted
<1> QED
  BY <1>5, <1>6

LEMMA Sent ==
  ASSUME StorageTypeOK, NEW c \in Clients, NEW q, Send(c, q)
  PROVE  /\ call'[c].at = "sending" /\ call'[c].q = q
         /\ ~Fine(c)' /\ Committed(c) = {}
         /\ buckets' = buckets /\ loop' = loop
<1>1. call'[c] = [at |-> "sending", q |-> q, got |-> Failure]
  BY DEF Send, StorageTypeOK
<1>2. call[c].at = "idle" /\ password' = password /\ buckets' = buckets /\ loop' = loop
  BY DEF Send, disk
<1> QED
  BY <1>1, <1>2, NothingCommitted DEF Fine, ResultFor, Failure

\* A step of a request that answers it.
LEMMA AnswerAccounted ==
  ASSUME RequestsOK, NEW c \in Clients, NEW s, Answer(c, s), Accounted(c), Track,
         call'[c] = call[c], call[c].at = "idle", Lasting,
         pc[c] # "insert" \/ password' = password,
         wrote[c] # {} => req'[c].pass \in pws[c],
         s = "OK" => \/ wrote[c] \in Asked(c)'
                     \/ loop = "dying" /\ req'[c].route = "config" /\ wrote[c] = {},
         s = "aborted" => wrote[c] \subseteq Deletes(c)',
         s \notin {"OK", "aborted"} => wrote[c] = {}
  PROVE  Accounted(c)'
<1>1. pc'[c] = "answered" /\ reply'[c] = s
  BY DEF Answer, RequestsOK, RecordsTypeOK
<1>2. wrote'[c] = wrote[c] /\ pws[c] \subseteq pws'[c]
  BY <1>1, Tracked, NothingCommitted
<1> QED
  BY <1>1, <1>2
  DEF Accounted, CallOK, AuthorOK, Admitted, RouteOK, WroteOK, ToldByPanic, Lasting, At, Awaiting,
      Configuring, Unwritten

\* A step of a request that sends one more call.
LEMMA SendAccounted ==
  ASSUME RequestsOK, NEW c \in Clients, NEW q, NEW l \in Awaiting \ {"update"},
         Send(c, q), GoTo(c, l), Accounted(c), Track, pc[c] # "answered",
         q.op = Awaits[l], l = "get" /\ req'[c].route = "devices" => q.name \in Aliases,
         wrote[c] # {} => req'[c].pass \in pws[c],
         l \in {"delete", "register"} \/ (l = "get" /\ req'[c].route = "power") =>
           (req'[c].pass \in pws[c] /\ buckets) \/ loop = "dying",
         l = "check" => q.pass = req'[c].pass,
         l = "check" => req'[c].route \in {"manage", "post", "delete", "power"},
         l = "delete" => (req'[c].route = "delete" \/ Renames(c)') /\ q.name = req'[c].alias,
         l = "register" => /\ q.name = req'[c].name /\ q.dev = req'[c].dev
                           /\ q.dev \in ValidDevices,
         l = "register" => req'[c].route \in {"manage", "post"},
         l = "aliases" => req'[c].route \in Readers,
         l = "get" => req'[c].route \in Pages \cup {"power"},
         wrote[c] = IF l = "register" THEN Deletes(c)' ELSE {}
  PROVE  Accounted(c)'
<1>1. /\ call'[c].at = "sending" /\ call'[c].q = q
      /\ ~Fine(c)' /\ Committed(c) = {} /\ buckets' = buckets /\ loop' = loop
  BY Sent DEF RequestsOK, RecordsTypeOK
<1>2. pc'[c] = l /\ l \notin {"idle", "answered", "update"} /\ l \notin Configuring
  BY DEF GoTo, RequestsOK, RecordsTypeOK, Awaiting, Configuring
<1>3. wrote'[c] = wrote[c] /\ pws[c] \subseteq pws'[c]
      /\ (req'[c].route \notin Pages => password' \in pws'[c])
  BY <1>1, <1>2, Tracked
<1>4. CallOK(c)'
  BY <1>1, <1>2 DEF CallOK, At, Awaiting
<1>5. AuthorOK(c)'
  BY <1>1, <1>2, <1>3 DEF AuthorOK, Admitted, Trusted, At
<1>6. RouteOK(c)'
  BY <1>2 DEF RouteOK, At
<1>7. WroteOK(c)'
  BY <1>1, <1>2, <1>3 DEF WroteOK, At, Written, Awaiting, Unwritten
<1> QED
  BY <1>4, <1>5, <1>6, <1>7 DEF Accounted

LEMMA BeginsAccounted ==
  ASSUME RequestsOK, NEW c \in Clients, Accounted(c), Track, ServerBegins(c)
  PROVE  Accounted(c)'
<1>l. Lasting
  BY BeginsSends DEF OnlyCalls, Lasting, disk
<1>0. pc[c] = "idle" /\ call[c].at = "idle" /\ wrote[c] = {}
  BY DEF ServerBegins, WriteBegins, WriteRejected, Redirected, HandleRootGet, HandleDevicesGet,
         HandleDeviceGet, Begin, At, Accounted, CallOK, WroteOK, Awaiting, Unwritten
<1>1. CASE WriteBegins(c)
  <2>1. PICK f \in WriteForms : Begin(c, f) /\ CheckPassword(c, f.pass)
    BY <1>1 DEF WriteBegins
  <2>2. f.route \in {"manage", "post", "delete"}
    BY DEF WriteForms, Form4
  <2>3. req'[c] = f
    BY <2>1 DEF Begin, RequestsOK, RecordsTypeOK
  <2>4. Send(c, [op |-> "pass", pass |-> f.pass]) /\ GoTo(c, "check")
    BY <2>1 DEF CheckPassword
  <2> QED
    BY <1>0, <2>2, <2>3, <2>4, SendAccounted DEF Awaiting, Awaits, Pages, Readers
<1>2. CASE WriteRejected(c) \/ Redirected(c)
  <2>1. PICK s \in {"Unprocessable", "Redirect"} : Answer(c, s) /\ UNCHANGED storageVars
    BY <1>2 DEF WriteRejected, Redirected
  <2>2. call'[c] = call[c]
    BY <2>1 DEF storageVars
  <2> QED
    BY <1>l, <1>0, <2>1, <2>2, AnswerAccounted
<1>3. CASE HandleRootGet(c) \/ HandleDevicesGet(c)
  <2>1. PICK r \in Readers :
          Begin(c, [NoForm EXCEPT !.route = r]) /\ GetAllAliases(c)
    BY <1>3 DEF HandleRootGet, HandleDevicesGet, Readers
  <2>2. [NoForm EXCEPT !.route = r].route = r
    BY DEF NoForm
  <2>3. req'[c].route \in Readers
    BY <2>1, <2>2 DEF Begin, RequestsOK, RecordsTypeOK
  <2>4. Send(c, [op |-> "aliases"]) /\ GoTo(c, "aliases")
    BY <2>1 DEF GetAllAliases
  <2> QED
    BY <1>0, <2>3, <2>4, SendAccounted DEF Awaiting, Awaits, Pages, Readers
<1>4. CASE HandleDeviceGet(c)
  <2>1. PICK a \in Aliases :
          Begin(c, [NoForm EXCEPT !.route = "device", !.alias = a]) /\ GetDevice(c, a)
    BY <1>4 DEF HandleDeviceGet
  <2>2. [NoForm EXCEPT !.route = "device", !.alias = a].route = "device"
    BY DEF NoForm
  <2>3. req'[c].route \in Readers
    BY <2>1, <2>2 DEF Begin, RequestsOK, RecordsTypeOK, Readers
  <2>4. Send(c, [op |-> "get", name |-> a]) /\ GoTo(c, "get")
    BY <2>1 DEF GetDevice
  <2> QED
    BY <1>0, <2>3, <2>4, SendAccounted DEF Awaiting, Awaits, Pages, Readers
<1> QED
  BY <1>1, <1>2, <1>3, <1>4 DEF ServerBegins

\* The device is registered, or the connection is aborted.
LEMMA RegisterAccounted ==
  ASSUME RequestsOK, NEW c \in Clients, Accounted(c), Track,
         RegisterOrUpdateDevice(c), UNCHANGED req, call[c].at = "idle",
         pc[c] \notin {"insert", "answered"}, req[c].route \in {"manage", "post"},
         wrote[c] # {} => req[c].pass \in pws[c], Trusted(c) \/ loop = "dying",
         wrote[c] = Deletes(c)
  PROVE  Accounted(c)'
<1>1. Deletes(c)' = Deletes(c)
  BY DEF Deletes, Renames
<1>2. CASE /\ Send(c, [op |-> "add", name |-> req[c].name, dev |-> req[c].dev])
           /\ GoTo(c, "register") /\ req[c].dev \in ValidDevices
  BY <1>1, <1>2, SendAccounted DEF Trusted, Awaiting, Awaits, Pages, Readers
<1>3. CASE Answer(c, "aborted") /\ UNCHANGED storageVars
  BY <1>1, <1>3, AnswerAccounted DEF Lasting, storageVars
<1> QED
  BY <1>2, <1>3 DEF RegisterOrUpdateDevice

\* The next alias is looked up, or the page is complete.
LEMMA NextAccounted ==
  ASSUME RequestsOK, NEW c \in Clients, NEW S \in SUBSET Aliases, NEW pg, Accounted(c), Track,
         GetNext(c, S, pg), UNCHANGED req, call[c].at = "idle",
         pc[c] \in {"aliases", "get"}, req[c].route = "devices"
  PROVE  Accounted(c)'
<1>1. wrote[c] = {}
  BY DEF Accounted, WroteOK, Unwritten
<1>2. ASSUME NEW a \in S, GetDevice(c, a)
      PROVE  Accounted(c)'
  <2>1. Send(c, [op |-> "get", name |-> a]) /\ GoTo(c, "get")
    BY <1>2 DEF GetDevice
  <2> QED
    BY <1>1, <2>1, SendAccounted DEF Awaiting, Awaits, Pages, Readers
<1>3. CASE Answer(c, "OK") /\ UNCHANGED storageVars
  <2>1. Asked(c)' = {{}}
    BY DEF Asked
  <2> QED
    BY <1>1, <1>3, <2>1, AnswerAccounted DEF Lasting, storageVars
<1> QED
  BY <1>2, <1>3 DEF GetNext

LEMMA StepAccounted ==
  ASSUME RequestsOK, ListsOK, NEW c \in Clients, Accounted(c), Track, ServerStep(c)
  PROVE  Accounted(c)'
<1>0. call[c].at = "idle" /\ req' = req /\ pc[c] \in Awaiting \ {"update"}
      /\ pc[c] # "insert"
  BY DEF ServerStep, PasswordRefused, DeleteFirst, RegisterAtOnce, DeleteDone, RenameGoesOn,
         RegisterDone, RootListed, DevicesListed, DeviceFetched, DeviceGetDone, Granted,
         Answered, At, Awaiting
<1>l. Lasting
  BY StepSends DEF OnlyCalls, Lasting, disk
<1>1. Fine(c) = call[c].got.ok
  BY <1>0 DEF Fine, ResultFor
<1>2. Asked(c)' = Asked(c) /\ Renames(c)' = Renames(c) /\ Deletes(c)' = Deletes(c)
  BY <1>0 DEF Asked, Renames, Deletes
<1>3. CASE PasswordRefused(c)
  <2>1. wrote[c] = {} /\ Answer(c, "Unauthorized") /\ call' = call
    BY <1>3 DEF PasswordRefused, Answered, At, Accounted, WroteOK, Unwritten, storageVars
  <2> QED
    BY <1>l, <1>0, <2>1, AnswerAccounted
<1>4. CASE DeleteFirst(c)
  <2>1. At(c, "check") /\ (Trusted(c) \/ loop = "dying") /\ wrote[c] = {}
    BY <1>1, <1>4 DEF DeleteFirst, Granted, Answered, At, Accounted, AuthorOK, Admitted, WroteOK,
       Unwritten
  <2>2. Send(c, [op |-> "del", name |-> req[c].alias]) /\ GoTo(c, "delete")
    BY <1>4 DEF DeleteFirst, DelDevice
  <2>3. req[c].route = "delete" \/ Renames(c)
    BY <1>4 DEF DeleteFirst
  <2> QED
    BY <1>0, <1>2, <2>1, <2>2, <2>3, SendAccounted
    DEF Trusted, Awaiting, Awaits, Pages, Readers, At
<1>5. CASE RegisterAtOnce(c)
  <2>1. At(c, "check") /\ (Trusted(c) \/ loop = "dying") /\ wrote[c] = {}
    BY <1>1, <1>5 DEF RegisterAtOnce, Granted, Answered, At, Accounted, AuthorOK, Admitted, WroteOK,
       Unwritten
  <2>2. RegisterOrUpdateDevice(c) /\ req[c].route \in {"manage", "post"} /\ Deletes(c) = {}
    BY <1>5 DEF RegisterAtOnce, Deletes
  <2> QED
    BY <1>0, <2>1, <2>2, RegisterAccounted DEF At
<1>6. CASE DeleteDone(c)
  <2>1. /\ req[c].pass \in pws[c] /\ wrote[c] = Written(c, "del") /\ req[c].route = "delete"
    BY <1>6 DEF DeleteDone, Answered, At, Accounted, AuthorOK, Admitted, Trusted, WroteOK
  <2>2. Asked(c) = {{"del"}}
    BY <2>1, AskedFor
  <2>3. Answer(c, IF call[c].got.ok THEN "OK" ELSE "BadGateway") /\ call' = call
    BY <1>6 DEF DeleteDone, storageVars
  <2> QED
    BY <1>l, <1>0, <1>1, <1>2, <2>1, <2>2, <2>3, AnswerAccounted DEF Written
<1>7. CASE RenameGoesOn(c)
  <2>1. /\ At(c, "delete") /\ Trusted(c) /\ wrote[c] = Written(c, "del")
        /\ req[c].route = "post" /\ Renames(c)
    BY <1>7 DEF RenameGoesOn, Answered, At, Accounted, AuthorOK, Admitted, WroteOK, RouteOK
  <2>2. CASE call[c].got.ok /\ RegisterOrUpdateDevice(c)
    BY <1>0, <1>1, <2>1, <2>2, RegisterAccounted DEF Trusted, Written, Deletes, At
  <2>3. CASE ~call[c].got.ok /\ Answer(c, "BadRequest") /\ UNCHANGED storageVars
    BY <1>l, <1>0, <1>1, <2>1, <2>3, AnswerAccounted DEF Written, storageVars
  <2> QED
    BY <1>7, <2>2, <2>3 DEF RenameGoesOn
<1>8. CASE RegisterDone(c)
  <2>1. /\ req[c].pass \in pws[c] /\ wrote[c] = Deletes(c) \cup Written(c, "add")
        /\ req[c].route \in {"manage", "post"}
    BY <1>8 DEF RegisterDone, Answered, At, Accounted, AuthorOK, Admitted, Trusted, WroteOK, RouteOK
  <2>2. Asked(c) = {Deletes(c) \cup {"add"}}
    BY <2>1, AskedFor DEF Deletes, Renames
  <2>3. Answer(c, IF call[c].got.ok THEN "OK" ELSE "aborted") /\ call' = call
    BY <1>8 DEF RegisterDone, storageVars
  <2> QED
    BY <1>l, <1>0, <1>1, <1>2, <2>1, <2>2, <2>3, AnswerAccounted DEF Written
<1>9. CASE RootListed(c) \/ DeviceGetDone(c)
  <2>1. wrote[c] = {} /\ req[c].route \in Readers
    BY <1>9 DEF RootListed, DeviceGetDone, Answered, At, Accounted, WroteOK, Readers,
       Unwritten
  <2>2. Asked(c) = {{}}
    BY <2>1, AskedFor DEF Pages
  <2>3. PICK s \in {"OK", "NotFound"} : Answer(c, s) /\ call' = call
    BY <1>9 DEF RootListed, DeviceGetDone, storageVars
  <2> QED
    BY <1>l, <1>0, <1>2, <2>1, <2>2, <2>3, AnswerAccounted
<1>10. CASE DevicesListed(c)
  <2>1. call[c].got.names \in SUBSET Aliases
    BY DEF RequestsOK, RecordsTypeOK, StorageTypeOK, Call, Reply
  <2> QED
    BY <1>0, <1>10, <2>1, NextAccounted DEF DevicesListed, Answered, At
<1>11. CASE DeviceFetched(c)
  <2>1. todo[c] \in SUBSET Aliases
    BY DEF ListsOK
  <2> QED
    BY <1>0, <1>11, <2>1, NextAccounted DEF DeviceFetched, Answered, At
<1> QED
  BY <1>3, <1>4, <1>5, <1>6, <1>7, <1>8, <1>9, <1>10, <1>11 DEF ServerStep

LEMMA ConfigLasts ==
  ASSUME NEW c \in Clients, ConfigBegins(c) \/ ConfigStep(c)
  PROVE  Lasting
<1>1. CASE ConfigBegins(c)
  BY <1>1 DEF ConfigBegins, RejectConfig, HandleConfigInit, HandleConfigUpdate, Send,
              storageVars, disk, Lasting
<1>2. CASE InitBuckets(c) \/ InitPassword(c)
  BY <1>2 DEF InitBuckets, CreateBuckets, InitPassword, InsertPassword, Lasting
<1>3. CASE Launch(c)
  BY <1>3 DEF Launch, StartHandling, disk, Lasting
<1>4. CASE \/ GetDB(c) \/ OpenDB(c) \/ OpenFails(c) \/ InitPanics(c) \/ SetFlag(c)
           \/ UpdateDone(c)
  <2>1. UNCHANGED storageVars
    BY <1>4 DEF GetDB, OpenDB, OpenFails, InitPanics, SetFlag, UpdateDone
  <2> QED
    BY <2>1 DEF storageVars, disk, Lasting
<1> QED
  BY <1>1, <1>2, <1>3, <1>4 DEF ConfigStep

\* The handlers behind /config write nothing but what changes the password.
LEMMA ConfigAccounted ==
  ASSUME RequestsOK, NEW c \in Clients, Accounted(c), Track,
         ConfigBegins(c) \/ ConfigStep(c)
  PROVE  Accounted(c)'
<1>0. call[c].at = "idle" /\ pc[c] # "answered" /\ (pc[c] \in Unwritten => wrote[c] = {})
  BY DEF ConfigBegins, RejectConfig, HandleConfigInit, HandleConfigUpdate, Begin, ConfigStep,
         GetDB, OpenDB, OpenFails, InitBuckets, InitPassword, InitPanics, Launch, SetFlag,
         UpdateDone, Answered, Accounted, CallOK, WroteOK, At, Awaiting, Unwritten
<1>1. CASE HandleConfigUpdate(c)
  <2>1. PICK o \in Passwords, n \in Passwords :
          /\ Begin(c, ConfigForm(o))
          /\ Send(c, [op |-> "update", old |-> o, new |-> n])
    BY <1>1 DEF HandleConfigUpdate
  <2>2. ConfigForm(o).route = "config" /\ ConfigForm(o).pass = o
    BY DEF ConfigForm, NoForm
  <2>3. req'[c] = ConfigForm(o) /\ pc'[c] = "update" /\ wrote[c] = {}
    BY <1>0, <1>1, <2>1 DEF HandleConfigUpdate, Begin, GoTo, At, Unwritten, RequestsOK, RecordsTypeOK
  <2>4. /\ call'[c].at = "sending" /\ call'[c].q = [op |-> "update", old |-> o, new |-> n]
        /\ ~Fine(c)' /\ Committed(c) = {}
    BY <2>1, Sent DEF RequestsOK, RecordsTypeOK
  <2>5. wrote'[c] = {} /\ (req'[c].route \notin Pages => password' \in pws'[c])
    BY <1>0, <2>3, <2>4, Tracked
  <2> QED
    BY <2>2, <2>3, <2>4, <2>5
    DEF Accounted, CallOK, AuthorOK, Admitted, RouteOK, WroteOK, Written, At, Awaiting, Awaits,
        Configuring, Unwritten
<1>2. CASE RejectConfig(c)
  <2>1. ConfigForm(Empty).route = "config"
    BY DEF ConfigForm, NoForm
  <2>2. /\ req'[c].route = "config" /\ call' = call /\ password' = password
        /\ Answer(c, "Unprocessable") /\ wrote[c] = {}
    BY <1>0, <1>2, <2>1
    DEF RejectConfig, Begin, At, Unwritten, storageVars, RequestsOK, RecordsTypeOK
  <2> QED
    BY <1>0, <2>2, AnswerAccounted, ConfigLasts
<1>3. CASE \/ HandleConfigInit(c) \/ GetDB(c) \/ OpenDB(c) \/ InitBuckets(c)
           \/ InitPassword(c) \/ Launch(c)
  <2>1. /\ pc'[c] \in Configuring /\ call' = call /\ req'[c].route = "config"
    <3>1. CASE HandleConfigInit(c)
      <4>1. PICK p \in Passwords : Begin(c, ConfigForm(p))
        BY <3>1 DEF HandleConfigInit
      <4>2. ConfigForm(p).route = "config"
        BY DEF ConfigForm, NoForm
      <4> QED
        BY <3>1, <4>1, <4>2
        DEF HandleConfigInit, Begin, GoTo, storageVars, Configuring, RequestsOK, RecordsTypeOK
    <3>2. CASE \/ GetDB(c) \/ OpenDB(c) \/ InitBuckets(c) \/ InitPassword(c) \/ Launch(c)
      <4>1. pc[c] \in Configuring /\ req' = req /\ call' = call
        BY <3>2 DEF GetDB, OpenDB, InitBuckets, CreateBuckets, InitPassword, InsertPassword,
                    Launch, StartHandling, At, Configuring, storageVars
      <4>2. pc'[c] \in Configuring
        BY <3>2 DEF GetDB, OpenDB, InitBuckets, InitPassword, Launch, GoTo, Configuring,
                    RequestsOK, RecordsTypeOK
      <4> QED
        BY <4>1, <4>2 DEF Accounted, RouteOK
    <3> QED
      BY <1>3, <3>1, <3>2
  <2>2. /\ wrote'[c] = wrote[c] \cup Committed(c)
        /\ password' \in pws'[c]
    BY <1>0, <2>1, Tracked DEF Configuring, Pages, Readers
  <2>3. CASE InitPassword(c)
    <3>1. /\ At(c, "insert") /\ pc'[c] = "launch" /\ req' = req
          /\ password' # password /\ password' = req[c].pass
      <4>1. req[c].pass # Nil
        BY NilIsNoPhrase DEF RequestsOK, RecordsTypeOK, Form
      <4> QED
        BY <2>3, <4>1 DEF InitPassword, InsertPassword, GoTo, RequestsOK
    <3>2. Committed(c) = {"insert"} /\ wrote[c] = {}
      BY <1>0, <3>1 DEF Committed, Commits, Defines, At, Unwritten
    <3> QED
      BY <1>0, <2>1, <2>2, <3>1, <3>2
      DEF Accounted, CallOK, AuthorOK, Admitted, RouteOK, WroteOK, At, Awaiting, Configuring,
          Unwritten
  <2>4. CASE Launch(c)
    <3>1. /\ pc'[c] = "flag" /\ req' = req /\ Committed(c) = {}
          /\ wrote[c] = {"insert"} /\ req[c].pass \in pws[c]
      BY <2>4, NothingCommitted
      DEF Launch, StartHandling, disk, At, GoTo, RequestsOK, Accounted, AuthorOK, WroteOK
    <3>2. pws[c] \subseteq pws'[c]
      BY <3>1, Tracked
    <3> QED
      BY <1>0, <2>1, <2>2, <3>1, <3>2
      DEF Accounted, CallOK, AuthorOK, Admitted, RouteOK, WroteOK, At, Awaiting, Configuring,
          Unwritten
  <2>5. CASE HandleConfigInit(c) \/ GetDB(c) \/ OpenDB(c) \/ InitBuckets(c)
    <3>1. pc'[c] \in Unwritten /\ wrote[c] = {} /\ Committed(c) = {}
      BY <1>0, <2>5, NothingCommitted
      DEF HandleConfigInit, Begin, GetDB, OpenDB, InitBuckets, CreateBuckets, At, GoTo, RequestsOK,
          Unwritten
    <3> QED
      BY <1>0, <2>1, <2>2, <3>1
      DEF Accounted, CallOK, AuthorOK, Admitted, RouteOK, WroteOK, At, Awaiting, Configuring,
          Unwritten
  <2> QED
    BY <1>3, <2>3, <2>4, <2>5
<1>4. CASE OpenFails(c) \/ InitPanics(c) \/ SetFlag(c) \/ UpdateDone(c)
  <2>1. /\ req' = req /\ call' = call /\ password' = password
        /\ pc[c] \in Configuring \cup {"update"}
    BY <1>4 DEF OpenFails, InitPanics, SetFlag, UpdateDone, Answered, At, Configuring, storageVars,
                disk
  <2>2. /\ req[c].route = "config" /\ (wrote[c] # {} => req[c].pass \in pws[c])
        /\ Asked(c)' = {{"insert"}, {"update"}}
    BY <2>1 DEF Accounted, RouteOK, AuthorOK, Asked
  <2>3. CASE OpenFails(c) \/ InitPanics(c)
    <3>1. Answer(c, "aborted") /\ wrote[c] = {}
      BY <1>0, <2>3 DEF OpenFails, InitPanics, At, Unwritten
    <3> QED
      BY <1>0, <2>1, <2>2, <3>1, AnswerAccounted, ConfigLasts
  <2>4. CASE SetFlag(c)
    <3>1. Answer(c, "OK") /\ wrote[c] = {"insert"}
      BY <2>4 DEF SetFlag, At, Accounted, WroteOK
    <3> QED
      BY <1>0, <2>1, <2>2, <3>1, AnswerAccounted, ConfigLasts
  <2>5. CASE UpdateDone(c)
    <3>1. /\ Answer(c, IF call[c].got.ok THEN "OK" ELSE "BadGateway")
          /\ \/ wrote[c] = IF call[c].got.ok THEN {"update"} ELSE {}
             \/ loop = "dying" /\ wrote[c] = {}
      BY <1>0, <2>5 DEF UpdateDone, Answered, At, Accounted, WroteOK, Written, Fine, ResultFor
    <3> QED
      BY <1>0, <2>1, <2>2, <3>1, AnswerAccounted, ConfigLasts
  <2> QED
    BY <1>4, <2>3, <2>4, <2>5
<1> QED
  BY <1>1, <1>2, <1>3, <1>4 DEF ConfigBegins, ConfigStep

\* Where nothing runs there is nothing to account for.
LEMMA IdleAccounted ==
  ASSUME NEW c \in Clients, Track, pc'[c] = "idle", call'[c].at = "idle"
  PROVE  Accounted(c)'
  BY Tracked DEF Accounted, CallOK, AuthorOK, Admitted, RouteOK, WroteOK, At, Awaiting, Configuring,
     Unwritten

\* The request of c is received and its transaction run.
LEMMA ServeAccounted ==
  ASSUME RequestsOK, OneInService, NEW c \in Clients, Accounted(c), Track, Serve(c)
  PROVE  Accounted(c)'
<1>0. /\ StorageTypeOK /\ Handle(c) /\ pc' = pc /\ req' = req /\ reply' = reply
  BY DEF Serve, requests, RequestsOK, RecordsTypeOK
<1>1. /\ call[c].at = "sending" /\ call[c].got = Failure /\ pc[c] \in Awaiting
      /\ call[c].q.op = Awaits[pc[c]]
  BY <1>0, HandleAnswers DEF OneInService, Accounted, CallOK
<1>2. /\ call'[c].at = "waiting" /\ call'[c].q = call[c].q
  BY <1>0, <1>1, HandleAnswers DEF StorageTypeOK, Call
<1>3. ~Fine(c) /\ Fine(c)' = out'.ok
  BY <1>1, <1>2 DEF Fine, ResultFor, Failure
<1>4. Committed(c) = IF call[c].q.op \in {"add", "del", "update"} /\ Fine(c)'
                    THEN {call[c].q.op} ELSE {}
  BY <1>0, <1>1, <1>2, <1>3 DEF Committed, Commits, Defines, At
<1>5. /\ pws[c] \subseteq pws'[c]
      /\ (req[c].route \notin Pages => password' \in pws'[c])
  BY <1>0, <1>1, Tracked DEF Awaiting
<1>6. wrote'[c] = wrote[c] \cup Committed(c)
  BY <1>0, <1>1, Tracked DEF Awaiting
<1>7. CallOK(c)' /\ RouteOK(c)'
  <2>1. CallOK(c)'
    BY <1>0, <1>1, <1>2 DEF Accounted, CallOK, At
  <2>2. RouteOK(c)'
    BY <1>0 DEF Accounted, RouteOK, Renames, At
  <2> QED
    BY <2>1, <2>2
<1>8. Deletes(c)' = Deletes(c)
  BY <1>0 DEF Deletes, Renames
<1>13. loop # "dying" /\ loop' # "dying" /\ buckets /\ buckets'
  BY <1>0, HandleAnswers DEF Handle, HandlePass, HandleNewDevice, HandleGetDev, HandleDeviceDel,
     HandleUpdatePass, HandleAliasRequest, Answers
<1>9. CASE At(c, "check")
  <2>1. call[c].q.op = "pass" /\ req[c].route \notin Pages /\ wrote'[c] = {}
    BY <1>1, <1>4, <1>6, <1>9
    DEF Awaits, At, Accounted, RouteOK, WroteOK, Pages, Readers, Unwritten
  <2>2. password' = password /\ (out'.ok => password = call[c].q.pass)
    BY <1>0, <2>1 DEF Handle, HandlePass, HandleNewDevice, HandleGetDev, HandleDeviceDel,
                      HandleUpdatePass, HandleAliasRequest, Receives, Answers, Failure
  <2>3. AuthorOK(c)'
    BY <1>0, <1>2, <1>3, <1>5, <1>9, <1>13, <2>1, <2>2 DEF Accounted, AuthorOK, Admitted, Trusted, At
  <2>4. WroteOK(c)'
    BY <1>0, <1>9, <2>1 DEF WroteOK, At, Unwritten
  <2> QED
    BY <1>7, <2>3, <2>4 DEF Accounted
<1>10. CASE At(c, "delete") \/ At(c, "register")
  <2>1. wrote'[c] = wrote[c] \cup (IF Fine(c)' THEN {call[c].q.op} ELSE {})
    BY <1>1, <1>4, <1>6, <1>10 DEF Awaits, At
  <2>2. AuthorOK(c)'
    BY <1>0, <1>5, <1>10, <1>13 DEF Accounted, AuthorOK, Admitted, Trusted, At
  <2>3. wrote[c] = IF At(c, "delete") THEN {} ELSE Deletes(c)
    BY <1>3, <1>10 DEF Accounted, WroteOK, Written, At
  <2>4. call[c].q.op = IF At(c, "delete") THEN "del" ELSE "add"
    BY <1>1, <1>10 DEF At, Awaits
  <2>5. WroteOK(c)'
    BY <1>0, <1>8, <1>10, <2>1, <2>3, <2>4 DEF WroteOK, Written, At, Unwritten
  <2> QED
    BY <1>7, <2>2, <2>5 DEF Accounted
<1>11. CASE At(c, "update")
  <2>1. call[c].q.op = "update" /\ req[c].route \notin Pages /\ call[c].q.old = req[c].pass
    BY <1>1, <1>11 DEF Awaits, At, Accounted, RouteOK, AuthorOK, Pages, Readers
  <2>2. out'.ok => password = call[c].q.old
    BY <1>0, <2>1 DEF Handle, HandlePass, HandleNewDevice, HandleGetDev, HandleDeviceDel,
                      HandleUpdatePass, HandleAliasRequest, Receives, Answers, Failure
  <2>3. password \in pws[c]
    BY <1>11, <2>1 DEF Accounted, AuthorOK, Admitted, At
  <2>7. wrote'[c] = Written(c, "update")'
    BY <1>1, <1>3, <1>4, <1>6, <1>11, <1>13, <2>1 DEF At, Accounted, WroteOK, Written
  <2>4. wrote'[c] # {} => req[c].pass \in pws'[c]
    BY <1>3, <1>4, <1>5, <1>6, <2>1, <2>2, <2>3 DEF Accounted, AuthorOK, Admitted
  <2>5. AuthorOK(c)'
    BY <1>0, <1>2, <1>5, <1>11, <2>1, <2>4 DEF AuthorOK, Admitted, At
  <2>6. WroteOK(c)'
    BY <1>0, <1>11, <2>7 DEF WroteOK, At, Unwritten
  <2> QED
    BY <1>7, <2>5, <2>6 DEF Accounted
<1>12. CASE pc[c] \in {"aliases", "get"}
  <2>1. wrote'[c] = {} /\ wrote[c] = {} /\ req[c].route \in Pages \cup {"power"}
    BY <1>1, <1>4, <1>6, <1>12 DEF Awaits, Accounted, WroteOK, RouteOK, Pages, At, Unwritten
  <2>2. AuthorOK(c)'
    BY <1>0, <1>5, <1>12, <1>13, <2>1 DEF Accounted, AuthorOK, Admitted, Trusted, At
  <2>3. WroteOK(c)'
    BY <1>0, <1>12, <2>1 DEF WroteOK, At, Unwritten
  <2> QED
    BY <1>7, <2>2, <2>3 DEF Accounted
<1> QED
  BY <1>1, <1>9, <1>10, <1>11, <1>12 DEF Awaiting, At

\* What one request does leaves the others where they are.
LEMMA OthersUntouched ==
  ASSUME RequestsOK, NEW c \in Clients, NEW d \in Clients \ {c},
         ServerBegins(c) \/ RequestStep(c) \/ ConfigBegins(c)
  PROVE  /\ UNCHANGED <<cur, out>>
         /\ pc'[d] = pc[d] /\ req'[d] = req[d] /\ reply'[d] = reply[d] /\ call'[d] = call[d]
<1>0. /\ \A q : Send(c, q) => UNCHANGED <<cur, out>> /\ call'[d] = call[d]
      /\ Release(c) => UNCHANGED <<cur, out>> /\ call'[d] = call[d]
      /\ UNCHANGED storageVars => UNCHANGED <<cur, out>> /\ call'[d] = call[d]
      /\ \A l : GoTo(c, l) => pc'[d] = pc[d] /\ reply'[d] = reply[d]
      /\ \A s : Answer(c, s) => pc'[d] = pc[d] /\ reply'[d] = reply[d]
      /\ \A f : Begin(c, f) => req'[d] = req[d]
  BY DEF Send, Release, storageVars, GoTo, Answer, Begin, RequestsOK, RecordsTypeOK,
         StorageTypeOK
<1>1. CASE ServerBegins(c)
  BY <1>0, <1>1 DEF ServerBegins, WriteBegins, WriteRejected, Redirected, HandleRootGet,
     HandleDevicesGet, HandleDeviceGet, CheckPassword, GetAllAliases, GetDevice
<1>2. CASE ServerStep(c)
  <2>1. RegisterOrUpdateDevice(c) =>
          /\ UNCHANGED <<cur, out>>
          /\ pc'[d] = pc[d] /\ reply'[d] = reply[d] /\ call'[d] = call[d]
    BY <1>0 DEF RegisterOrUpdateDevice
  <2>2. \A S, pg : GetNext(c, S, pg) =>
          /\ UNCHANGED <<cur, out>>
          /\ pc'[d] = pc[d] /\ reply'[d] = reply[d] /\ call'[d] = call[d]
    BY <1>0 DEF GetNext, GetDevice
  <2> QED
    BY <1>0, <1>2, <2>1, <2>2 DEF ServerStep, PasswordRefused, DeleteFirst, DelDevice,
       RegisterAtOnce, DeleteDone, RenameGoesOn, RegisterDone, RootListed, DevicesListed,
       DeviceFetched, DeviceGetDone
<1>3. CASE ConfigBegins(c)
  BY <1>0, <1>3 DEF ConfigBegins, RejectConfig, HandleConfigInit, HandleConfigUpdate
<1>4. CASE ConfigStep(c)
  <2>1. CASE InitBuckets(c) \/ InitPassword(c) \/ Launch(c)
    BY <1>0, <2>1 DEF InitBuckets, CreateBuckets, InitPassword, InsertPassword, Launch,
       StartHandling
  <2>2. CASE \/ GetDB(c) \/ OpenDB(c) \/ OpenFails(c) \/ InitPanics(c) \/ SetFlag(c)
             \/ UpdateDone(c)
    BY <1>0, <2>2 DEF GetDB, OpenDB, OpenFails, InitPanics, SetFlag, UpdateDone
  <2> QED
    BY <1>4, <2>1, <2>2 DEF ConfigStep
<1>5. CASE Return(c)
  BY <1>0, <1>5 DEF Return, Finish, RequestsOK, RecordsTypeOK
<1> QED
  BY <1>1, <1>2, <1>3, <1>4, <1>5 DEF RequestStep

LEMMA OtherAccounted ==
  ASSUME NEW d \in Clients, Accounted(d), Track, Lasting, UNCHANGED <<cur, out>>,
         pc'[d] = pc[d], req'[d] = req[d], reply'[d] = reply[d], call'[d] = call[d]
  PROVE  Accounted(d)'
<1>1. Fine(d)' = Fine(d)
  BY DEF Fine, ResultFor
<1> QED
  BY <1>1, Stands

LEMMA ReturnAccounted ==
  ASSUME RequestsOK, NEW c \in Clients, Track, Finish(c)
  PROVE  Accounted(c)'
<1>1. pc'[c] = "idle" /\ call'[c].at = "idle"
  BY DEF Finish, Release, NoCall, RequestsOK, RecordsTypeOK, StorageTypeOK
<1> QED
  BY <1>1, IdleAccounted

\* The storage goroutine receives a request, or sends to whoever waits for it.
LEMMA StorageAccounted ==
  ASSUME RequestsOK, OneInService, NEW d \in Clients, Accounted(d), Track,
         Deliver \/ \E c \in Clients : Serve(c)
  PROVE  Accounted(d)'
<1>1. ASSUME NEW c \in Clients, Serve(c)
      PROVE  Accounted(d)'
  <2>1. CASE d = c
    BY <1>1, <2>1, ServeAccounted
  <2>2. CASE d # c
    <3>1. /\ loop = "select" /\ call' = [call EXCEPT ![c].at = "waiting"]
          /\ pc' = pc /\ req' = req /\ reply' = reply
      BY <1>1, HandleAnswers DEF Serve, requests, RequestsOK, RecordsTypeOK
    <3>4. Lasting
      BY <1>1, ServeEffect DEF RequestsOK, RecordsTypeOK, Lasting
    <3>2. call'[d] = call[d] /\ call[d].at # "waiting"
      BY <2>2, <3>1, MessagesAssumption DEF OneInService, RequestsOK, RecordsTypeOK, StorageTypeOK
    <3>3. Fine(d)' = Fine(d)
      BY <3>2 DEF Fine, ResultFor
    <3> QED
      BY <3>1, <3>2, <3>3, <3>4, Stands
  <2> QED
    BY <2>1, <2>2
<1>2. CASE Deliver
  <2>0. /\ pc' = pc /\ req' = req /\ reply' = reply
        /\ call \in [Clients -> Call] /\ out \in Reply
        /\ loop # "dying" /\ Lasting
    BY <1>2 DEF Deliver, SendAlias, SendReply, disk, Lasting, requests, RequestsOK, RecordsTypeOK,
                StorageTypeOK
  <2>1. CASE SendAlias
    <3>1. call'[d].q = call[d].q /\ call'[d].at = call[d].at /\ call'[d].got.ok = call[d].got.ok
          /\ out'.ok = out.ok
      BY <2>0, <2>1 DEF SendAlias, Call, Reply
    <3>2. Fine(d)' = Fine(d)
      BY <2>0, <3>1 DEF Fine, ResultFor, Call, Reply
    <3> QED
      BY <2>0, <3>1, <3>2, Stands
  <2>2. CASE SendReply
    <3>1. CASE d = cur
      <4>1. call[d].at = "waiting" /\ call'[d].at = "idle" /\ call'[d].q = call[d].q
            /\ call'[d].got.ok = out.ok
        BY <2>0, <2>2, <3>1 DEF SendReply, Call, Reply, OneInService
      <4>2. Fine(d)' = Fine(d)
        BY <2>0, <4>1 DEF Fine, ResultFor, Call, Reply
      <4> QED
        BY <2>0, <4>1, <4>2, Stands
    <3>2. CASE d # cur
      <4>1. call'[d] = call[d] /\ call[d].at # "waiting"
        BY <2>0, <2>2, <3>2 DEF SendReply, OneInService
      <4>2. Fine(d)' = Fine(d)
        BY <4>1 DEF Fine, ResultFor
      <4> QED
        BY <2>0, <4>1, <4>2, Stands
    <3> QED
      BY <3>1, <3>2
  <2> QED
    BY <1>2, <2>1, <2>2 DEF Deliver
<1> QED
  BY <1>1, <1>2

\* A handler panics: its client may be told of a success.
LEMMA PanicAccounted ==
  ASSUME RequestsOK, OneInService, NEW d \in Clients, Accounted(d), Track,
         NEW c \in Clients, StoragePanics(c)
  PROVE  Accounted(d)'
<1>0. /\ loop = "select" /\ loop' = "dying" /\ ~buckets /\ call[c].at = "sending"
      /\ pc' = pc /\ req' = req /\ reply' = reply /\ password' = password
      /\ UNCHANGED <<buckets, cur, out>> /\ call \in [Clients -> Call] /\ Lasting
  BY DEF StoragePanics, NilBucket, requests, disk, Lasting, RequestsOK, RecordsTypeOK, StorageTypeOK
<1>1. CASE call'[d] = call[d]
  <2>1. Fine(d)' = Fine(d)
    BY <1>0, <1>1 DEF Fine, ResultFor
  <2> QED
    BY <1>0, <1>1, <2>1, Stands
<1>2. CASE call'[d] # call[d]
  <2>1. /\ d = c /\ call[c].q.op \notin {"add", "get"}
        /\ call'[c].at = "idle" /\ call'[c].q = call[c].q
    <3>1. /\ call' = [call EXCEPT ![c].at = "idle", ![c].got = Success]
          /\ call[c].q.op \notin {"add", "get"}
      BY <1>2 DEF StoragePanics, NilBucket
    <3> QED
      BY <1>0, <1>2, <3>1 DEF Call
  <2>2. /\ pc[c] \in Awaiting /\ call[c].q.op = Awaits[pc[c]]
        /\ ~Admitted(c) /\ ~Fine(c)
    BY <1>0, <2>1 DEF Accounted, CallOK, AuthorOK, Trusted, OneInService, Fine, ResultFor, Failure
  <2>3. pc[c] \in {"check", "aliases", "update"}
    BY <2>1, <2>2 DEF Awaiting, Awaits, Admitted, At
  <2>4. Committed(c) = {}
    BY <1>0, <2>1, NothingCommitted
  <2>5. /\ wrote[c] = {} /\ wrote'[c] = {} /\ pws[c] \subseteq pws'[c]
        /\ (req[c].route \notin Pages => password' \in pws'[c])
    BY <1>0, <2>1, <2>2, <2>3, <2>4, Tracked DEF Accounted, WroteOK, Written, Unwritten, At
  <2>6. CallOK(c)' /\ RouteOK(c)'
    BY <1>0, <2>1, <2>3 DEF Accounted, CallOK, RouteOK, Renames, Awaiting, At
  <2>7. AuthorOK(c)'
    BY <1>0, <2>1, <2>3, <2>5 DEF Accounted, AuthorOK, Admitted, At
  <2>8. WroteOK(c)'
    BY <1>0, <2>3, <2>5 DEF WroteOK, Unwritten, At
  <2> QED
    BY <2>1, <2>6, <2>7, <2>8 DEF Accounted
<1> QED
  BY <1>1, <1>2

LEMMA RestartAccounted ==
  ASSUME NEW d \in Clients, Die, Start, Track
  PROVE  Accounted(d)'
<1>1. pc'[d] = "idle" /\ call'[d].at = "idle"
  BY DEF Die, Start, NoCall
<1> QED
  BY <1>1, IdleAccounted

LEMMA AccountedStep ==
  ASSUME RequestsOK, ListsOK, OneInService, \A c \in Clients : Accounted(c),
         [ServerNext]_serverVars
  PROVE  \A c \in Clients : Accounted(c)'
<1> TAKE d \in Clients
<1>1. ASSUME NEW c \in Clients, ServerBegins(c) \/ RequestStep(c) \/ ConfigBegins(c), Track
      PROVE  Accounted(d)'
  <2>1. CASE d = c
    BY <1>1, <2>1, BeginsAccounted, StepAccounted, ConfigAccounted, ReturnAccounted
    DEF RequestStep, Return
  <2>2. CASE d # c
    <3>1. Lasting
      <4>1. Return(c) => Lasting
        BY DEF Return, Finish, Release, disk, Lasting
      <4> QED
        BY <1>1, <4>1, BeginsSends, StepSends, ConfigLasts DEF RequestStep, OnlyCalls, disk, Lasting
    <3> QED
      BY <1>1, <2>2, <3>1, OthersUntouched, OtherAccounted
  <2> QED
    BY <2>1, <2>2
<1>2. ASSUME UNCHANGED serverVars
      PROVE  Accounted(d)'
  BY <1>2 DEF serverVars, setupVars, storageVars, disk, requests, history, lists, Accounted,
     CallOK, AuthorOK, Admitted, Trusted, RouteOK, WroteOK, ToldByPanic, At, Fine, ResultFor,
     Written, Deletes, Renames, Asked
<1> QED
  BY <1>1, <1>2, StorageAccounted, PanicAccounted, RestartAccounted
  DEF ServerNext, Steps, Restart

-----------------------------------------------------------------------------
(* The configuration among the other requests, and who changes the disk. *)

\* A device route changes nothing that a configuration relies on.
LEMMA RoutesKeepSetup ==
  ASSUME RequestsOK, ListsOK, SetupInv, NEW c \in Clients, ServerBegins(c) \/ ServerStep(c)
  PROVE  SetupInv'
<1>1. OnlyCalls /\ Moves(c) /\ UNCHANGED boot
  BY BeginsSends, StepSends
<1>2. \A d \in Clients : pc'[d] \in Configuring => pc'[d] = pc[d]
  BY <1>1 DEF Moves, HandlerPoints, Configuring, RequestsOK
<1> QED
  BY <1>1, <1>2, SetupInvStands DEF OnlyCalls, disk

\* Requests write to the disk only through the storage goroutine, but for the
\* first password.
LEMMA RequestsWriteNothing ==
  ASSUME RequestsOK, ListsOK, NEW c \in Clients,
         \/ ServerBegins(c) \/ ServerStep(c) \/ ConfigBegins(c) \/ ConfigStep(c) \/ Finish(c)
  PROVE  devices' = devices /\ (password # Nil => password' = password)
<1>1. CASE ServerBegins(c) \/ ServerStep(c)
  BY <1>1, BeginsSends, StepSends DEF OnlyCalls, disk
<1>2. CASE ConfigBegins(c)
  BY <1>2 DEF ConfigBegins, RejectConfig, HandleConfigInit, HandleConfigUpdate, Send,
     storageVars, disk
<1>3. CASE ConfigStep(c)
  BY <1>3 DEF ConfigStep, GetDB, OpenDB, OpenFails, InitBuckets, CreateBuckets, InitPassword,
     InsertPassword, InitPanics, Launch, StartHandling, SetFlag, UpdateDone, storageVars, disk
<1>4. CASE Finish(c)
  BY <1>4 DEF Finish, Release, disk
<1> QED
  BY <1>1, <1>2, <1>3, <1>4

\* What a request changes when it is served, and that it may.
LEMMA ServeWrites ==
  ASSUME RequestsOK, NEW c \in Clients, Accounted(c), Serve(c)
  PROVE  /\ password' # password => At(c, "update") /\ req[c].pass = password
         /\ \A a \in Aliases : devices'[a] # devices[a] =>
              /\ req[c].pass \in pws[c]
              /\ \/ At(c, "delete") /\ Removes(c, a) /\ devices'[a] = Nil
                 \/ At(c, "register") /\ Registers(c, a, devices'[a])
<1>0. /\ StorageTypeOK /\ Handle(c)
      /\ devices \in [Aliases -> MaybeDevice] /\ call[c].q \in Request
  BY HandleAnswers DEF Serve, RequestsOK, RecordsTypeOK, StorageTypeOK
<1>1. /\ call[c].at = "sending" /\ pc[c] \in Awaiting /\ call[c].q.op = Awaits[pc[c]]
      /\ loop = "select"
  BY <1>0, HandleAnswers DEF Accounted, CallOK
<1>2. CASE HandleUpdatePass(c)
  <2>1. At(c, "update")
    BY <1>1, <1>2 DEF HandleUpdatePass, Receives, Awaiting, Awaits, At
  <2> QED
    BY <1>2, <2>1 DEF HandleUpdatePass, Accounted, AuthorOK
<1>3. CASE HandleNewDevice(c)
  <2>1. /\ At(c, "register") /\ password' = password
    BY <1>1, <1>3 DEF HandleNewDevice, Receives, Awaiting, Awaits, At
  <2>2. /\ req[c].pass \in pws[c] /\ req[c].route \in {"manage", "post"}
        /\ call[c].q.name = req[c].name /\ call[c].q.dev = req[c].dev
        /\ req[c].dev \in ValidDevices
    BY <1>1, <2>1 DEF Accounted, CallOK, AuthorOK, Admitted, Trusted, RouteOK, At
  <2>3. ASSUME NEW a \in Aliases, devices'[a] # devices[a]
        PROVE  a = call[c].q.name /\ devices'[a] = call[c].q.dev
    BY <1>0, <1>3, <2>3 DEF HandleNewDevice
  <2> QED
    BY <2>1, <2>2, <2>3 DEF Registers
<1>4. CASE HandleDeviceDel(c)
  <2>1. /\ At(c, "delete") /\ password' = password
    BY <1>1, <1>4 DEF HandleDeviceDel, Receives, Awaiting, Awaits, At
  <2>2. /\ req[c].pass \in pws[c] /\ (req[c].route = "delete" \/ Renames(c))
        /\ call[c].q.name = req[c].alias
    BY <1>1, <2>1 DEF Accounted, CallOK, AuthorOK, Admitted, Trusted, RouteOK, At
  <2>3. ASSUME NEW a \in Aliases, devices'[a] # devices[a]
        PROVE  a = call[c].q.name /\ devices'[a] = Nil
    BY <1>0, <1>4, <2>3 DEF HandleDeviceDel
  <2> QED
    BY <2>1, <2>2, <2>3 DEF Removes
<1>5. CASE HandleGetDev(c) \/ HandlePass(c) \/ HandleAliasRequest(c)
  BY <1>5 DEF HandleGetDev, HandlePass, HandleAliasRequest
<1> QED
  BY <1>0, <1>2, <1>3, <1>4, <1>5 DEF Handle

\* The bodies of PasswordStands and DevicesStand.
PasswordKept ==
  password # Nil /\ password' # password =>
    \E c \in Clients : At(c, "update") /\ req[c].pass = password

DevicesKept ==
  \A a \in Aliases : devices'[a] # devices[a] =>
    \E c \in Clients :
      /\ req[c].pass \in pws[c]
      /\ \/ At(c, "delete") /\ Removes(c, a) /\ devices'[a] = Nil
         \/ At(c, "register") /\ Registers(c, a, devices'[a])

LEMMA OnlyOwnWrites ==
  ASSUME RequestsOK, ListsOK, \A c \in Clients : Accounted(c),
         \/ \E c \in Clients : \/ ServerBegins(c) \/ ServerStep(c)
                              \/ ConfigBegins(c) \/ ConfigStep(c) \/ Finish(c) \/ Serve(c)
         \/ Deliver
         \/ UNCHANGED disk
  PROVE  PasswordKept /\ DevicesKept
<1>1. ASSUME NEW c \in Clients,
             \/ ServerBegins(c) \/ ServerStep(c) \/ ConfigBegins(c) \/ ConfigStep(c) \/ Finish(c)
      PROVE  PasswordKept /\ DevicesKept
  BY <1>1, RequestsWriteNothing DEF PasswordKept, DevicesKept
<1>2. ASSUME NEW c \in Clients, Serve(c)
      PROVE  PasswordKept /\ DevicesKept
  BY <1>2, ServeWrites DEF PasswordKept, DevicesKept
<1>3. CASE Deliver \/ UNCHANGED disk
  BY <1>3 DEF Deliver, SendAlias, SendReply, disk, PasswordKept, DevicesKept
<1> QED
  BY <1>1, <1>2, <1>3

-----------------------------------------------------------------------------
(* The lists and the histories keep their types. *)

LEMMA NextListsOK ==
  ASSUME ListsOK, NEW c \in Clients, NEW S \in SUBSET Aliases, NEW pg \in SUBSET Entry,
         GetNext(c, S, pg)
  PROVE  ListsOK'
<1>1. Rendered(pg) \in SUBSET Entry
  BY DEF Rendered
<1>2. CASE page' = [page EXCEPT ![c] = Rendered(pg)] /\ UNCHANGED todo
  BY <1>1, <1>2 DEF ListsOK
<1>3. CASE \E a \in S : todo' = [todo EXCEPT ![c] = S \ {a}] /\ page' = [page EXCEPT ![c] = pg]
  BY <1>3 DEF ListsOK
<1> QED
  BY <1>2, <1>3 DEF GetNext

LEMMA ListsKept ==
  ASSUME RequestsOK, ListsOK, \A c \in Clients : Accounted(c),
         \/ \E c \in Clients : ServerBegins(c) \/ ServerStep(c) \/ Return(c)
         \/ Forget
         \/ UNCHANGED lists
  PROVE  ListsOK'
<1> USE DEF ListsOK
<1>1. ASSUME NEW c \in Clients, ServerStep(c)
      PROVE  ListsOK'
  <2>1. CASE UNCHANGED lists
    BY <2>1 DEF lists
  <2>2. CASE DevicesListed(c)
    <3>1. call[c].got.names \in SUBSET Aliases
      BY DEF RequestsOK, RecordsTypeOK, StorageTypeOK, Call, Reply
    <3>2. PICK pg \in SUBSET Entry : pg = {}
      OBVIOUS
    <3> QED
      BY <2>2, <3>1, <3>2, NextListsOK DEF DevicesListed
  <2>3. CASE DeviceFetched(c)
    <3>1. call[c].q.name \in Aliases /\ call[c].got.dev \in MaybeDevice
      BY <2>3 DEF DeviceFetched, Answered, At, Accounted, CallOK, RequestsOK, RecordsTypeOK,
                  StorageTypeOK, Call, Reply
    <3>2. page[c] \cup {<<call[c].q.name, call[c].got.dev>>} \in SUBSET Entry
      BY <3>1 DEF Entry
    <3> QED
      BY <2>3, <3>2, NextListsOK DEF DeviceFetched
  <2> QED
    BY <1>1, <2>1, <2>2, <2>3
    DEF ServerStep, PasswordRefused, DeleteFirst, RegisterAtOnce, DeleteDone, RenameGoesOn,
        RegisterDone, RootListed, DeviceGetDone
<1>2. ASSUME NEW c \in Clients, Return(c)
      PROVE  ListsOK'
  BY <1>2 DEF Return
<1>3. CASE Forget
  BY <1>3 DEF Forget
<1>4. CASE UNCHANGED lists
  BY <1>4 DEF lists
<1>5. ASSUME NEW c \in Clients, ServerBegins(c)
      PROVE  UNCHANGED lists
  BY <1>5, BeginsSends
<1> QED
  BY <1>1, <1>2, <1>3, <1>4, <1>5

LEMMA ListsStep ==
  ASSUME RequestsOK, ListsOK, \A c \in Clients : Accounted(c), [ServerNext]_serverVars
  PROVE  ListsOK'
  BY ListsKept DEF ServerNext, Steps, RequestStep, serverVars

\* What one request does leaves the lists of the others as they are.
LEMMA ListsUntouched ==
  ASSUME RequestsOK, ListsOK, NEW c \in Clients, NEW d \in Clients \ {c},
         ServerBegins(c) \/ RequestStep(c)
  PROVE  todo'[d] = todo[d] /\ page'[d] = page[d]
<1>1. CASE ServerBegins(c)
  BY <1>1, BeginsSends DEF lists
<1>2. CASE ServerStep(c)
  BY <1>2 DEF ServerStep, PasswordRefused, DeleteFirst, RegisterAtOnce, DeleteDone, RenameGoesOn,
     RegisterDone, RootListed, DevicesListed, DeviceFetched, DeviceGetDone, GetNext, lists, ListsOK
<1>3. CASE Return(c)
  BY <1>3 DEF Return, ListsOK
<1>4. CASE UNCHANGED lists
  BY <1>4 DEF lists
<1> QED
  BY <1>1, <1>2, <1>3, <1>4 DEF RequestStep

\* Where a list is collected.
Shaped(c) ==
  /\ todo[c] # {} => At(c, "get") /\ req[c].route = "devices"
  /\ page[c] # {} => pc[c] \in {"get", "answered"} /\ req[c].route = "devices"

LEMMA ShapeStands ==
  ASSUME NEW c \in Clients, Shaped(c), todo'[c] = todo[c], page'[c] = page[c],
         \/ pc'[c] = pc[c] /\ req'[c] = req[c]
         \/ pc[c] \notin {"get", "answered"}
         \/ req[c].route # "devices"
  PROVE  Shaped(c)'
  BY DEF Shaped, At

LEMMA NextShaped ==
  ASSUME RequestsOK, ListsOK, NEW c \in Clients, NEW S, NEW pg, GetNext(c, S, pg),
         req[c].route = "devices", req' = req, S = {} => todo[c] = {}
  PROVE  Shaped(c)'
<1>1. CASE Answer(c, "OK") /\ todo' = todo /\ S = {}
  BY <1>1 DEF Answer, Shaped, RequestsOK, RecordsTypeOK, At
<1>2. CASE \E a \in S : GetDevice(c, a)
  BY <1>2 DEF GetDevice, GoTo, Shaped, RequestsOK, RecordsTypeOK, At
<1> QED
  BY <1>1, <1>2 DEF GetNext

LEMMA ShapeStep ==
  ASSUME RequestsOK, ListsOK, \A c \in Clients : Shaped(c), [ServerNext]_serverVars
  PROVE  \A c \in Clients : Shaped(c)'
<1> TAKE d \in Clients
<1>1. ASSUME NEW c \in Clients,
             ServerBegins(c) \/ RequestStep(c) \/ (ConfigBegins(c) /\ UNCHANGED lists)
      PROVE  Shaped(d)'
  <2>1. CASE d # c
    <3>1. todo'[d] = todo[d] /\ page'[d] = page[d]
      BY <1>1, <2>1, ListsUntouched DEF lists
    <3> QED
      BY <1>1, <2>1, <3>1, OthersUntouched, ShapeStands
  <2>2. CASE d = c /\ (DevicesListed(c) \/ DeviceFetched(c))
    BY <2>2, NextShaped DEF DevicesListed, DeviceFetched, Answered, Shaped, At
  <2>3. CASE d = c /\ Return(c)
    BY <2>3 DEF Return, Finish, Shaped, At, ListsOK
  <2>4. CASE d = c /\ UNCHANGED lists /\ pc[c] \notin {"get", "answered"}
    BY <2>4, ShapeStands DEF lists
  <2>5. CASE d = c /\ DeviceGetDone(c)
    BY <2>5, ShapeStands DEF DeviceGetDone, lists
  <2>6. CASE ServerBegins(c) \/ (ConfigBegins(c) /\ UNCHANGED lists)
    <3>1. pc[c] = "idle"
      BY <2>6 DEF ServerBegins, WriteBegins, WriteRejected, Redirected, HandleRootGet,
         HandleDevicesGet, HandleDeviceGet, ConfigBegins, RejectConfig, HandleConfigInit,
         HandleConfigUpdate, Begin, At
    <3> QED
      BY <2>1, <2>4, <2>6, <3>1, BeginsSends
  <2>7. CASE ConfigStep(c) /\ UNCHANGED lists
    <3>1. pc[c] \notin {"get", "answered"}
      BY <2>7 DEF ConfigStep, GetDB, OpenDB, OpenFails, InitBuckets, InitPassword, InitPanics,
         Launch, SetFlag, UpdateDone, Answered, At
    <3> QED
      BY <2>1, <2>4, <2>7, <3>1
  <2>8. CASE \/ PasswordRefused(c) \/ DeleteFirst(c) \/ RegisterAtOnce(c) \/ DeleteDone(c)
             \/ RenameGoesOn(c) \/ RegisterDone(c) \/ RootListed(c)
    <3>1. pc[c] \notin {"get", "answered"} /\ UNCHANGED lists
      BY <2>8 DEF PasswordRefused, DeleteFirst, RegisterAtOnce, DeleteDone, RenameGoesOn,
         RegisterDone, RootListed, Granted, Answered, At
    <3> QED
      BY <2>1, <2>4, <3>1
  <2> QED
    BY <1>1, <2>1, <2>2, <2>3, <2>5, <2>6, <2>7, <2>8 DEF RequestStep, ServerStep
<1>2. ASSUME UNCHANGED <<requests, lists>>
      PROVE  Shaped(d)'
  BY <1>2, ShapeStands DEF requests, lists
<1>3. ASSUME Forget
      PROVE  Shaped(d)'
  BY <1>3 DEF Forget, Shaped
<1>4. CASE \/ \E c \in Clients : (Serve(c) \/ StoragePanics(c)) /\ UNCHANGED lists
           \/ (Deliver /\ UNCHANGED lists)
           \/ UNCHANGED serverVars
  <2>1. UNCHANGED <<requests, lists>>
    BY <1>4 DEF Serve, StoragePanics, Deliver, serverVars, setupVars
  <2> QED
    BY <1>2, <2>1
<1> QED
  BY <1>1, <1>3, <1>4 DEF ServerNext, Steps

HistoryOK ==
  /\ was \in [Clients -> SUBSET Entry]
  /\ pws \in [Clients -> SUBSET (Phrases \cup {Nil})]
  /\ wrote \in [Clients -> SUBSET Writes]

LEMMA HistoryStep ==
  ASSUME RequestsOK, RequestsOK', HistoryOK, [ServerNext]_serverVars
  PROVE  HistoryOK'
<1> USE DEF HistoryOK
<1>1. CASE Track
  <2>1. \A a \in Aliases : <<a, devices'[a]>> \in Entry
    BY DEF Entry, RequestsOK, RecordsTypeOK, StorageTypeOK
  <2>2. password' \in Phrases \cup {Nil}
    BY DEF RequestsOK, RecordsTypeOK, StorageTypeOK
  <2>3. was' \in [Clients -> SUBSET Entry]
    <3>1. \A c \in Clients : {<<a, devices'[a]>> : a \in Aliases} \subseteq Entry
      BY <2>1
    <3> DEFINE E == {<<a, devices'[a]>> : a \in Aliases}
    <3>2. E \subseteq Entry
      BY <2>1
    <3>3. was' = [c \in Clients |->
                    IF Running(c) /\ req'[c].route \in Readers \cup {"power"}
                    THEN was[c] \cup E
                    ELSE IF pc'[c] = "idle" THEN {} ELSE was[c]]
      BY <1>1 DEF Track
    <3> HIDE DEF E
    <3> QED
      BY <3>2, <3>3
  <2>4. pws' \in [Clients -> SUBSET (Phrases \cup {Nil})]
    BY <1>1, <2>2 DEF Track
  <2>5. wrote' \in [Clients -> SUBSET Writes]
    <3>1. \A c \in Clients : Committed(c) \in SUBSET Writes
      BY DEF Committed, Commits, Writes
    <3> QED
      BY <1>1, <3>1 DEF Track
  <2> QED
    BY <2>3, <2>4, <2>5
<1>2. CASE UNCHANGED serverVars
  BY <1>2 DEF serverVars, history
<1> QED
  BY <1>1, <1>2 DEF ServerNext

(***************************************************************************)
(* The inductive invariant: the types, the discipline of the channels from *)
(* StorageProofs, what SetupProofs says of configurations, and the account *)
(* of every request.                                                       *)
(***************************************************************************)
ServerInv ==
  /\ ServerRecordsOK /\ ListsOK /\ HistoryOK
  /\ OneInService
  /\ SetupInv
  /\ \A c \in Clients : Accounted(c) /\ Shaped(c)

LEMMA ServerInvariant == ServerSpec => []ServerInv
<1>1. ServerInit => ServerInv
  <2> SUFFICES ASSUME ServerInit
               PROVE  ServerInv
    OBVIOUS
  <2>1. ServerRecordsOK
    BY StorageTypeInit, FormTypes
    DEF ServerInit, SetupInit, ServerRecordsOK, RequestsOK, RecordsTypeOK, AllPoints, ServerPoints, SetupPoints, Status
  <2>2. OneInService
    BY MessagesAssumption DEF ServerInit, SetupInit, StorageInit, OneInService, NoCall
  <2>3. \A c \in Clients : Accounted(c) /\ Shaped(c)
    BY DEF ServerInit, SetupInit, StorageInit, NoCall, Accounted, CallOK, AuthorOK, Admitted, RouteOK,
           WroteOK, At, Awaiting, Configuring, Unwritten, Shaped
  <2>4. ListsOK /\ HistoryOK
    BY DEF ServerInit, ListsOK, HistoryOK
  <2>5. SetupInv
    BY DEF ServerInit, SetupInit, StorageInit, SetupInv, OneConfigurer, ReadyWhenInitialized,
           ConfigurationProgress, At, Configuring
  <2> QED
    BY <2>1, <2>2, <2>3, <2>4, <2>5 DEF ServerInv
<1>2. ServerInv /\ [ServerNext]_serverVars => ServerInv'
  <2> SUFFICES ASSUME ServerInv, [ServerNext]_serverVars
               PROVE  ServerInv'
    OBVIOUS
  <2>1. ServerRecordsOK' /\ ListsOK' /\ HistoryOK'
    BY ServerRecordsStep, ListsStep, HistoryStep DEF ServerInv, ServerRecordsOK
  <2>2. OneInService'
    BY ServerStorageStep, ServiceStep DEF ServerInv, ServerRecordsOK, RequestsOK, RecordsTypeOK
  <2>3. \A c \in Clients : Accounted(c)' /\ Shaped(c)'
    BY AccountedStep, ShapeStep DEF ServerInv, ServerRecordsOK
  <2>4. SetupInv'
    <3>0. RequestsOK /\ RecordsTypeOK /\ pc \in [Clients -> AllPoints] /\ ListsOK /\ SetupInv
      BY DEF ServerInv, ServerRecordsOK, RequestsOK
    <3>1. CASE \E c \in Clients : ServerBegins(c) \/ ServerStep(c)
      BY <3>0, <3>1, RoutesKeepSetup
    <3>2. CASE \/ \E c \in Clients : \/ ConfigBegins(c) \/ ConfigStep(c) \/ Finish(c)
                                     \/ Serve(c) \/ StoragePanics(c)
               \/ Deliver
               \/ Start /\ UNCHANGED disk
      BY <3>0, <3>2, SetupInvStep
    <3>3. CASE UNCHANGED serverVars
      BY <3>0, <3>3, SetupInvStands DEF serverVars, setupVars, storageVars, disk, requests
    <3> QED
      BY <3>1, <3>2, <3>3 DEF ServerNext, Steps, RequestStep, Return, Restart, Die
  <2> QED
    BY <2>1, <2>2, <2>3, <2>4 DEF ServerInv
<1> QED
  BY <1>1, <1>2, PTL DEF ServerSpec

(***************************************************************************)
(* Every variable of the device routes keeps its type.                     *)
(***************************************************************************)
THEOREM ServerTypeCorrect == ServerSpec => []ServerTypeOK
<1>1. ServerInv => ServerTypeOK
  BY DEF ServerInv, ServerRecordsOK, RequestsOK, ListsOK, HistoryOK, Shaped, ServerTypeOK
<1> QED
  BY <1>1, ServerInvariant, PTL

(***************************************************************************)
(* The device routes use the channels of the storage goroutine as Storage  *)
(* allows, so the storage keeps what DeviceStore promises under them.      *)
(***************************************************************************)
THEOREM ServerUsesStorage == ServerSpec => StorageSpec
<1>1. ServerInit => StorageInit
  BY DEF ServerInit, SetupInit
<1>2. ServerInv /\ [ServerNext]_serverVars => [StorageNext]_storageVars
  BY ServerStorageStep DEF ServerInv
<1> QED
  BY <1>1, <1>2, ServerInvariant, PTL DEF ServerSpec, StorageSpec

\* So with the web server's device routes as its clients the storage
\* (handleDevices over the bbolt file) does what DeviceStore promises.
THEOREM ServerImplements == ServerSpec => ImplementsDeviceStore
  BY ServerUsesStorage, StorageImplements, PTL

(***************************************************************************)
(* The check of a password and the write it admits are two calls, with     *)
(* changes of the password in between; still nothing is written for a      *)
(* request whose password was not in force at some moment since it began.  *)
(***************************************************************************)
THEOREM AuthorisedWritesHolds == ServerSpec => []AuthorisedWrites
<1>1. ServerInv => AuthorisedWrites
  BY DEF ServerInv, Accounted, AuthorOK, AuthorisedWrites
<1> QED
  BY <1>1, ServerInvariant, PTL

(***************************************************************************)
(* After OK everything that was asked for is committed, after an error     *)
(* page nothing is, in whatever order the steps of requests interleave;    *)
(* the only answer that says more than was done is the success that        *)
(* /config gives when the storage goroutine closed its channel while it    *)
(* panicked over a database without buckets, and the process still lived.  *)
(***************************************************************************)
THEOREM RepliesTruthfulHolds == ServerSpec => []RepliesTruthful
<1>1. ServerInv => RepliesTruthful
  BY DEF ServerInv, Accounted, WroteOK, ToldByPanic, RepliesTruthful
<1> QED
  BY <1>1, ServerInvariant, PTL

\* The steps of ServerNext, as OnlyOwnWrites knows them.
LEMMA ServerOnlyOwnWrites ==
  ASSUME ServerInv, [ServerNext]_serverVars
  PROVE  PasswordKept /\ DevicesKept
<1>1. RequestsOK /\ ListsOK /\ \A c \in Clients : Accounted(c)
  BY DEF ServerInv, ServerRecordsOK
<1>2. \/ \E c \in Clients : \/ ServerBegins(c) \/ ServerStep(c)
                            \/ ConfigBegins(c) \/ ConfigStep(c) \/ Finish(c) \/ Serve(c)
      \/ Deliver
      \/ UNCHANGED disk
  <2>1. ASSUME UNCHANGED serverVars \/ Restart \/ \E c \in Clients : StoragePanics(c)
        PROVE  UNCHANGED disk
    BY <2>1 DEF StoragePanics, NilBucket, Restart, Die, serverVars, setupVars, storageVars, disk
  <2> QED
    BY <2>1 DEF ServerNext, Steps, RequestStep, Return
<1> QED
  BY <1>1, <1>2, OnlyOwnWrites

(***************************************************************************)
(* The entry of a device changes only on behalf of a request in progress   *)
(* that names it, to what that request gives for it, and only when the     *)
(* password it presented was in force while it ran.                        *)
(***************************************************************************)
THEOREM DevicesStandHolds == ServerSpec => DevicesStand
<1>1. ServerInv /\ [ServerNext]_serverVars => [DevicesKept]_serverVars
  BY ServerOnlyOwnWrites
<1> QED
  BY <1>1, ServerInvariant, PTL DEF ServerSpec, DevicesStand, DevicesKept

=============================================================================
