------------------------------- MODULE Server -------------------------------
(***************************************************************************)
(* The handlers of package server that read and change the devices:        *)
(* GET and POST /devices/:alias, DELETE /devices/:alias, GET /devices,     *)
(* POST /manage-dev and GET /.  Each one is a sequence of calls to the     *)
(* storage goroutine; other requests, a change of the password and a       *)
(* crash may come between any two of them.                                 *)
(*                                                                         *)
(* A handler that has the answer of one call makes the next one in the     *)
(* same step: what it does in between touches nothing others can see.      *)
(***************************************************************************)
EXTENDS Setup, Naturals

CONSTANTS
  ValidDevices,  \* the devices whose Mac matches reMAC
  Position,      \* the place of an alias in the order of the strings
  Routes         \* the routes that receive requests, besides POST /config

ASSUME ServerAssumption ==
  /\ ValidDevices \subseteq Devices
  /\ Position \in [Aliases -> Nat]
  /\ \A a, b \in Aliases : Position[a] = Position[b] => a = b
  /\ Routes \subseteq Route \ {"none", "config"}

VARIABLES
  todo,   \* the aliases getAllDevices has still to look up
  page,   \* the <<alias, device>> pairs of the page

  (* History, for the properties: what happened since the request began. *)
  was,    \* the <<alias, device or Nil>> pairs that were true
  pws,    \* the passwords that were in force
  wrote   \* the writes that were committed on its behalf

lists == <<todo, page>>
history == <<was, pws, wrote>>
serverVars == <<setupVars, lists, history>>

ServerPoints == SetupPoints \cup {"check", "delete", "register", "aliases", "get"}

Entry == Aliases \X MaybeDevice

ServerInit ==
  /\ SetupInit
  /\ todo = [c \in Clients |-> {}]
  /\ page = [c \in Clients |-> {}]
  /\ was = [c \in Clients |-> {}]
  /\ pws = [c \in Clients |-> {}]
  /\ wrote = [c \in Clients |-> {}]

-----------------------------------------------------------------------------
(* The storage calls of server/utils.go, each a request that is sent and   *)
(* the point at which its answer is awaited.                               *)

CheckPassword(c, p) ==
  /\ Send(c, [op |-> "pass", pass |-> p])
  /\ GoTo(c, "check")

DelDevice(c, a) ==
  /\ Send(c, [op |-> "del", name |-> a])
  /\ GoTo(c, "delete")

GetDevice(c, a) ==
  /\ Send(c, [op |-> "get", name |-> a])
  /\ GoTo(c, "get")

GetAllAliases(c) ==
  /\ Send(c, [op |-> "aliases"])
  /\ GoTo(c, "aliases")

\* A Mac of the wrong form is refused before the call.  Both handlers panic on
\* any error here: one passes a nil error to handleError, the other
\* dereferences the nil alias before it looks at the error.
RegisterOrUpdateDevice(c) ==
  \/ /\ req[c].dev \in ValidDevices
     /\ Send(c, [op |-> "add", name |-> req[c].name, dev |-> req[c].dev])
     /\ GoTo(c, "register")
  \/ /\ req[c].dev \notin ValidDevices
     /\ Answer(c, "aborted")
     /\ UNCHANGED storageVars

\* Mutant: the last row is lost.
RenderedShort(pg) ==
  { e \in pg : \E f \in pg : Position[e[1]] < Position[f[1]] }

\* The template writes a row for each entry of the map, in the order of its keys.
\* A nil device has no IP: its row breaks off after the alias, and as nobody looks
\* at the error of Execute the page ends there.
Rendered(pg) ==
  { e \in pg : \A f \in pg : f[2] = Nil => Position[e[1]] <= Position[f[1]] }

\* One round of the loop of getAllDevices, pg being what it has, or its end.
GetNext(c, S, pg) ==
  \/ /\ S = {}
     /\ Answer(c, "OK")
     /\ page' = [page EXCEPT ![c] = Rendered(pg)]
     /\ UNCHANGED <<storageVars, todo>>
  \/ \E a \in S :
       /\ \A b \in S : Position[a] <= Position[b]
       /\ GetDevice(c, a)
       /\ todo' = [todo EXCEPT ![c] = S \ {a}]
       /\ page' = [page EXCEPT ![c] = pg]

-----------------------------------------------------------------------------
(* The requests arrive. *)

Form4(r, a, n, d, p) == [route |-> r, alias |-> a, name |-> n, dev |-> d, pass |-> p]

\* The forms of the routes that write.
WriteForms ==
  { Form4("manage", Empty, n, d, p) : n \in Names, d \in Devices, p \in Phrases }
  \cup { Form4("post", a, n, d, p) : a \in Aliases, n \in Names, d \in Devices, p \in Phrases }
  \cup { Form4("delete", a, Empty, Nil, p) : a \in Aliases, p \in Phrases }

\* They all check the password first; only /manage-dev looks at initialized.
WriteBegins(c) ==
  \E f \in WriteForms :
    /\ f.route \in Routes
    /\ f.route = "manage" => initialized
    /\ Begin(c, f)
    /\ CheckPassword(c, f.pass)
    /\ UNCHANGED <<boot, lists>>

\* The form does not parse, or the token is not base64.
WriteRejected(c) ==
  \E r \in Routes \cap {"manage", "post", "delete"} :
    /\ r = "manage" => initialized
    /\ Begin(c, [NoForm EXCEPT !.route = r])
    /\ Answer(c, "Unprocessable")
    /\ UNCHANGED <<storageVars, boot, lists>>

Redirected(c) ==
  \E r \in Routes \cap {"manage", "root"} :
    /\ ~initialized
    /\ Begin(c, [NoForm EXCEPT !.route = r])
    /\ Answer(c, "Redirect")
    /\ UNCHANGED <<storageVars, boot, lists>>

HandleRootGet(c) ==
  /\ "root" \in Routes
  /\ initialized
  /\ Begin(c, [NoForm EXCEPT !.route = "root"])
  /\ GetAllAliases(c)
  /\ UNCHANGED <<boot, lists>>

HandleDevicesGet(c) ==
  /\ "devices" \in Routes
  /\ Begin(c, [NoForm EXCEPT !.route = "devices"])
  /\ GetAllAliases(c)
  /\ UNCHANGED <<boot, lists>>

HandleDeviceGet(c) ==
  /\ "device" \in Routes
  /\ \E a \in Aliases :
       /\ Begin(c, [NoForm EXCEPT !.route = "device", !.alias = a])
       /\ GetDevice(c, a)
  /\ UNCHANGED <<boot, lists>>

-----------------------------------------------------------------------------
(* The answers of the storage goroutine arrive. *)

\* Mutant: no return after the error page of a wrong password.
GrantedAlways(c) == Answered(c, "check")

Granted(c) == Answered(c, "check") /\ call[c].got.ok

PasswordRefused(c) ==
  /\ Answered(c, "check")
  /\ ~call[c].got.ok
  /\ Answer(c, "Unauthorized")
  /\ UNCHANGED <<storageVars, boot, req, lists>>

\* handleDevicePost deletes the device when the form renames it.
Renames(c) == req[c].route = "post" /\ req[c].alias # req[c].name

\* Mutant: the rename deletes the new name.
DeleteFirstByName(c) ==
  /\ Granted(c)
  /\ req[c].route = "delete" \/ Renames(c)
  /\ DelDevice(c, req[c].name)
  /\ UNCHANGED <<boot, req, lists>>

DeleteFirst(c) ==
  /\ Granted(c)
  /\ req[c].route = "delete" \/ Renames(c)
  /\ DelDevice(c, req[c].alias)
  /\ UNCHANGED <<boot, req, lists>>

RegisterAtOnce(c) ==
  /\ Granted(c)
  /\ req[c].route \in {"manage", "post"} /\ ~Renames(c)
  /\ RegisterOrUpdateDevice(c)
  /\ UNCHANGED <<boot, req, lists>>

\* Mutant: the error of delDevice is not looked at.
DeleteDoneIgnoresError(c) ==
  /\ Answered(c, "delete")
  /\ req[c].route = "delete"
  /\ Answer(c, "OK")
  /\ UNCHANGED <<storageVars, boot, req, lists>>

DeleteDone(c) ==
  /\ Answered(c, "delete")
  /\ req[c].route = "delete"
  /\ Answer(c, IF call[c].got.ok THEN "OK" ELSE "BadGateway")
  /\ UNCHANGED <<storageVars, boot, req, lists>>

RenameGoesOn(c) ==
  /\ Answered(c, "delete")
  /\ req[c].route = "post"
  /\ \/ call[c].got.ok /\ RegisterOrUpdateDevice(c)
     \/ ~call[c].got.ok /\ Answer(c, "BadRequest") /\ UNCHANGED storageVars
  /\ UNCHANGED <<boot, req, lists>>

RegisterDone(c) ==
  /\ Answered(c, "register")
  /\ Answer(c, IF call[c].got.ok THEN "OK" ELSE "aborted")
  /\ UNCHANGED <<storageVars, boot, req, lists>>

RootListed(c) ==
  /\ Answered(c, "aliases")
  /\ req[c].route = "root"
  /\ Answer(c, "OK")
  /\ UNCHANGED <<storageVars, boot, req, lists>>

DevicesListed(c) ==
  /\ Answered(c, "aliases")
  /\ req[c].route = "devices"
  /\ GetNext(c, call[c].got.names, {})
  /\ UNCHANGED <<boot, req>>

\* Mutant: the loop ends at the first alias that is gone.
DeviceFetchedBreaks(c) ==
  /\ Answered(c, "get")
  /\ req[c].route = "devices"
  /\ GetNext(c, IF call[c].got.ok THEN todo[c] ELSE {},
             page[c] \cup {<<call[c].q.name, call[c].got.dev>>})
  /\ UNCHANGED <<boot, req>>

\* An alias that is gone by now still gets its entry, a nil device.
DeviceFetched(c) ==
  /\ Answered(c, "get")
  /\ req[c].route = "devices"
  /\ GetNext(c, todo[c], page[c] \cup {<<call[c].q.name, call[c].got.dev>>})
  /\ UNCHANGED <<boot, req>>

DeviceGetDone(c) ==
  /\ Answered(c, "get")
  /\ req[c].route = "device"
  /\ \/ call[c].got.ok /\ Answer(c, "OK")
     \/ ~call[c].got.ok /\ Answer(c, "NotFound")
  /\ UNCHANGED <<storageVars, boot, req, lists>>

-----------------------------------------------------------------------------
ServerBegins(c) ==
  \/ WriteBegins(c)
  \/ WriteRejected(c)
  \/ Redirected(c)
  \/ HandleRootGet(c)
  \/ HandleDevicesGet(c)
  \/ HandleDeviceGet(c)

ServerStep(c) ==
  \/ PasswordRefused(c)
  \/ DeleteFirst(c)
  \/ RegisterAtOnce(c)
  \/ DeleteDone(c)
  \/ RenameGoesOn(c)
  \/ RegisterDone(c)
  \/ RootListed(c)
  \/ DevicesListed(c)
  \/ DeviceFetched(c)
  \/ DeviceGetDone(c)

Return(c) ==
  /\ Finish(c)
  /\ page' = [page EXCEPT ![c] = {}]
  /\ UNCHANGED todo

Forget ==
  /\ todo' = [c \in Clients |-> {}]
  /\ page' = [c \in Clients |-> {}]

\* The steps of one request, other than the end of the process.
RequestStep(c) ==
  \/ ServerStep(c)
  \/ ConfigStep(c) /\ UNCHANGED lists
  \/ Return(c)

Steps ==
  \/ \E c \in Clients : ServerBegins(c) \/ RequestStep(c)
  \/ \E c \in Clients : (ConfigBegins(c) \/ Serve(c) \/ StoragePanics(c)) /\ UNCHANGED lists
  \/ Deliver /\ UNCHANGED lists
  \/ Restart /\ Forget

(***************************************************************************)
(* The history of a request covers every state from the one in which it    *)
(* began to the one in which its answer was fixed.  A step that commits a  *)
(* write of c is the one that receives the request of c and ends with a    *)
(* success to be sent, or the one that defines the first password for c.   *)
(***************************************************************************)
Readers == {"devices", "device", "root"}
Writes == {"add", "del", "update", "insert"}

Commits(c) ==
  /\ call[c].at = "sending" /\ call'[c].at = "waiting"
  /\ call[c].q.op \in {"add", "del", "update"}
  /\ out'.ok

Defines(c) == At(c, "insert") /\ pc'[c] # "insert" /\ password' # password

Committed(c) ==
  (IF Commits(c) THEN {call[c].q.op} ELSE {}) \cup (IF Defines(c) THEN {"insert"} ELSE {})

Running(c) == pc'[c] # "idle" /\ pc[c] # "answered"

Track ==
  /\ was' = [c \in Clients |->
               IF Running(c) /\ req'[c].route \in Readers \cup {"power"}
               THEN was[c] \cup { <<a, devices'[a]>> : a \in Aliases }
               ELSE IF pc'[c] = "idle" THEN {} ELSE was[c]]
  /\ pws' = [c \in Clients |->
               IF Running(c) /\ req'[c].route \notin Readers \cup {"ping"}
               THEN pws[c] \cup {password'}
               ELSE IF pc'[c] = "idle" THEN {} ELSE pws[c]]
  /\ wrote' = [c \in Clients |->
               IF pc'[c] = "idle" THEN {} ELSE wrote[c] \cup Committed(c)]

ServerNext == Steps /\ Track

ServerSpec == ServerInit /\ [][ServerNext]_serverVars

-----------------------------------------------------------------------------
\* Only a request for the list of the devices collects a page, and it does not
\* end before every alias is looked up.
ServerTypeOK ==
  /\ RecordsTypeOK
  /\ pc \in [Clients -> ServerPoints]
  /\ todo \in [Clients -> SUBSET Aliases]
  /\ page \in [Clients -> SUBSET Entry]
  /\ \A c \in Clients :
       /\ todo[c] # {} => At(c, "get") /\ req[c].route = "devices"
       /\ page[c] # {} => req[c].route = "devices"
  /\ was \in [Clients -> SUBSET Entry]
  /\ pws \in [Clients -> SUBSET (Phrases \cup {Nil})]
  /\ wrote \in [Clients -> SUBSET Writes]

Replied(c, r, S) == At(c, "answered") /\ req[c].route = r /\ reply[c] \in S

(***************************************************************************)
(* The page of GET /devices is collected by one call per device while      *)
(* others add, rename and delete.  Still every row was true at some moment *)
(* of the request, and a device that was registered during all of it is on *)
(* the page, unless the page was cut: then a device that comes before it   *)
(* was registered and was gone during the request.                         *)
(***************************************************************************)
CameAndWent(c, a) == <<a, Nil>> \in was[c] /\ \E d \in Devices : <<a, d>> \in was[c]

DevicesPageTruthful ==
  \A c \in Clients : Replied(c, "devices", {"OK"}) =>
    /\ page[c] \subseteq was[c]
    /\ \A a \in Aliases : <<a, Nil>> \notin was[c] =>
         \/ \E d \in Devices : <<a, d>> \in page[c]
         \/ \E b \in Aliases : CameAndWent(c, b) /\ Position[b] < Position[a]

(***************************************************************************)
(* GET / offers an alias only if it was registered, and leaves one out     *)
(* only if it was not, at some moment of the request; GET /devices/:alias  *)
(* shows a device only if it was the one registered, and says that there   *)
(* is none only if there was none.                                         *)
(***************************************************************************)
SinglePagesTruthful ==
  \A c \in Clients :
    /\ Replied(c, "root", {"OK"}) => \A a \in Aliases :
         IF a \in call[c].got.names THEN \E d \in Devices : <<a, d>> \in was[c]
                                    ELSE <<a, Nil>> \in was[c]
    /\ Replied(c, "device", {"OK", "NotFound"}) =>
         <<req[c].alias, call[c].got.dev>> \in was[c]

(***************************************************************************)
(* The password is checked by one storage call and the write is made by a  *)
(* later one, and the password may change in between; but nothing is ever  *)
(* written for a request whose password was not in force at some moment    *)
(* since it began, and no request for a page writes anything.              *)
(***************************************************************************)
AuthorisedWrites ==
  \A c \in Clients : wrote[c] # {} => req[c].pass \in pws[c]

(***************************************************************************)
(* What the answer says is what happened: after OK everything the request  *)
(* asked for is committed, after an error page nothing is.  A connection   *)
(* that is cut hides nothing but the deletion of a rename that was refused.*)
(* The one exception: while the process is dying of a database without its *)
(* buckets, a change of the password is told that it succeeded.            *)
(***************************************************************************)
Deletes(c) == IF Renames(c) THEN {"del"} ELSE {}

\* What a request may have asked for.
Asked(c) ==
  CASE req[c].route = "manage" -> {{"add"}}
    [] req[c].route = "post" -> {Deletes(c) \cup {"add"}}
    [] req[c].route = "delete" -> {{"del"}}
    [] req[c].route = "config" -> {{"insert"}, {"update"}}
    [] OTHER -> {{}}

ToldByPanic(c) == loop = "dying" /\ req[c].route = "config" /\ wrote[c] = {}

RepliesTruthful ==
  \A c \in Clients : At(c, "answered") =>
    /\ reply[c] = "OK" => wrote[c] \in Asked(c) \/ ToldByPanic(c)
    /\ reply[c] = "aborted" => wrote[c] \subseteq Deletes(c)
    /\ reply[c] \notin {"OK", "aborted"} => wrote[c] = {}

(***************************************************************************)
(* A device is registered, replaced or lost only on behalf of a request in *)
(* progress that names it, with what that request gives for it, and whose  *)
(* password was in force while it ran: no crash, no race of requests and   *)
(* no list in progress touches the entry of anybody else.                  *)
(***************************************************************************)
Removes(c, a) ==
  req[c].alias = a /\ (req[c].route = "delete" \/ Renames(c))

Registers(c, a, d) ==
  req[c].route \in {"manage", "post"} /\ req[c].name = a /\ req[c].dev = d /\ d \in ValidDevices

DevicesStand ==
  [][\A a \in Aliases : devices'[a] # devices[a] =>
       \E c \in Clients :
         /\ req[c].pass \in pws[c]
         /\ \/ At(c, "delete") /\ Removes(c, a) /\ devices'[a] = Nil
            \/ At(c, "register") /\ Registers(c, a, devices'[a])]_serverVars

(***************************************************************************)
(* "Delete post target device in order to create a new one in db"          *)
(* (server/commons.go): a request that deleted the device it renames does  *)
(* not end before the new one is created.                                  *)
(***************************************************************************)
RenameCreates ==
  \A c \in Clients : At(c, "answered") /\ Renames(c) =>
    ("del" \in wrote[c] => "add" \in wrote[c])
=============================================================================
