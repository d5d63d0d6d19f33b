------------------------------- MODULE Setup -------------------------------
(***************************************************************************)
(* How the service gets its database and its password: the test for an     *)
(* earlier run that config.Start makes when the process starts, and the    *)
(* handlers behind POST /config, which open the file, define the first     *)
(* password and start the storage goroutine, or else change the password.  *)
(*                                                                         *)
(* net/http runs every request in a goroutine of its own, here a client,   *)
(* and nothing keeps two of them out of handleConfigInit.  The process may *)
(* be killed at any step, and is then started again.                       *)
(***************************************************************************)
EXTENDS Storage

VARIABLES
  file,         \* rwol.db is in the storage folder
  db,           \* the process holds the file open, and locked
  already,      \* what checkAlreadyRun returned when the process started
  initialized,  \* the flag of package server
  pc,           \* where the request of each client is
  req,          \* the parameters of the request
  reply         \* its HTTP status, or "aborted" when the handler panicked

boot == <<file, db, already, initialized>>
requests == <<pc, req, reply>>
setupVars == <<storageVars, boot, requests>>

Route == {"none", "config", "manage", "post", "delete", "devices", "device", "root",
          "power", "ping"}

Form == [route : Route, alias : Names, name : Names, dev : MaybeDevice, pass : Phrases]
NoForm == [route |-> "none", alias |-> Empty, name |-> Empty, dev |-> Nil, pass |-> Empty]

Status == {"none", "OK", "Redirect", "BadRequest", "Unauthorized", "NotFound",
           "Unprocessable", "BadGateway", "InternalError", "aborted"}

\* The lines of InitLocal and handleConfigInit at which a first configuration stands.
Configuring == {"getDB", "open", "buckets", "insert", "launch", "flag"}

SetupPoints == {"idle", "update", "answered"} \cup Configuring

SetupInit ==
  /\ StorageInit
  /\ file = FALSE
  /\ db = FALSE
  /\ already = FALSE
  /\ initialized = FALSE
  /\ pc = [c \in Clients |-> "idle"]
  /\ req = [c \in Clients |-> NoForm]
  /\ reply = [c \in Clients |-> "none"]

-----------------------------------------------------------------------------
(* The life of a request. *)

At(c, l) == pc[c] = l

Begin(c, f) ==
  /\ At(c, "idle")
  /\ req' = [req EXCEPT ![c] = f]

GoTo(c, l) ==
  /\ pc' = [pc EXCEPT ![c] = l]
  /\ UNCHANGED reply

Answer(c, status) ==
  /\ pc' = [pc EXCEPT ![c] = "answered"]
  /\ reply' = [reply EXCEPT ![c] = status]

\* The response is on its way and the handler returns.
Finish(c) ==
  /\ At(c, "answered")
  /\ pc' = [pc EXCEPT ![c] = "idle"]
  /\ req' = [req EXCEPT ![c] = NoForm]
  /\ reply' = [reply EXCEPT ![c] = "none"]
  /\ Release(c)
  /\ UNCHANGED boot

-----------------------------------------------------------------------------
(* POST /config. *)

ConfigForm(p) == [NoForm EXCEPT !.route = "config", !.pass = p]

\* The form does not parse, or a password is missing from it.
RejectConfig(c) ==
  /\ Begin(c, ConfigForm(Empty))
  /\ Answer(c, "Unprocessable")
  /\ UNCHANGED <<storageVars, boot>>

\* Mutant: the flag is set before InitLocal.
HandleConfigInitEarlyFlag(c) ==
  /\ ~initialized
  /\ \E p \in Passwords : Begin(c, ConfigForm(p))
  /\ GoTo(c, "getDB")
  /\ initialized' = TRUE
  /\ UNCHANGED <<storageVars, file, db, already>>

\* Mutant: no return after the error for an empty password.
HandleConfigInitAnyPassword(c) ==
  /\ ~initialized
  /\ \E p \in Phrases : Begin(c, ConfigForm(p))
  /\ GoTo(c, "getDB")
  /\ UNCHANGED <<storageVars, boot>>

HandleConfigInit(c) ==
  /\ ~initialized
  /\ \E p \in Passwords : Begin(c, ConfigForm(p))
  /\ GoTo(c, "getDB")
  /\ UNCHANGED <<storageVars, boot>>

\* getDB uses the file the process has open, if it has.
GetDB(c) ==
  /\ At(c, "getDB")
  /\ GoTo(c, IF db THEN "buckets" ELSE "open")
  /\ UNCHANGED <<storageVars, boot, req>>

\* bbolt creates the file if need be, and waits for its lock without a timeout.
OpenDB(c) ==
  /\ At(c, "open")
  /\ ~db
  /\ db' = TRUE
  /\ file' = TRUE
  /\ GoTo(c, "buckets")
  /\ UNCHANGED <<storageVars, already, initialized, req>>

OpenFails(c) ==
  /\ At(c, "open")
  /\ ~db
  /\ file' \in {file, TRUE}
  /\ Answer(c, "aborted")
  /\ UNCHANGED <<storageVars, db, already, initialized, req>>

InitBuckets(c) ==
  /\ At(c, "buckets")
  /\ CreateBuckets
  /\ GoTo(c, "insert")
  /\ UNCHANGED <<boot, req>>

InitPassword(c) ==
  /\ At(c, "insert")
  /\ InsertPassword(req[c].pass)
  /\ GoTo(c, "launch")
  /\ UNCHANGED <<boot, req>>

\* Mutant: InitLocal goes on after an error of db.Update.
InitIgnoresError(c) ==
  /\ At(c, "buckets")
  /\ GoTo(c, "insert")
  /\ UNCHANGED <<storageVars, boot, req>>

\* A commit fails, or the password is already defined: InitLocal panics.
InitPanics(c) ==
  /\ pc[c] \in {"buckets", "insert"}
  /\ Answer(c, "aborted")
  /\ UNCHANGED <<storageVars, boot, req>>

\* Mutant: StartHandling is called without go, and never returns.
LaunchInline(c) ==
  /\ At(c, "launch")
  /\ StartHandling
  /\ UNCHANGED <<boot, requests>>

Launch(c) ==
  /\ At(c, "launch")
  /\ StartHandling
  /\ GoTo(c, "flag")
  /\ UNCHANGED <<boot, req>>

SetFlag(c) ==
  /\ At(c, "flag")
  /\ initialized' = TRUE
  /\ Answer(c, "OK")
  /\ UNCHANGED <<storageVars, file, db, already, req>>

HandleConfigUpdate(c) ==
  /\ initialized
  /\ \E o \in Passwords, n \in Passwords :
       /\ Begin(c, ConfigForm(o))
       /\ Send(c, [op |-> "update", old |-> o, new |-> n])
  /\ GoTo(c, "update")
  /\ UNCHANGED boot

\* The answer of the storage goroutine is there.
Answered(c, l) ==
  /\ At(c, l)
  /\ call[c].at = "idle"

UpdateDone(c) ==
  /\ Answered(c, "update")
  /\ Answer(c, IF call[c].got.ok THEN "OK" ELSE "BadGateway")
  /\ UNCHANGED <<storageVars, boot, req>>

-----------------------------------------------------------------------------
(* The start of the process, after a kill or after its death. *)

\* checkAlreadyRun only looks for the file; when it is there the storage
\* goroutine is started at once, and opens it.
Start ==
  /\ already' = file
  /\ initialized' = file
  /\ db' = file
  /\ loop' = IF file THEN "select" ELSE "off"
  /\ pc' = [c \in Clients |-> "idle"]
  /\ req' = [c \in Clients |-> NoForm]
  /\ reply' = [c \in Clients |-> "none"]
  /\ UNCHANGED file

Restart ==
  /\ Die
  /\ Start

\* A panic in the storage goroutine begins.  While it closes the response channel
\* and the database the other goroutines go on; then the process ends, which is
\* a Restart like any other.
StoragePanics(c) ==
  /\ NilBucket(c)
  /\ UNCHANGED <<boot, requests>>

-----------------------------------------------------------------------------
\* What the goroutine of c does on its own once the request has begun.
ConfigStep(c) ==
  \/ GetDB(c)
  \/ OpenDB(c)
  \/ OpenFails(c)
  \/ InitBuckets(c)
  \/ InitPassword(c)
  \/ InitPanics(c)
  \/ Launch(c)
  \/ SetFlag(c)
  \/ UpdateDone(c)

ConfigBegins(c) ==
  \/ RejectConfig(c)
  \/ HandleConfigInit(c)
  \/ HandleConfigUpdate(c)

\* The steps of the storage goroutine.
Serve(c) == Handle(c) /\ UNCHANGED <<boot, requests>>
Deliver == (SendAlias \/ SendReply) /\ UNCHANGED <<boot, requests>>

SetupNext ==
  \/ \E c \in Clients : ConfigBegins(c) \/ ConfigStep(c) \/ Finish(c)
  \/ \E c \in Clients : Serve(c) \/ StoragePanics(c)
  \/ Deliver
  \/ Restart

SetupSpec == SetupInit /\ [][SetupNext]_setupVars

(***************************************************************************)
(* Every goroutine that can go on goes on; the storage goroutine is fair   *)
(* to the clients as in Storage, and a panic of it ends the process.       *)
(* Nobody need send a request, nobody need kill a process that does not    *)
(* panic, and no operation on the disk need fail.                          *)
(***************************************************************************)
SetupFairness ==
  /\ \A c \in Clients :
       /\ WF_setupVars(ConfigStep(c) \/ Finish(c))
       /\ SF_setupVars(Serve(c))
       /\ WF_setupVars(StoragePanics(c))
  /\ WF_setupVars(Deliver)
  /\ WF_setupVars(loop = "dying" /\ Restart)

FairSetupSpec == SetupSpec /\ SetupFairness

-----------------------------------------------------------------------------
RecordsTypeOK ==
  /\ StorageTypeOK
  /\ file \in BOOLEAN
  /\ db \in BOOLEAN
  /\ already \in BOOLEAN
  /\ initialized \in BOOLEAN
  /\ req \in [Clients -> Form]
  /\ reply \in [Clients -> Status]

\* The empty password, which anyone may present, is never one to be put in force.
SetupTypeOK ==
  /\ RecordsTypeOK
  /\ pc \in [Clients -> SetupPoints]
  /\ password # Empty
  /\ \A c \in Clients :
       /\ pc[c] \in Configuring => req[c].pass \in Passwords
       /\ call[c].at # "idle" => call[c].q.op = "update" /\ call[c].q.new \in Passwords

(***************************************************************************)
(* However many first configurations race, only one gets beyond the        *)
(* insertion of its password; it finds no storage goroutine running and    *)
(* the flag unset, and nobody else is told that the service is configured. *)
(* A second goroutine in StartHandling would share the one *bolt.DB and    *)
(* steal requests.                                                         *)
(***************************************************************************)
OneConfigurer ==
  \A c \in Clients : pc[c] \in {"launch", "flag"} =>
    /\ ~initialized
    /\ At(c, "launch") => loop = "off"
    /\ \A d \in Clients \ {c} : pc[d] \notin {"launch", "flag"}

(***************************************************************************)
(* A process that configured itself and not merely found a file is ready   *)
(* when it says so: initialized means that the buckets and the password    *)
(* are on disk, the file is open and the storage goroutine is running.     *)
(***************************************************************************)
ReadyWhenInitialized ==
  initialized /\ ~already => buckets /\ password # Nil /\ db /\ loop # "off"

(***************************************************************************)
(* What the steps of a configuration may rely on, although other ones and  *)
(* a restart may have come in between: without the file nothing is on      *)
(* disk, a request that is past a step of InitLocal finds its effect, and  *)
(* while the password is missing nothing runs on the database that this    *)
(* process configures.  With SetupTypeOK this makes the two invariants     *)
(* above inductive.                                                        *)
(***************************************************************************)
ConfigurationProgress ==
  /\ ~file => ~db /\ ~buckets /\ password = Nil
  /\ already => initialized
  /\ ~already /\ loop # "off" => db /\ buckets /\ password # Nil
  /\ loop = "dying" => already /\ ~buckets
  /\ \A c \in Clients :
       /\ pc[c] \in Configuring => ~already
       /\ pc[c] \in {"buckets", "insert", "launch", "flag"} => db
       /\ pc[c] \in {"insert", "launch", "flag"} => buckets
       /\ pc[c] \in {"launch", "flag"} => password # Nil
       /\ At(c, "flag") => loop # "off"

SetupInv == OneConfigurer /\ ReadyWhenInitialized /\ ConfigurationProgress

(***************************************************************************)
(* The password on disk is never lost, not by a race of configurations and *)
(* not by a crash between their steps, and it is replaced only on behalf   *)
(* of a request for /config that is in progress and presented the password *)
(* that was in force.                                                      *)
(***************************************************************************)
PasswordStands ==
  [][password # Nil /\ password' # password =>
       \E c \in Clients : At(c, "update") /\ req[c].pass = password]_setupVars

(***************************************************************************)
(* A configuration never hangs, but for one kind: those that found no      *)
(* database open and come to open the file after another one did wait for  *)
(* its lock for as long as the process lives.                              *)
(***************************************************************************)
ConfigAnswered ==
  \A c \in Clients :
    (pc[c] # "idle") ~> (At(c, "idle") \/ (At(c, "open") /\ db))

(***************************************************************************)
(* "InitLocal initialize db in case is first start of web application"     *)
(* (storage/handler.go): until the db is initialized, every start of the   *)
(* application is offered that initialization.                             *)
(***************************************************************************)
InitializedOnFirstStart == initialized => password # Nil
=============================================================================
