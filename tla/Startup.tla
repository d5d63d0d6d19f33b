------------------------------- MODULE Startup -------------------------------
(***************************************************************************)
(* The start of the process: config.Start, the Start method of the server  *)
(* it has chosen, and the two goroutines that this method may launch,      *)
(* storage.StartHandling and bot.RunBot, each of which ends the process    *)
(* with its panics while Start goes on.  Setup takes from here what a      *)
(* restart leaves behind; here the folders may be missing or closed too.   *)
(***************************************************************************)
EXTENDS Naturals, Sequences

CONSTANTS
  Confs,      \* what the configuration file may say
  Privileged  \* the process may use folders whatever their mode

Conf == [server : {"plain", "tls", "letsencrypt"},
         log    : {"ok", "bad"},
         proxy  : {"none", "disabled", "enabled"},
         bot    : {"none", "incomplete", "complete"}]

ASSUME StartupAssumption == Confs \subseteq Conf /\ Privileged \in BOOLEAN

VARIABLES
  folder, certs,  \* the storage folder and that of the certificates
  file,           \* rwol.db is in the storage folder
  up, conf,       \* the process is alive, and with which configuration
  todo,           \* the steps that config.Start and Start have still to make
  initialized, prefix, handler, settings,  \* package variables of server
  storage, bot    \* the goroutines

disk == <<folder, certs, file>>
memory == <<initialized, prefix, handler, settings>>
goroutines == <<storage, bot>>
startVars == <<disk, up, conf, todo, memory, goroutines>>

Folders == {"missing", "closed", "open", "notDir"}

\* The prefix its routes are registered with; whether ProxyHeaders is around it.
NoHandler == [routes |-> "none", wrapped |-> FALSE]

\* Mutant: the plain server wraps the handler before there is one.
ScriptWrapsFirst(s) ==
  <<"log", "already", "prefix">>
    \o (IF s = "letsencrypt" THEN <<"certs">> ELSE <<>>)
    \o <<"storage", "bot", "proxy", "settings", "box", "listen">>

\* The steps of config.Start and of Start, in the order of each server.
Script(s) ==
  <<"log", "already", "prefix">>
    \o (IF s = "letsencrypt"
        THEN <<"certs", "storage", "bot", "proxy", "settings", "box", "listen">>
        ELSE <<"storage", "bot", "box", "proxy", "settings", "listen">>)

Fresh(c) ==
  /\ conf' = c
  /\ todo' = Script(c.server)
  /\ initialized' = FALSE /\ prefix' = "root" /\ handler' = NoHandler /\ settings' = FALSE
  /\ storage' = "none" /\ bot' = "none"

StartInit ==
  /\ folder \in Folders /\ certs \in Folders
  /\ file \in (IF folder \in {"closed", "open"} THEN BOOLEAN ELSE {FALSE})
  /\ up = TRUE
  /\ conf \in Confs
  /\ todo = Script(conf.server)
  /\ initialized = FALSE /\ prefix = "root" /\ handler = NoHandler /\ settings = FALSE
  /\ storage = "none" /\ bot = "none"

-----------------------------------------------------------------------------
At(s) == up /\ todo # <<>> /\ Head(todo) = s
Advance == todo' = Tail(todo) /\ UNCHANGED <<up, conf>>

\* A panic outside of an HTTP handler, or a kill.
Dies == up' = FALSE /\ Fresh(conf)

Reachable(f) == f = "open" \/ (f = "closed" /\ Privileged)

\* CheckIfFolderExist: the folder it makes has the mode os.ModeDir, no permission at all.
Made(f) == IF f = "missing" THEN "closed" ELSE f

ConfigureLog ==
  /\ At("log")
  /\ IF conf.log = "ok" THEN Advance /\ UNCHANGED <<memory, goroutines>> ELSE Dies
  /\ UNCHANGED disk

\* Mutant: any error of os.Stat means that there is no database.
CheckAlreadyRunAnyError ==
  /\ At("already")
  /\ IF folder # "notDir"
     THEN /\ Advance
          /\ folder' = Made(folder)
          /\ initialized' = (file /\ Reachable(folder'))
          /\ UNCHANGED <<prefix, handler, settings, goroutines>>
     ELSE Dies /\ UNCHANGED folder
  /\ UNCHANGED <<certs, file>>

\* Only the error "does not exist" means that there is no database.  Start
\* takes the result for initialized.
CheckAlreadyRun ==
  /\ At("already")
  /\ \/ /\ folder # "notDir"
        /\ Advance
        /\ folder' = Made(folder)
        /\ initialized' = (file \/ ~Reachable(folder'))
        /\ UNCHANGED <<prefix, handler, settings, goroutines>>
     \/ folder \in {"notDir", "missing"} /\ Dies /\ UNCHANGED folder
  /\ UNCHANGED <<certs, file>>

SetPrefix ==
  /\ At("prefix")
  /\ Advance
  /\ prefix' = IF conf.proxy = "none" THEN "root" ELSE "prefix"
  /\ UNCHANGED <<disk, initialized, handler, settings, goroutines>>

CheckCertDir ==
  /\ At("certs")
  /\ \/ certs # "notDir" /\ Advance /\ certs' = Made(certs) /\ UNCHANGED <<memory, goroutines>>
     \/ certs \in {"notDir", "missing"} /\ Dies /\ UNCHANGED certs
  /\ UNCHANGED <<folder, file>>

\* Mutant: StartHandling is called without go, and never returns.
LaunchStorageInline ==
  /\ At("storage")
  /\ ~initialized
  /\ Advance
  /\ UNCHANGED <<disk, memory, goroutines>>

LaunchStorage ==
  /\ At("storage")
  /\ Advance
  /\ storage' = IF initialized THEN "starting" ELSE storage
  /\ UNCHANGED <<disk, memory, bot>>

LaunchBot ==
  /\ At("bot")
  /\ Advance
  /\ bot' = IF conf.bot # "none" THEN "starting" ELSE bot
  /\ UNCHANGED <<disk, memory, storage>>

\* configureBox registers the routes on a new router, which becomes the handler.
ConfigureBox ==
  /\ At("box")
  /\ Advance
  /\ handler' = [routes |-> prefix, wrapped |-> FALSE]
  /\ UNCHANGED <<disk, initialized, prefix, settings, goroutines>>

HandleProxy ==
  /\ At("proxy")
  /\ Advance
  /\ handler' = [handler EXCEPT !.wrapped = @ \/ conf.proxy = "enabled"]
  /\ UNCHANGED <<disk, initialized, prefix, settings, goroutines>>

SetSettings ==
  /\ At("settings")
  /\ Advance
  /\ settings' = TRUE
  /\ UNCHANGED <<disk, initialized, prefix, handler, goroutines>>

\* The port may be taken, the certificate unreadable.
Listen ==
  /\ At("listen")
  /\ \/ Advance /\ UNCHANGED <<memory, goroutines>>
     \/ Dies
  /\ UNCHANGED disk

-----------------------------------------------------------------------------
\* getDB in StartHandling makes the file when it is not there.
StorageOpens ==
  /\ up /\ storage = "starting"
  /\ \/ /\ Reachable(folder)
        /\ file' = TRUE
        /\ storage' = "running"
        /\ UNCHANGED <<up, conf, todo, memory, bot>>
     \/ Dies /\ UNCHANGED file
  /\ UNCHANGED <<folder, certs>>

\* Mutant: the keys of the configuration are not looked at.
BotStartsUnchecked ==
  /\ up /\ bot = "starting"
  /\ \/ /\ bot' \in {"running", "over"}
        /\ UNCHANGED <<up, conf, todo, memory, storage>>
     \/ Dies
  /\ UNCHANGED disk

\* An incomplete configuration and an error of NewBotAPI panic; one of
\* GetUpdatesChan only ends the bot.
BotStarts ==
  /\ up /\ bot = "starting"
  /\ \/ /\ conf.bot = "complete"
        /\ bot' \in {"running", "over"}
        /\ UNCHANGED <<up, conf, todo, memory, storage>>
     \/ Dies
  /\ UNCHANGED disk

\* POST /config, which Setup has in detail; what fails may leave the file behind.
Configure ==
  /\ up /\ todo = <<>>
  /\ ~initialized
  /\ Reachable(folder)
  /\ file' = TRUE
  /\ \/ initialized' = TRUE /\ storage' = "running"
     \/ UNCHANGED <<initialized, storage>>
  /\ UNCHANGED <<folder, certs, up, conf, todo, prefix, handler, settings, bot>>

Kill == up /\ Dies /\ UNCHANGED disk

\* Restart=always (scripts/rwol.service); the configuration may have changed.
Restart ==
  /\ ~up
  /\ up' = TRUE
  /\ \E c \in Confs : Fresh(c)
  /\ UNCHANGED disk

StartStep ==
  \/ ConfigureLog
  \/ CheckAlreadyRun
  \/ SetPrefix
  \/ CheckCertDir
  \/ LaunchStorage
  \/ LaunchBot
  \/ ConfigureBox
  \/ HandleProxy
  \/ SetSettings
  \/ Listen

StartNext == StartStep \/ StorageOpens \/ BotStarts \/ Configure \/ Kill \/ Restart

\* The main goroutine goes on whenever it can.
StartSpec == StartInit /\ [][StartNext]_startVars /\ WF_startVars(StartStep)

-----------------------------------------------------------------------------
(***************************************************************************)
(* Types; what is left to do is the rest of the script; and a goroutine    *)
(* that runs has found what it needs, the database or all keys of the bot. *)
(***************************************************************************)
StartTypeOK ==
  /\ folder \in Folders /\ certs \in Folders /\ file \in BOOLEAN
  /\ up \in BOOLEAN /\ conf \in Confs
  /\ \E i \in 0 .. Len(Script(conf.server)) :
       todo = SubSeq(Script(conf.server), i + 1, Len(Script(conf.server)))
  /\ initialized \in BOOLEAN /\ prefix \in {"root", "prefix"} /\ settings \in BOOLEAN
  /\ handler \in [routes : {"none", "root", "prefix"}, wrapped : BOOLEAN]
  /\ storage \in {"none", "starting", "running"}
  /\ bot \in {"none", "starting", "running", "over"}
  /\ storage = "running" => file
  /\ bot \in {"running", "over"} => conf.bot = "complete"

Listening == up /\ todo = <<>>

(***************************************************************************)
(* When the server listens, what it was configured with is in force: the   *)
(* routes have the prefix, the command and the port are set, the goroutines*)
(* are there, and no proxy headers are honoured unless they were asked for.*)
(* That they are honoured when they were is said here of the two servers   *)
(* that wrap the handler after it is made; of all three in ProxyHonoured.  *)
(***************************************************************************)
ServesAsConfigured ==
  Listening =>
    /\ settings
    /\ handler.routes = (IF conf.proxy = "none" THEN "root" ELSE "prefix")
    /\ handler.wrapped => conf.proxy = "enabled"
    /\ conf.server # "letsencrypt" /\ conf.proxy = "enabled" => handler.wrapped
    /\ initialized = (storage # "none")
    /\ (conf.bot # "none") = (bot # "none")

(***************************************************************************)
(* A process that comes to offer the first configuration, which would set  *)
(* a new password, finds no database: neither in a folder that it cannot   *)
(* look into, nor after any sequence of failed starts and configurations.  *)
(***************************************************************************)
OffersOnlyWhenNew ==
  [][~Listening /\ Listening' /\ ~initialized' => ~file']_startVars

\* StartHandling and RunBot do not return; still every start listens or dies.
StartsOrDies == up ~> (Listening \/ ~up)

-----------------------------------------------------------------------------
(* What the repository says of the start and the code does not do.         *)

(***************************************************************************)
(* "This service could be installed also behind a reverse proxy defining   *)
(* in the configuration file this section" (README.md): with the section,  *)
(* any of the servers takes the headers of the proxy.                      *)
(***************************************************************************)
ProxyHonoured == Listening /\ conf.proxy = "enabled" => handler.wrapped
=============================================================================
