# Golang-Wol in TLA+

Golang-Wol is a small service that wakes up, turns off and pings the machines
of a local network for a web page and a Telegram chat. This directory holds
TLA+ models of it, the TLC runs that check them, and proofs that TLAPS checks.
`PROJECT.json` maps every definition to the lines it stands for; paths below
are relative to `src/`.

## The system

| Part | State | Operations | Hard part |
|---|---|---|---|
| Storage goroutine, `storage/*.go`, `types/commons.go` | the bbolt file (two buckets, one password hash, the devices), the loop | add, get, delete, list, check password, change password | unbuffered channels in both directions; a list streamed inside a transaction; crash between commit and answer |
| First configuration and restart, `server/commons.go` (`/config`), `storage.InitLocal`, `getDB`, `config.checkAlreadyRun` | `initialized`, `db`, the file | define the first password, start the goroutine, set the flag; change the password; start again | every request has its own goroutine and nothing serialises two configurations; crash between two steps |
| Device routes, `server/commons.go`, `server/utils.go` | the requests in progress | `/manage-dev`, `/devices`, `/devices/:alias`, `/` | each handler is several storage calls; anything may happen between them, or one of them may fail |
| Power, `POST /`, `POST /ping/:alias`, `utils/functions.go` | `devStatus`, a map without a lock | wake, turn off, ping and report | a cache that is stale, racing, and decides what is done |
| Pinger, `utils/functions.go` and `vendor/.../charliemaiors/go-fastping` | addresses, callbacks, run loop, context; one instance for all | `CheckHealt`, `PingHost` over `AddIP`, `RunLoop`, `Done`, `Stop`, `RemoveIP` | callbacks stop the loop they run in; tickers against answers; overlapping pings |
| Telegram bot, `bot/telegram.go` | the messages in progress | `/list`, `/add`, `/wakeup`, `/turnoff`, `/check` | a goroutine per message, a second kind of client of storage and pinger; `/wakeup` is a loop over aliases |
| Start, `config/configFile.go`, `server/{plain,tls,letsencrypt}server.go` | folders, flag, prefix, handler | `config.Start` and three `Start` methods | order of the steps; goroutines that die on their own; folders that are missing or closed |
| Broadcast address, `utils.getBcastAddr` | none | pure | octets |

Interaction: the HTTP handlers and the bot send a request structure on one of
six unbuffered channels and block on the response channel inside it (a channel
of size one for additions). One goroutine, `StartHandling`, selects among the
six. It exists only after the configuration, or from the start when `rwol.db`
was there. Handlers and bot also call `CheckHealt` and `PingHost`, which share
one pinger of package `utils`. `config.Start` looks at the file, then starts
one of the servers, which launches the two goroutines. Nothing but the file
(and the folders) survives the process.

What makes the parts correct:

- storage: each operation takes effect once, atomically, between call and
  return; a failed write has no effect; every caller gets an answer;
- configuration: one password, one goroutine, no matter how many requests
  race; the flag says the truth; the password is never lost, and changes only
  for someone who knows it;
- device routes: a page shows what was true while it was collected; an answer
  says what was done; nothing is written without the password;
- power: nothing is sent without the password, nor to a device that the alias
  did not name; nothing is turned off that was never heard; the status tells
  whether something was sent;
- pinger: a positive answer is owed to a host; without overlap to the right
  one; what a ping leaves behind does not break the next one, and what can end
  the process is known by name;
- bot: one word per alias and the right one; "added" and "awake" are true;
- start: the server that listens has everything it was configured with, and
  the first configuration is offered only where there is no database.

## Modules

| Module | Stands for | Extends |
|---|---|---|
| `Messages` | the structures of package `types` | |
| `DeviceStore` | what package `storage` promises (abstract) | `Messages` |
| `Storage` | the goroutine, its channels, the file | `Messages`; instantiates `DeviceStore` |
| `Setup` | configuration and restart | `Storage` |
| `Server` | the device routes | `Setup` |
| `Ping` | what a ping promises its caller (abstract) | |
| `Pinger` | `CheckHealt`, `PingHost`, the run loop of the fork | instantiates `Ping` |
| `Power` | `POST /`, `POST /ping/:alias`, `devStatus` | `Server`; instantiates `Ping` |
| `Bot` | package `bot`, next to a web server | `Storage`; instantiates `Ping` |
| `Startup` | `config.Start` and the three `Start` methods | |
| `MC*` | the instances TLC checks | |
| `StorageProofs`, `SetupProofs`, `ServerProofs`, `PageProofs`, `PowerProofs`, `PingerProofs`, `BotProofs`, `StartupProofs` | the theorems | |

So the whole web server is `Power`: storage goroutine, configuration, device
routes and power routes in one specification, on an abstract pinger.
`DeviceStore` and `Ping` are the two seams: `Storage` and `Pinger` are shown
to implement them, `Power` and `Bot` to use them as they allow.

**Clients.** A client is a goroutine that runs one handler at a time. A Go
message carries its own response channel; as only its maker receives on it,
the channel is identified with the client. `call[c]` is where the client
stands: `idle`, `sending` (blocked until the goroutine receives), `waiting`
(blocked on the response channel), with the request and what was received.

**Storage.** Receiving a request and running its bbolt transaction is one
step, since nothing can tell the two moments apart; sending the answer is
another, and a list is sent alias by alias (`SendAlias`) before the channel is
closed (`SendReply`). A commit may fail; bbolt then rolls back. bbolt refuses
an empty key for an addition and finds nothing for an empty key elsewhere. The
password is the phrase whose hash is stored; `Nil`, a missing hash, matches no
phrase. `Die` is the end of the process, which the disk survives. A handler
that finds no bucket dereferences nil (`NilBucket`). This does not end the
process at once: while the panic unwinds, four of the six handlers close their
response channel, and `StartHandling` the database, and all other goroutines
go on. `loop` is then `dying`. A closed channel is a success for its client,
so `DeviceStore` has a `BreakDown` of a store that nothing was ever written to,
after which nothing takes effect any more.

**Setup.** `pc[c]` names the line of `handleConfigInit` / `InitLocal` at which
a request stands, in the order `getDB`, `open`, `buckets`, `insert`, `launch`,
`flag`. `OpenDB` is enabled only while the process has no file open: bbolt
locks the file exclusively and is called without a timeout, so a second open
waits for ever. A panic of a handler is recovered by `net/http`, which cuts the
connection: the reply `"aborted"`. A panic in the storage goroutine ends the
process, some steps of others later: `StoragePanics`, then `Restart`. `Start`
is `checkAlreadyRun` and the head of the servers' `Start`: with the file there
the flag is set and the goroutine runs. `initialized` is read and written
without a lock; every read of a Go bool is one load, so the model reads it
where the handler does.

**Server.** A handler that has the answer of a storage call makes the next
call in the same step, because it only touches its own data in between. The
variables `was`, `pws` and `wrote` are history: what was true, which passwords
were in force, and what was committed for a request since it began, the first
password included. They appear in no guard. bbolt keeps its keys in order and a
template ranges over a map in the order of its keys: `Position` is the place of
an alias in that order. `GetNext` looks up the aliases in this order and, after
the last one, renders the page: `Rendered` is the rows that are written. A nil
device, deleted between the list and its look-up, makes the template fail at
its row; `handleDevicesGet` drops the error of `Execute`, so the page ends there
and the devices after it are missing. Wherever `WriteForms` enumerates forms,
the fields range over everything the constants contain, the empty string
included.

**Ping and Pinger.** `Ping` is what a caller sees: it begins a ping, hosts are
heard, the ping ends. A positive outcome of a ping for a live host takes an
answer of *some* host; about negative outcomes, and about the report of a turn
off, the code promises nothing, so `Ping` does not either. In `Pinger` a call
makes one loop and one context, so the three share a name. The loop reads
`p.ctx`, `p.OnRecv` and `p.OnIdle` at each use, and so meets those of a later
call: `chan[k]` is the context whose `stop` channel the loop waits on, `wait[c]`
the one whose `done` a call waits on. `Stop` inside a callback is three points
(`stopR`, `readR`, `heldR`, with `I` for `OnIdle`), the last of which nothing
leaves. `AddIP` and `RemoveIP` next to a loop that ranges over the addresses
may end the process (`MapClash`). A loop opens a socket for each family of
addresses that was ever added, and has a receiver for each socket, all with one
context: the first that fails stops the main loop, if that is at its select
(`ReceiveFails`, `FailureSeen`), the second one closes the same channel again.
Receivers go on while a callback holds the main loop, for ever if it is held
for ever. A packet that is not the answer of an address still waited for makes
the loop enter its select anew (`DropPacket`), which matters because it reads
`p.ctx` again. The UDP mode, which the program does not use, is left out.

`races` names what makes two goroutines close one channel or use the map at
once: `overlap`, a call begins during another; `ticker`, a ticker expires
between the flag that a callback sets and the `Stop` it calls, which is no
accident, as `MaxRTT` of a second is in phase with the 10 and 75 seconds;
`answer`, a callback sets the flag after the ticker of its call; `receivers`,
both receivers of a loop fail. It is history, read by no guard: nothing is
excluded, and the properties that need it say which races they exclude.

**Power.** `HandleDeviceAction` reads `devStatus` to choose between packet and
command. `SendPacket` and `TurnOffDev` are the moments at which something
leaves; a packet can leave only for an IPv4 address (`getBcastAddr`), which
nobody checks at the registration. `ActionFails` is the error of either: of a
packet it means that nothing left; of a command it may come before anything
left or after the device got the command. A ping follows (`PingHost`, `Report`).
`CheckHealt` and `SetStatus` are the two halves of `POST /ping/:alias`. That
Go ends a process in which two goroutines are seen to use a map at once is
part of `Restart`. `acted` is what left for a device on behalf of a request,
`answers` the hosts heard by the ping whose result was stored last: history,
read by no guard.

**Bot.** An update is a client of `Storage`; the other clients are a web
server that may send anything and configures the service (`WebServer`).
`HandleUpdate` is `handleUpdate` up to the first call; `Conclude` is the end of
a round of `deviceWake`, whose five places that go on to the next alias are
`WakeNone`, `SendPacketFails` and the cases of `WakePinged`. No command takes
two messages. The refusal of a user who is not allowed is a text that the
answer of the command replaces, as in `telegram.go:88`; all properties are
about the messages of both users. Nothing recovers a panic here, so a panic of
a handler is `Restart`.

**Startup.** `Script` is the order of the steps of each server. A folder is
missing, closed (its mode is 0, as `CheckIfFolderExist` makes it), open, or a
file; `Privileged` says whether the process may use a closed one. `Setup`
starts where `Startup` ends: on a folder that can be used.

Parsing a form, decoding a token or loading a template is reduced to whether
it fails: a failed parse is `RejectConfig`, `WriteRejected` or
`RootPostRejected`; templates are embedded in the program, parse, and fail to
execute only over the nil device named above.

Definitions marked `Mutant` are faulty variants of the definition below them.
No specification uses them; each shows that a property notices that fault.

## Runs

| Run | Instance | Properties | What it shows |
|---|---|---|---|
| `storage` | 2 clients, 2 aliases, 1 device, 1 password | `StorageTypeOK`, `OneInService`, `ImplementsDeviceStore`, `CallsAnswered` | under clients that send anything at any time, channels and loop are atomic operations on a durable map, and nobody is left blocked |
| `setup` | 3 clients, 2 passwords | `SetupTypeOK`, `OneConfigurer`, `ReadyWhenInitialized`, `ConfigurationProgress`, `PasswordStands`, `ConfigAnswered` | racing configurations, failing steps, crashes anywhere; only a wait for the lock of the process's own file can hang |
| `setup_first_start` | 1 client | `InitializedOnFirstStart`, **violated** | finding 1 |
| `server` | 2 clients, 2 aliases, 2 devices of which 1 has a valid Mac, 1 password, all device routes | `ServerTypeOK`, `RepliesTruthful`, `AuthorisedWrites`, `DevicesPageTruthful`, `SinglePagesTruthful`, `DevicesStand` | answers, pages and writes against what was committed and in force; whose entry a request may change |
| `server_rename` | 1 client | `RenameCreates`, **violated** | finding 2 |
| `pinger` | 2 calls, one after the other; a health check or a turn off of an IPv4 host, a wake-up of an IPv6 host | `PingerTypeOK`, `PositiveWasHeard`, `PanicsNeedRace`, `NegativeCleansUp`, `PingsEnd` | what an earlier ping leaves behind does not harm the next; the four races are all there are |
| `pinger_refines` | a wake-up and a turn off of one host that overlap | `ImplementsPing` | what callers see is what `Ping` allows |
| `pinger_done` | 1 call | `DoneCloses`, **violated** | finding 3 |
| `power` | 2 clients, 1 alias, 1 device; wake, turn off, ping, register, configure | `PowerTypeOK`, `PowerAuthorised`, `PowerRepliesTruthful`, `OffNeedsAnswer`, `PowerServed` | what is sent, for whom and on what evidence; which requests may hang |
| `bot` | 1 update and 1 web client, every command, `/wakeup` with up to 3 arguments | `BotTypeOK`, `BotRepliesTruthful`, `WakeTruthful`, `AwakeWasHeard`, `BotUsesStorage`, `BotAnswered` | answers against what was true, while devices come and go |
| `startup` | every configuration, every kind of folder | `StartTypeOK`, `ServesAsConfigured`, `OffersOnlyWhenNew`, `StartsOrDies` | every start, failing, killed or not, of all three servers |
| `startup_proxy` | the same | `ProxyHonoured`, **violated** | finding 4 |

**Bounds.** Most models have no counters, and the constants are the only
bounds. Two clients are enough for every pair of overlapping requests; the
third one of `setup` lets one configuration be overtaken by two others. Two
aliases are needed for a rename and for a list that is more than one send; two
devices for an entry that is refused; two passwords for a change that is one.
`server` and `power` have one password, besides the empty one and the state
without any, and so show only requests that were refused or admitted on the
one; a change in the middle of a request is what the proofs of
`AuthorisedWrites` and `PowerAuthorised` are for.
`Routes` restricts which routes receive requests in a run, never what a handler
does; `POST /config` is always open, because every run starts with no file.
In `power` there is one alias and one device, which is there or not: it is
registered, and deleted by a refused rename, in the middle of requests, but
never replaced by another one, as a second device makes millions of states.
That what is sent goes to the right one of several devices is shown by the
proof of `PowerRepliesTruthful`, for all routes together.

`Pinger` lets each member of `Calls` be used once per process (`Restart` makes
them new): the bound on the pings of one process. `AtOnce` bounds those in
progress at the same time. It is 1 in `pinger`, where the second call meets
whatever the first one has left, with two families of addresses, so that a
loop has two sockets; no property depends on it, as all of them name the
overlap. It is 2 in `pinger_refines`, where `Asked` is the pair of a wake-up
and a turn off of one host, the two kinds whose callbacks both do something
different. That run identifies states by the view `Present`, which leaves out
the history `races` and the variables of calls and loops after their last use;
neither the actions nor `ImplementsPing` read these. In `Bot` the
`Commands` are all combinations of user, command and up to one argument, and
`/wakeup` with repeated ones; `WebRequests` are additions and deletions.
Crashes are unbounded everywhere. Symmetry is used only in runs without a
liveness property.

The largest runs have 1.6 million (`pinger_refines`), 871000 (`server`), 305000
(`power`), 215000 (`pinger`) and 54000 (`bot`) distinct states, the smallest
that passes 8500 (`startup`).

**Fairness.** The Go scheduler runs what can run: weak fairness for each
handler's own steps and for the sends of the storage goroutine. `select` picks
at random among ready cases, and the senders of one channel queue: strong
fairness for receiving from each client, for a run loop that sees its closed
`stop` channel, and for a ticker. There is no fairness for arriving requests,
crashes, failing disk operations, or answers of hosts. Nothing is assumed of
`http.Post`, which has no timeout, nor of a ping in `Power` and `Bot`: their
liveness properties name these as the places where a request may stay. `Start`
assumes only that the main goroutine goes on.

No assumption about time is made: a ticker may expire at any moment of its
call, next to any step of a loop, a callback or a receiver. A panic that has
begun ends the process, as nothing that is deferred blocks.

**Deadlock** is checked in all runs, but says little, as the process can
always be killed; the liveness properties are what rules out blocked clients.

## Findings

1. *A crash during the first configuration locks the service*
   (`config/configFile.go:87`). `storage.Open` creates `rwol.db` before the
   buckets and the password are committed. A start after a crash in between
   finds the file, sets `initialized` and starts the goroutine: every password
   is refused, `/config` only offers the change of a password that does not
   exist, and if the buckets are missing too, the first request ends the
   process, again and again under `Restart=always`. `storage/handler.go:46`
   says that `InitLocal` initializes the db on the first start.
2. *A refused rename deletes the device* (`server/commons.go:224`).
   `handleDevicePost` deletes the old alias, "in order to create a new one in
   db", and only then has the new data checked; with a bad Mac, an empty name
   or a failing commit nothing is created, and line 232 dereferences the nil
   alias, so the client does not even get an error page.
3. *A positive ping never closes `Done`* (`fastping.go:377` of the fork).
   `Stop` waits for the end of the run loop, and the callbacks call it inside
   that loop. The loop, its goroutines and its socket stay until the process
   ends, and the caller learns the answer only from its ticker, after 10 or 75
   seconds. `fastping.go:365` says that `Done` is closed when the loop is
   stopped.
4. *Let's Encrypt ignores the reverse proxy* (`server/letsencryptserver.go:38`).
   `handleProxy` wraps the handler at line 38, and `configureBox` replaces it
   with the bare router at line 49; the other two servers do it the other way
   round. `README.md:57` offers the service behind a reverse proxy, for any
   server. `ServesAsConfigured` of the run that passes is silent about the
   wrapper of this server.

Further observations, against which no text of the repository speaks; where a
property touches them it names them as an exception:

- two first configurations that both found no open database leave one of them
  blocked for the life of the process (`ConfigAnswered`);
- `handleManageDevicePost` panics instead of answering 422
  (`server/commons.go:125`); `RepliesTruthful` says that a connection cut like
  this hides nothing but the deletion of finding 2;
- with a database without buckets (finding 1) the storage goroutine panics on a
  change of the password and closes the response channel on its way out;
  `handleConfigUpdate` takes that for a success (`server/commons.go:354`), and
  if it is quicker than the end of the process, the client is told that a
  password was changed of which there is none (`ToldByPanic` in
  `RepliesTruthful`, `BreakDown` in `DeviceStore`);
- the list of devices ends at a device that was deleted while the list was
  collected, and shows its alias (`server/commons.go:147`,
  `templates/device-list.gohtml:94`; `DevicesPageTruthful` lets a device be
  missing only if one before it came and went);
- the command of a Telegram user who is not allowed is carried out, and its
  answer replaces the refusal (`bot/telegram.go:88`, against line 32);
- a device with an address that is not IPv4 can be registered and never be
  woken up (`utils/functions.go:145`);
- with overlapping pings the answer of one host is reported as that of another
  (`utils/functions.go:98`; `PositiveWasHeard` is about calls that do not
  overlap, `Ping` about those that do);
- `OnIdle` of a turn off reports "asleep" at the first tick, even after an
  answer (`utils/functions.go:52`);
- an answer next to the ticker of its call, before or after it, closes a
  channel twice or stops the context of the next call: the request is aborted
  or, in a callback, the process ends (`PanicsNeedRace`);
- once addresses of both families were pinged, the failure of both sockets of a
  loop ends the process (`fastping.go:585` of the fork; `PanicsNeedRace`);
- `devStatus` survives a deletion, so that a device registered under an old
  alias is turned off on the strength of its predecessor's ping
  (`server/commons.go:412`; `OffNeedsAnswer` speaks of the alias);
- `/wakeup` of a device that is awake sends the packet all the same and then
  pings it as a turn off does, whose report means the opposite
  (`bot/telegram.go:148`);
- the bot's turn off reads port and command without the defaults that the web
  server has (`bot/telegram.go:75`, `config/configFile.go:108`);
- a missing storage folder is made with mode 0 (`utils/functions.go:129`): a
  process without privileges then takes the closed folder for a database
  (`OffersOnlyWhenNew` allows this, the other direction not).

## Proofs

`tlapm` checks each `*Proofs` module, for any sets of clients, aliases,
devices, passwords, calls and hosts, assuming only the named assumptions of
the modules: `Nil` and `Empty` are none of the others, a record is not `Nil`,
`Calls` is finite, and the subsets are subsets. TLC evaluates them in the runs.

- `StorageTypeCorrect`, `ServiceCorrect`: the type invariant and
  `OneInService`. Together they are inductive: a handler starts only from the
  select, when nobody waits, and the one that waits is the one being served.
- `StorageImplements`: `StorageSpec => ImplementsDeviceStore`. The abstract
  operation of a client takes effect when its handler runs; its result is what
  was sent together with what is still to be sent, so `SendAlias` is a stutter.
  `OneInService` is what makes the two parts belong to one client.
- `SetupTypeCorrect`, `OneConfigurerHolds`, `ReadyWhenInitializedHolds`,
  `ConfigurationProgressHolds`: the first two invariants are not inductive.
  What is missing is what each point of a configuration may rely on, and that
  an open database without a password has no goroutine unless the process
  found the file: `ConfigurationProgress`. `SetupInv`, the conjunction of the
  three, is inductive. `PasswordStandsHolds` follows from `CallsAccounted`: a
  call under way belongs to a change of the password that still waits and
  carries the password it presented.
- `ServerTypeCorrect`, `AuthorisedWritesHolds`, `RepliesTruthfulHolds`,
  `DevicesStandHolds` from `ServerInv`: the types, `OneInService`, `SetupInv`,
  and for each request `Accounted(c)`, which ties its `pc`, `req`, `call` and
  histories together: which call a point awaits, and with which of the
  request's own fields (`CallOK`), that the password in force is always among
  those the request has seen, so the one that was compared with its own is too
  (`AuthorOK`), which routes come to which point (`RouteOK`), and what has been
  committed when (`WroteOK`). A result counts from the moment the request is
  served, also while it is on its way (`ResultFor`), because that is when it
  was true. `WroteOK` covers `/config` as well: of the configurations that race
  for the insertion only the one that made it gets to an OK, and the success
  that a closed channel fakes is met only while `loop` is `dying`
  (`ToldByPanic`).
  For `DevicesStand`, `RequestsWriteNothing` shows that no step of a request
  touches the entries, and `ServeWrites` that a step of the storage goroutine
  does what the call of its client says, which by `CallOK` is what the request
  names.
- `DevicesPageTruthfulHolds`, `SinglePagesTruthfulHolds` from `Viewed(c)`:
  while a reader runs, its history holds the devices as they are, so an answer
  enters the history when the call is served; `Covered` says which aliases the
  loop of `getAllDevices` has still to account for. Of what the template cuts
  off, a row that stays the least nil entry comes before it, and a nil entry is
  an alias that was listed, so it was registered, and was gone at its look-up.
- `PowerTypeCorrect`, `PowerAuthorisedHolds`, `PowerRepliesTruthfulHolds`,
  `OffNeedsAnswerHolds` from `PowerInv`: `SetupInv`, `Accounted` and `Viewed`
  again, whose lemmas are stated for one step of one request and so serve this
  larger specification too, and `PowerOK(c)`: what left, for whom, that nothing
  has left before the point `sent`, and that a stored yes was heard. TLC has
  checked `PowerInv` on the instance of `power`, and `ServerInv` and `Viewed` on
  that of `server`.
- `PowerSpec` has every route, while the runs of `setup` and `server` each have
  a part of them, to stay small. So what those runs check is proved once more
  of the whole web server: `WholeOneConfigurer`, `WholeReadyWhenInitialized`,
  `WholeConfigurationProgress`, `WholePasswordStands`, `WholeAuthorisedWrites`,
  `WholeRepliesTruthful`, `WholeDevicesStand`, `WholeDevicesPageTruthful` and
  `WholeSinglePagesTruthful`. The lemmas about `SetupInv` (`SetupInvStep`,
  `SetupInvStands`) leave open at which points other handlers may stand; what
  has to be added is that no device or power route moves a request to a point
  of `Configuring` or touches disk, flags or loop (`RoutesKeepSetup`,
  `PowerKeepsSetup`).
- `SetupImplements`, `ServerImplements`, `PowerImplements`, `BotImplements`:
  every step of these specifications is a step of `StorageSpec` or leaves the
  storage alone, so what is proved of package storage holds in all of them.
  `PowerUsesPing`, `BotUsesPing`: the handlers use pings as `Ping` allows.
- `PingerTypeCorrect`, `PingerImplements` from `PingerInv`: the fields a loop
  reads have been set by then, a flag is owed to an answer or to a turn off,
  an answer comes from a host some call in progress is about. So a call that
  ends maps to `End`, an answer to `Hear`, all else to a stutter.
  `PositiveWasHeardHolds` needs, until calls overlap, that a flag is owed to the
  own host of its call (`SoloOK`): an answer comes from a host of a call in
  progress, and there is only one.
- `PanicsNeedRaceHolds`, `NegativeCleansUpHolds` from `TidyOK`, which speaks of
  a process that has seen none of the four races; as `races` only grows
  (`RacesGrow`), it had seen none before a step either. From `RunLoop` to its
  end all fields are those of the one call in progress, and its flag tells
  whether a callback has called `Stop` or the call itself will (`Attended`); an
  ended call has a loop that is over or, after a yes, one that waits for its own
  `Done` for ever and touches nothing (`Settled`). Its receivers may still fail
  (`FailTidy`), which ends the process only in the second of two sockets.
  TLC has checked `TidyOK` on the instance of `pinger`.
- `BotUsesStorageHolds`, `AwakeWasHeardHolds`: a loop of `/wakeup` that goes
  on has an alias to go on with (`ArgumentsOK`), and a call that has an outcome
  has a ping (`PingsOK`).
- `BotTypeCorrect`, `BotRepliesTruthfulHolds`, `WakeTruthfulHolds` from
  `BotInvariant`, which says for each message (`Handler(u)`) which call its
  point awaits, what it knows from the result that is being sent, and which
  words of a report are settled. What was true during a message only grows, so
  a word stays true once it is said. An alias of `/wakeup` without a word is
  still in `rest`, which is empty when the report is sent. TLC has checked the
  invariant on the instance of `bot` and with two aliases for one update.
- `StartTypeCorrect`, `ServesAsConfiguredHolds`, `OffersOnlyWhenNewHolds` from
  `StartInv`: what is left to do is the script after its first k steps, and
  `Built(k)` says what those have made, for each of the two orders of `Script`.

So every invariant and every action property of the runs that pass is a
theorem. Only model-checked are the liveness properties (`CallsAnswered`,
`ConfigAnswered`, `PingsEnd`, `PowerServed`, `BotAnswered`, `StartsOrDies`), as
fairness and `ENABLED` are out of the prover's reach. There is no induction over
data and no recursive operator in the modules.

## Plan

Everything the plan named is done but one part: the arithmetic of
`getBcastAddr`, of which only the error is modelled. A prefix without its slash,
with which the router panics at the start, is one of the deaths of `Startup`
that `Kill` stands for. What could follow:
`Power` and `Bot` in one specification, whose two kinds of clients are so far
composed only through what `Storage` and `Ping` promise to any clients.

## Not modelled

The arithmetic of the broadcast address (its error is an outcome in `Power` and
`Bot`), the look-ups of the configuration file and the wording of the log,
templates (but for the end of the list of devices) and their embedded copy,
vendored libraries beyond what their callers
see, the UDP mode of the pinger, scripts and images.
bcrypt is a comparison of phrases: its cost, its limit of 72 bytes and the
error of `GenerateFromPassword` that `updatePassword` drops are left out. A
device is opaque: a decoded entry is the device that was encoded, and decoding
an alias that has no entry is an error, as in `getDevice`. Pages that only
display (`GET /manage-dev`, `GET /config`, the error routes) change nothing.
