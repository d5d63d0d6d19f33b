------------------------------- MODULE Pinger -------------------------------
(***************************************************************************)
(* The one ICMP pinger of the process and the calls of CheckHealt and      *)
(* PingHost (utils/functions.go) that share it.                            *)
(*                                                                         *)
(* Every call installs its callbacks, starts a run loop of the author's    *)
(* fork of go-fastping with RunLoop, and waits for the loop's Done channel *)
(* or for a ticker.  A call makes exactly one loop and one context, so all *)
(* three go by the name of the call.  The loop reads p.ctx, p.OnRecv and   *)
(* p.OnIdle anew at every use, and so may meet those of a later call.  It  *)
(* opens one socket for each family of addresses that was ever added, and  *)
(* every socket has a receiver, a goroutine of its own.                    *)
(***************************************************************************)
EXTENDS Naturals, FiniteSets

CONSTANTS
  Calls,        \* the calls in the life of a process
  Hosts,        \* the IP strings of the devices
  Addressable,  \* those that net.ParseIP accepts
  IPv6,         \* those that are addresses of that family
  Asked,        \* the pings that are asked for: a kind and a host
  AtOnce,       \* bound: how many calls may be in progress at once
  Nil

ASSUME PingerAssumption ==
  /\ IsFiniteSet(Calls)
  /\ Nil \notin Calls \cup Asked
  /\ IPv6 \subseteq Addressable /\ Addressable \subseteq Hosts
  /\ Asked \subseteq [kind : {"health", "wake", "off"}, host : Hosts]
  /\ AtOnce \in Nat \ {0}

VARIABLES
  up,        \* the process is alive
  addrs,     \* p.addrs
  hasIP,     \* the families whose flag is set: p.hasIPv4, p.hasIPv6
  ctx,       \* p.ctx
  onRecv,    \* the call whose closure is in p.OnRecv
  onIdle,    \* the call whose closure is in p.OnIdle
  stops,     \* the contexts whose channel stop is closed
  dones,     \* the contexts whose channel done is closed
  errs,      \* the contexts whose err is set
  at,        \* where a call is
  ping,      \* its kind and its host
  flag,      \* its variable alive or stopped, which its callbacks set
  wait,      \* the context whose done it waits for
  outcome,   \* what it returns
  loop,      \* where the run loop of a call is
  chan,      \* the context on whose channel the loop waits
  queue,     \* the hosts that have not answered its last echo
  sockets,   \* the families a loop has a socket open for
  broken,    \* the loops that have a receiver gone with an error: recvCtx.done
  heard,     \* history: the hosts that answered while the call was in progress
  races      \* history: the races that the process has seen

fields == <<addrs, hasIP, ctx, onRecv, onIdle>>
contexts == <<stops, dones, errs>>
calls == <<at, ping, flag, wait, outcome>>
loops == <<loop, chan, queue, sockets, broken>>
history == <<heard, races>>
pingerVars == <<up, fields, contexts, calls, loops, history>>

Families == {"v4", "v6"}
Family(h) == IF h \in IPv6 THEN "v6" ELSE "v4"

(***************************************************************************)
(* What makes two goroutines close the same channel or use the map at once:*)
(*   overlap    a call begins while another one is in progress;            *)
(*   ticker     a ticker expires while a callback is about to call Stop;   *)
(*   answer     a callback sets the flag of a call after its ticker;       *)
(*   receivers  both receivers of a loop fail.                             *)
(***************************************************************************)
Races == {"overlap", "ticker", "answer", "receivers"}

Kinds == {"health", "wake", "off"}
Outcomes == {"none", "yes", "no", "error", "aborted"}

CallPoints == {"new", "added", "half", "ready", "started", "select", "check",
               "stop", "read", "blocked", "leave", "ended"}

\* R and I tell Stop inside OnRecv from Stop inside OnIdle.
LoopPoints == {"none", "listen", "listen6", "send", "select", "end", "endErr", "close", "over",
               "stopR", "readR", "heldR", "stopI", "readI", "heldI"}

\* The callback has set the flag, and Stop does not wait yet.
Calling == {"stopR", "readR", "stopI", "readI"}

PingerInit ==
  /\ up = TRUE
  /\ addrs = {} /\ hasIP = {} /\ ctx = Nil /\ onRecv = Nil /\ onIdle = Nil
  /\ stops = {} /\ dones = {} /\ errs = {}
  /\ at = [c \in Calls |-> "new"]
  /\ ping = [c \in Calls |-> Nil]
  /\ flag = [c \in Calls |-> FALSE]
  /\ wait = [c \in Calls |-> Nil]
  /\ outcome = [c \in Calls |-> "none"]
  /\ loop = [c \in Calls |-> "none"]
  /\ chan = [c \in Calls |-> Nil]
  /\ queue = [c \in Calls |-> {}]
  /\ sockets = [c \in Calls |-> {}]
  /\ broken = {}
  /\ heard = [c \in Calls |-> {}]
  /\ races = {}

InProgress == {c \in Calls : at[c] \notin {"new", "ended"}}

-----------------------------------------------------------------------------
(* Ends of the process: a panic outside of the HTTP handlers, or a map     *)
(* that is written while it is read.                                       *)

Fresh ==
  /\ addrs' = {} /\ hasIP' = {} /\ ctx' = Nil /\ onRecv' = Nil /\ onIdle' = Nil
  /\ stops' = {} /\ dones' = {} /\ errs' = {}
  /\ at' = [c \in Calls |-> "new"]
  /\ ping' = [c \in Calls |-> Nil]
  /\ flag' = [c \in Calls |-> FALSE]
  /\ wait' = [c \in Calls |-> Nil]
  /\ outcome' = [c \in Calls |-> "none"]
  /\ loop' = [c \in Calls |-> "none"]
  /\ chan' = [c \in Calls |-> Nil]
  /\ queue' = [c \in Calls |-> {}]
  /\ sockets' = [c \in Calls |-> {}]
  /\ broken' = {}
  /\ heard' = [c \in Calls |-> {}]

End == up' = FALSE /\ Fresh
Die == End /\ UNCHANGED races

\* sendICMP ranges over p.addrs without the lock that AddIP and RemoveIP take.
MapClash == (\E k \in Calls : loop[k] = "send") /\ End

-----------------------------------------------------------------------------
(* A call. *)

Goto(c, l) == at' = [at EXCEPT ![c] = l]

Leave(c, o) ==
  /\ Goto(c, "leave")
  /\ outcome' = [outcome EXCEPT ![c] = o]

\* AddIP ignores, as its callers do, an address that does not parse.
AddIP(c) ==
  /\ at[c] = "new"
  /\ Cardinality(InProgress) < AtOnce
  /\ races' = IF InProgress = {} THEN races ELSE races \cup {"overlap"}
  /\ \/ /\ \E p \in Asked :
             /\ ping' = [ping EXCEPT ![c] = p]
             /\ addrs' = addrs \cup ({p.host} \cap Addressable)
             /\ hasIP' = hasIP \cup {Family(h) : h \in {p.host} \cap Addressable}
        /\ Goto(c, "added")
        /\ UNCHANGED <<up, ctx, onRecv, onIdle, contexts, flag, wait, outcome, loops, heard>>
     \/ MapClash

\* CheckHealt assigns OnRecv and then OnIdle, PingHost the other way round.
SetHandler(c) ==
  /\ at[c] \in {"added", "half"}
  /\ IF (at[c] = "added") = (ping[c].kind = "health")
     THEN onRecv' = c /\ UNCHANGED onIdle
     ELSE onIdle' = c /\ UNCHANGED onRecv
  /\ Goto(c, IF at[c] = "added" THEN "half" ELSE "ready")
  /\ UNCHANGED <<up, addrs, hasIP, ctx, contexts, ping, flag, wait, outcome, loops, history>>

\* Mutant: RunLoop makes no context of its own.
RunLoopBare(c) ==
  /\ at[c] = "ready"
  /\ loop' = [loop EXCEPT ![c] = "listen"]
  /\ Goto(c, "started")
  /\ UNCHANGED <<up, fields, contexts, ping, flag, wait, outcome, chan, queue, sockets, broken,
                 history>>

RunLoop(c) ==
  /\ at[c] = "ready"
  /\ ctx' = c
  /\ loop' = [loop EXCEPT ![c] = "listen"]
  /\ Goto(c, "started")
  /\ UNCHANGED <<up, addrs, hasIP, onRecv, onIdle, contexts, ping, flag, wait, outcome,
                 chan, queue, sockets, broken, history>>

\* pinger.Done() is evaluated when the select begins.
Watch(c) ==
  /\ at[c] = "started"
  /\ wait' = [wait EXCEPT ![c] = ctx]
  /\ Goto(c, "select")
  /\ UNCHANGED <<up, fields, contexts, ping, flag, outcome, loops, history>>

\* With an error CheckHealt returns false, PingHost the error, both without Stop.
DoneSeen(c) ==
  /\ at[c] = "select"
  /\ wait[c] \in dones
  /\ IF ctx \in errs
     THEN Leave(c, IF ping[c].kind = "health" THEN "no" ELSE "error")
     ELSE Goto(c, "check") /\ UNCHANGED outcome
  /\ UNCHANGED <<up, fields, contexts, ping, flag, wait, loops, history>>

(***************************************************************************)
(* The ticker of 10 or 75 seconds, at any time.  MaxRTT is in phase with   *)
(* it, so a callback may well be between its assignment and its Stop.      *)
(***************************************************************************)
Timeout(c) ==
  /\ at[c] = "select"
  /\ races' = IF \E k \in Calls : loop[k] \in Calling THEN races \cup {"ticker"} ELSE races
  /\ Goto(c, "check")
  /\ UNCHANGED <<up, fields, contexts, ping, flag, wait, outcome, loops, heard>>

\* Mutant: Stop is called again although a callback has called it.
CheckAlwaysStops(c) ==
  /\ at[c] = "check"
  /\ Goto(c, "stop")
  /\ UNCHANGED <<up, fields, contexts, ping, flag, wait, outcome, loops, history>>

\* No Stop when a callback has called it.
Check(c) ==
  /\ at[c] = "check"
  /\ IF flag[c] THEN Leave(c, "yes") ELSE Goto(c, "stop") /\ UNCHANGED outcome
  /\ UNCHANGED <<up, fields, contexts, ping, flag, wait, loops, history>>

\* Closing a closed channel panics: net/http recovers, the bot does not.
StopClose(c) ==
  /\ at[c] = "stop"
  /\ \/ /\ ctx \notin stops
        /\ stops' = stops \cup {ctx}
        /\ Goto(c, "read")
        /\ UNCHANGED <<up, fields, dones, errs, ping, flag, wait, outcome, loops, history>>
     \/ /\ ctx \in stops
        /\ Leave(c, "aborted")
        /\ UNCHANGED <<up, fields, contexts, ping, flag, wait, loops, history>>
     \/ ctx \in stops /\ Die

StopRead(c) ==
  /\ at[c] = "read"
  /\ wait' = [wait EXCEPT ![c] = ctx]
  /\ Goto(c, "blocked")
  /\ UNCHANGED <<up, fields, contexts, ping, flag, outcome, loops, history>>

StopDone(c) ==
  /\ at[c] = "blocked"
  /\ wait[c] \in dones
  /\ Leave(c, IF flag[c] THEN "yes" ELSE "no")
  /\ UNCHANGED <<up, fields, contexts, ping, flag, wait, loops, history>>

\* Mutant: there is no deferred RemoveIP.
RemoveNothing(c) ==
  /\ at[c] = "leave"
  /\ Goto(c, "ended")
  /\ UNCHANGED <<up, fields, contexts, ping, flag, wait, outcome, loops, history>>

\* The deferred call.
RemoveIP(c) ==
  /\ at[c] = "leave"
  /\ \/ /\ addrs' = addrs \ {ping[c].host}
        /\ Goto(c, "ended")
        /\ wait' = [wait EXCEPT ![c] = Nil]
        /\ UNCHANGED <<up, hasIP, ctx, onRecv, onIdle, contexts, ping, flag, outcome, loops,
                       history>>
     \/ MapClash /\ UNCHANGED races

-----------------------------------------------------------------------------
(* The run loop of a call. *)

Step(k, l) == loop' = [loop EXCEPT ![k] = l]

\* sendICMP begins to range over the addresses.
StartSending(k) ==
  /\ Step(k, "send")
  /\ queue' = [queue EXCEPT ![k] = addrs]

\* The main loop enters its select and evaluates p.ctx.stop.
Select(k) ==
  /\ Step(k, "select")
  /\ chan' = [chan EXCEPT ![k] = ctx]

(***************************************************************************)
(* The socket for IPv4 and then the one for IPv6, if an address of the     *)
(* family was ever added.  Either may be refused.                          *)
(***************************************************************************)
Listen(k) ==
  /\ loop[k] \in {"listen", "listen6"}
  /\ LET f == IF loop[k] = "listen" THEN "v4" ELSE "v6"
     IN  \/ /\ sockets' = [sockets EXCEPT ![k] = @ \cup ({f} \cap hasIP)]
            /\ IF f = "v4" THEN Step(k, "listen6") /\ UNCHANGED queue ELSE StartSending(k)
            /\ UNCHANGED errs
         \/ /\ f \in hasIP
            /\ errs' = errs \cup {ctx}
            /\ Step(k, "close")
            /\ UNCHANGED <<queue, sockets>>
  /\ UNCHANGED <<up, fields, stops, dones, calls, chan, broken, history>>

(***************************************************************************)
(* An address that comes or goes while sendICMP ranges over them may be met*)
(* or not; one without a socket of its family is passed over.              *)
(***************************************************************************)
Sent(k) ==
  /\ loop[k] = "send"
  /\ Select(k)
  /\ \E Q \in SUBSET (queue[k] \cup addrs) :
       /\ queue[k] \cap addrs \subseteq Q
       /\ queue' = [queue EXCEPT ![k] = {h \in Q : Family(h) \in sockets[k]}]
  /\ UNCHANGED <<up, fields, contexts, calls, sockets, broken, history>>

StopSeen(k) ==
  /\ loop[k] = "select"
  /\ chan[k] \in stops
  /\ Step(k, "end")
  /\ UNCHANGED <<up, fields, contexts, calls, chan, queue, sockets, broken, history>>

(***************************************************************************)
(* recvICMP: a receiver runs from the first sendICMP until the main loop   *)
(* has ended and waited for it, also while a callback holds that loop.  An *)
(* error other than the timeout of 100 ms makes it close recvCtx.done and  *)
(* go; the one of the other socket closes it again, and nobody recovers.   *)
(***************************************************************************)
ReceiveFails(k) ==
  /\ loop[k] \notin {"none", "listen", "listen6", "close", "over"}
  /\ \/ /\ k \notin broken /\ sockets[k] # {}
        /\ broken' = broken \cup {k}
        /\ UNCHANGED <<up, fields, contexts, calls, loop, chan, queue, sockets, history>>
     \/ /\ k \in broken /\ sockets[k] = Families
        /\ End
        /\ races' = races \cup {"receivers"}

\* The main loop finds recvCtx.done closed.
FailureSeen(k) ==
  /\ loop[k] = "select"
  /\ k \in broken
  /\ Step(k, "endErr")
  /\ UNCHANGED <<up, fields, contexts, calls, chan, queue, sockets, broken, history>>

\* The callback of call c reports that what c waits for has happened.
Report(c) ==
  /\ flag' = [flag EXCEPT ![c] = TRUE]
  /\ races' = IF at[c] \in {"started", "select"} THEN races ELSE races \cup {"answer"}
  /\ UNCHANGED <<at, ping, wait, outcome>>

\* Mutant: the callbacks of a wake-up are swapped.
TickReports(k) ==
  /\ loop[k] = "select"
  /\ Report(onIdle) /\ Step(k, "stopI")
  /\ UNCHANGED <<up, fields, contexts, chan, queue, sockets, broken, heard>>

\* MaxRTT has passed.  Only the OnIdle of a turn off does more than log.
Tick(k) ==
  /\ loop[k] = "select"
  /\ IF ping[onIdle].kind = "off"
     THEN Report(onIdle) /\ Step(k, "stopI") /\ UNCHANGED queue
     ELSE StartSending(k) /\ UNCHANGED <<calls, races>>
  /\ UNCHANGED <<up, fields, contexts, chan, sockets, broken, heard>>

\* Mutant: procRecv takes an answer of anybody it once sent an echo to.
ReplyAnyone(k, h) ==
  /\ loop[k] = "select"
  /\ Family(h) \in sockets[k]
  /\ queue' = [queue EXCEPT ![k] = @ \ {h}]
  /\ heard' = [c \in Calls |-> IF c \in InProgress THEN heard[c] \cup {h} ELSE heard[c]]
  /\ IF ping[onRecv].kind # "off"
     THEN Report(onRecv) /\ Step(k, "stopR") /\ UNCHANGED chan
     ELSE Select(k) /\ UNCHANGED <<calls, races>>
  /\ UNCHANGED <<up, fields, contexts, sockets, broken>>

(***************************************************************************)
(* procRecv: an answer of a host that is among the addresses and has not   *)
(* answered the last echo.  The callbacks do not look whose answer it is.  *)
(***************************************************************************)
ProcRecv(k, h) ==
  /\ loop[k] = "select"
  /\ Family(h) \in sockets[k]
  /\ h \in addrs \cap queue[k]
  /\ queue' = [queue EXCEPT ![k] = @ \ {h}]
  /\ heard' = [c \in Calls |-> IF c \in InProgress THEN heard[c] \cup {h} ELSE heard[c]]
  /\ IF ping[onRecv].kind # "off"
     THEN Report(onRecv) /\ Step(k, "stopR") /\ UNCHANGED chan
     ELSE Select(k) /\ UNCHANGED <<calls, races>>
  /\ UNCHANGED <<up, fields, contexts, sockets, broken>>

\* procRecv drops any other packet, and the main loop enters its select again.
DropPacket(k) ==
  /\ loop[k] = "select"
  /\ sockets[k] # {}
  /\ Select(k)
  /\ UNCHANGED <<up, fields, contexts, calls, queue, sockets, broken, history>>

\* The callback calls Stop, inside of the loop that is to be stopped.
CallbackStops(k) ==
  /\ loop[k] \in {"stopR", "stopI"}
  /\ \/ /\ ctx \notin stops
        /\ stops' = stops \cup {ctx}
        /\ Step(k, IF loop[k] = "stopR" THEN "readR" ELSE "readI")
        /\ UNCHANGED <<up, fields, dones, errs, calls, chan, queue, sockets, broken, history>>
     \/ ctx \in stops /\ Die

CallbackWaits(k) ==
  /\ loop[k] \in {"readR", "readI"}
  /\ Step(k, IF loop[k] = "readR" THEN "heldR" ELSE "heldI")
  /\ chan' = [chan EXCEPT ![k] = ctx]
  /\ UNCHANGED <<up, fields, contexts, calls, queue, sockets, broken, history>>

CallbackReturns(k) ==
  /\ chan[k] \in dones
  /\ \/ loop[k] = "heldR" /\ Select(k) /\ UNCHANGED queue
     \/ loop[k] = "heldI" /\ StartSending(k) /\ UNCHANGED chan
  /\ UNCHANGED <<up, fields, contexts, calls, sockets, broken, history>>

\* After the main loop: the receivers are gone, the error is recorded.
Wind(k) ==
  /\ loop[k] \in {"end", "endErr"}
  /\ errs' = IF loop[k] = "endErr" THEN errs \cup {ctx} ELSE errs \ {ctx}
  /\ Step(k, "close")
  /\ UNCHANGED <<up, fields, stops, dones, calls, chan, queue, sockets, broken, history>>

\* Mutant: run returns without closing done.
CloseNothing(k) ==
  /\ loop[k] = "close"
  /\ Step(k, "over")
  /\ sockets' = [sockets EXCEPT ![k] = {}]
  /\ UNCHANGED <<up, fields, contexts, calls, chan, queue, broken, history>>

Close(k) ==
  /\ loop[k] = "close"
  /\ \/ /\ ctx \notin dones
        /\ dones' = dones \cup {ctx}
        /\ Step(k, "over")
        /\ sockets' = [sockets EXCEPT ![k] = {}]
        /\ chan' = [chan EXCEPT ![k] = Nil]
        /\ queue' = [queue EXCEPT ![k] = {}]
        /\ broken' = broken \ {k}
        /\ UNCHANGED <<up, fields, stops, errs, calls, history>>
     \/ ctx \in dones /\ Die

-----------------------------------------------------------------------------
CallStep(c) ==
  \/ SetHandler(c)
  \/ RunLoop(c)
  \/ Watch(c)
  \/ DoneSeen(c)
  \/ Check(c)
  \/ StopClose(c)
  \/ StopRead(c)
  \/ StopDone(c)
  \/ RemoveIP(c)

LoopStep(k) ==
  \/ Listen(k)
  \/ Sent(k)
  \/ CallbackStops(k)
  \/ CallbackWaits(k)
  \/ CallbackReturns(k)
  \/ Wind(k)
  \/ Close(k)

Steps ==
  \/ \E c \in Calls : AddIP(c) \/ CallStep(c) \/ Timeout(c)
  \/ \E k \in Calls : LoopStep(k) \/ StopSeen(k) \/ ReceiveFails(k) \/ FailureSeen(k)
  \/ \E k \in Calls : Tick(k) \/ DropPacket(k) \/ \E h \in Hosts : ProcRecv(k, h)

\* The service manager stops and starts the process; NewPinger makes a new pinger.
Restart == up' = TRUE /\ Fresh /\ races' = {}

PingerNext == (up /\ Steps) \/ Restart

PingerSpec == PingerInit /\ [][PingerNext]_pingerVars

(***************************************************************************)
(* The scheduler runs every goroutine that can go on.  select picks at     *)
(* random among ready cases, so a closed stop channel is seen in the end,  *)
(* and a ticker fires in the end however often the loop is busy.  Nobody   *)
(* need answer, nobody need ask.                                           *)
(***************************************************************************)
PingerFairness ==
  \A c \in Calls :
    /\ WF_pingerVars(up /\ CallStep(c))
    /\ SF_pingerVars(up /\ Timeout(c))
    /\ WF_pingerVars(up /\ LoopStep(c))
    /\ SF_pingerVars(up /\ StopSeen(c))

FairPingerSpec == PingerSpec /\ PingerFairness

-----------------------------------------------------------------------------
PingerTypeOK ==
  /\ up \in BOOLEAN /\ hasIP \subseteq Families /\ races \subseteq Races
  /\ addrs \subseteq Hosts
  /\ {ctx, onRecv, onIdle} \subseteq Calls \cup {Nil}
  /\ stops \subseteq Calls /\ dones \subseteq Calls /\ errs \subseteq Calls
  /\ at \in [Calls -> CallPoints]
  /\ ping \in [Calls -> [kind : Kinds, host : Hosts] \cup {Nil}]
  /\ flag \in [Calls -> BOOLEAN]
  /\ wait \in [Calls -> Calls \cup {Nil}]
  /\ outcome \in [Calls -> Outcomes]
  /\ loop \in [Calls -> LoopPoints]
  /\ chan \in [Calls -> Calls \cup {Nil}]
  /\ queue \in [Calls -> SUBSET Hosts]
  /\ sockets \in [Calls -> SUBSET Families] /\ broken \subseteq Calls
  /\ heard \in [Calls -> SUBSET Hosts]

(***************************************************************************)
(* As long as no calls have overlapped, "alive" means that the host itself *)
(* answered during the call, whatever loops and closures earlier calls     *)
(* have left behind, and whatever else goes wrong between the goroutines.  *)
(***************************************************************************)
Positive(c) == outcome[c] = "yes" /\ ping[c].kind # "off"

PositiveWasHeard ==
  "overlap" \notin races => \A c \in Calls : Positive(c) => ping[c].host \in heard[c]

(***************************************************************************)
(* The races of Races are all there are: in a process that has seen none   *)
(* of them nothing is closed twice and no map written while it is read, no *)
(* call is aborted and the process stays up, although an earlier loop may  *)
(* wait for its own end for ever, with its receivers and its sockets.      *)
(***************************************************************************)
PanicsNeedRace == races = {} => up /\ \A c \in Calls : outcome[c] # "aborted"

(***************************************************************************)
(* Under the same condition a ping that is not answered positively leaves  *)
(* nothing behind: its loop is gone, its sockets closed, and no address is *)
(* left once all calls have ended.                                         *)
(***************************************************************************)
NegativeCleansUp ==
  races = {} =>
    /\ \A c \in Calls : at[c] = "ended" /\ outcome[c] # "yes" =>
         loop[c] = "over" /\ sockets[c] = {}
    /\ InProgress = {} => addrs = {}

\* As long as no calls have overlapped every ping ends, unless the process does.
PingsEnd ==
  \A c \in Calls :
    (at[c] # "new") ~> (at[c] \in {"ended", "new"} \/ ~up \/ "overlap" \in races)

(***************************************************************************)
(* The pinger keeps what Ping promises, however many calls overlap.        *)
(***************************************************************************)
Abstract == INSTANCE Ping WITH
  outcome <- [c \in Calls |-> IF at[c] = "ended" THEN outcome[c] ELSE "none"]

ImplementsPing == Abstract!PingSpec

-----------------------------------------------------------------------------
(* What the repository says of the pinger and the code does not do.        *)

(***************************************************************************)
(* "Done returns a channel that is closed when RunLoop() is stopped by an  *)
(* error or Stop()" (go-fastping, fastping.go).                            *)
(***************************************************************************)
DoneCloses ==
  \A k \in Calls : (k \in stops) ~> (k \in dones \/ k \notin stops \/ ~up)
=============================================================================
