------------------------------ MODULE Storage ------------------------------
(***************************************************************************)
(* Package storage: the bbolt file and the one goroutine, StartHandling,   *)
(* that works on it.  A client hands over a request on an unbuffered       *)
(* channel and then blocks on the response channel; the goroutine selects  *)
(* one of the waiting clients, runs one bbolt transaction, sends what the  *)
(* handler sends, and selects again.                                       *)
(*                                                                         *)
(* A bbolt transaction is atomic and durable, so receiving the request and *)
(* running its transaction is one step: nothing else can tell the two      *)
(* moments apart.  Sending the answer is a step of its own, and an alias   *)
(* list is sent one alias at a time.                                       *)
(***************************************************************************)
EXTENDS Messages

VARIABLES
  buckets,   \* DevBucket and PassBucket exist in the file
  password,  \* the password hashed under AdminPassword, Nil when there is none
  devices,   \* DevBucket
  loop,      \* the goroutine: not running, in its select, sending, or panicking
  cur,       \* the client whose request it is serving
  out,       \* what it still has to send to cur
  call       \* what each client does with its channels

disk == <<buckets, password, devices>>
storageVars == <<buckets, password, devices, loop, cur, out, call>>

Call == [at : {"idle", "sending", "waiting"}, q : Request \cup {Nil}, got : Reply]

StorageTypeOK ==
  /\ buckets \in BOOLEAN
  /\ password \in Phrases \cup {Nil}
  /\ devices \in [Aliases -> MaybeDevice]
  /\ loop \in {"off", "select", "send", "dying"}
  /\ cur \in Clients \cup {Nil}
  /\ out \in Reply
  /\ call \in [Clients -> Call]
  /\ \A c \in Clients : call[c].at = "idle" \/ call[c].q \in Request

NoCall == [at |-> "idle", q |-> Nil, got |-> Failure]

StorageInit ==
  /\ buckets = FALSE
  /\ password = Nil
  /\ devices = [a \in Aliases |-> Nil]
  /\ loop = "off"
  /\ cur = Nil
  /\ out = Failure
  /\ call = [c \in Clients |-> NoCall]

-----------------------------------------------------------------------------
(* The clients. *)

\* c makes a response channel, and blocks until its request is received.
Send(c, q) ==
  /\ call[c].at = "idle"
  /\ call' = [call EXCEPT ![c] = [at |-> "sending", q |-> q, got |-> Failure]]
  /\ UNCHANGED <<disk, loop, cur, out>>

\* c has used the answer and is done with the channel.
Release(c) ==
  /\ call[c].at = "idle"
  /\ call' = [call EXCEPT ![c] = NoCall]
  /\ UNCHANGED <<disk, loop, cur, out>>

-----------------------------------------------------------------------------
(* The select loop and its handlers. *)

Stored(name) == IF name \in Aliases THEN devices[name] ELSE Nil
Registered == {a \in Aliases : devices[a] # Nil}

\* The case of the select that receives a request of kind o from c.
Receives(c, o) ==
  /\ loop = "select"
  /\ call[c].at = "sending"
  /\ call[c].q.op = o

\* The handler's transaction is over and it goes on to send r.
Answers(c, r) ==
  /\ buckets
  /\ loop' = "send"
  /\ cur' = c
  /\ out' = r
  /\ call' = [call EXCEPT ![c].at = "waiting"]
  /\ UNCHANGED buckets

\* Mutant: the empty name is a key like any other.
HandleNewDeviceAnyKey(c) ==
  /\ Receives(c, "add")
  /\ devices' = [a \in Aliases \cup {call[c].q.name} |->
                   IF a = call[c].q.name THEN call[c].q.dev ELSE devices[a]]
  /\ Answers(c, Success)
  /\ UNCHANGED password

\* Mutant: the error of db.Update is dropped, and success is sent.
HandleNewDeviceIgnoresError(c) ==
  /\ Receives(c, "add")
  /\ devices' \in {devices} \cup { [devices EXCEPT ![a] = call[c].q.dev] :
                                   a \in Aliases \cap {call[c].q.name} }
  /\ Answers(c, Success)
  /\ UNCHANGED password

\* bbolt refuses an empty key, and any commit may fail and roll back.
HandleNewDevice(c) ==
  /\ Receives(c, "add")
  /\ UNCHANGED password
  /\ \/ /\ call[c].q.name # Empty
        /\ devices' = [devices EXCEPT ![call[c].q.name] = call[c].q.dev]
        /\ Answers(c, Success)
     \/ /\ Answers(c, Failure)
        /\ UNCHANGED devices

HandleGetDev(c) ==
  /\ Receives(c, "get")
  /\ Answers(c, Found(Stored(call[c].q.name)))
  /\ UNCHANGED <<password, devices>>

\* Deleting a key that is not there is no error.
HandleDeviceDel(c) ==
  /\ Receives(c, "del")
  /\ UNCHANGED password
  /\ \/ /\ devices' = [a \in Aliases |-> IF a = call[c].q.name THEN Nil ELSE devices[a]]
        /\ Answers(c, Success)
     \/ /\ Answers(c, Failure)
        /\ UNCHANGED devices

\* bcrypt matches no password against a missing hash.
HandlePass(c) ==
  /\ Receives(c, "pass")
  /\ Answers(c, [Failure EXCEPT !.ok = (password = call[c].q.pass)])
  /\ UNCHANGED <<password, devices>>

\* Mutant: the old password is not compared.
HandleUpdatePassUnchecked(c) ==
  /\ Receives(c, "update")
  /\ password' = call[c].q.new
  /\ Answers(c, Success)
  /\ UNCHANGED devices

HandleUpdatePass(c) ==
  /\ Receives(c, "update")
  /\ UNCHANGED devices
  /\ \/ /\ password = call[c].q.old
        /\ password' = call[c].q.new
        /\ Answers(c, Success)
     \/ /\ Answers(c, Failure)
        /\ UNCHANGED password

HandleAliasRequest(c) ==
  /\ Receives(c, "aliases")
  /\ Answers(c, Listed(Registered))
  /\ UNCHANGED <<password, devices>>

\* Mutant: the cursor does not advance.
SendAliasAgain ==
  /\ loop = "send"
  /\ \E a \in out.names : call' = [call EXCEPT ![cur].got.names = @ \cup {a}]
  /\ UNCHANGED <<disk, loop, cur, out>>

\* One round of the cursor: an alias is sent on the channel of the client.
SendAlias ==
  /\ loop = "send"
  /\ \E a \in out.names :
       /\ out' = [out EXCEPT !.names = @ \ {a}]
       /\ call' = [call EXCEPT ![cur].got.names = @ \cup {a}]
  /\ UNCHANGED <<disk, loop, cur>>

\* Mutant: the channel of a list may be closed before its end.
SendReplyEarly ==
  /\ loop = "send"
  /\ call' = [call EXCEPT ![cur].at = "idle",
                          ![cur].got = [out EXCEPT !.names = call[cur].got.names]]
  /\ loop' = "select"
  /\ cur' = Nil
  /\ out' = Failure
  /\ UNCHANGED disk

\* Mutant: the channel is neither sent on nor closed after an error.
SendReplyDropsFailure ==
  /\ loop = "send"
  /\ out.names = {}
  /\ call' = IF out.ok THEN [call EXCEPT ![cur].at = "idle",
                                         ![cur].got = [out EXCEPT !.names = @ \cup call[cur].got.names]]
             ELSE call
  /\ loop' = "select"
  /\ cur' = Nil
  /\ out' = Failure
  /\ UNCHANGED disk

\* The answer is sent, or the channel closed, and the client goes on.
SendReply ==
  /\ loop = "send"
  /\ out.names = {}
  /\ call' = [call EXCEPT ![cur].at = "idle",
                          ![cur].got = [out EXCEPT !.names = call[cur].got.names]]
  /\ loop' = "select"
  /\ cur' = Nil
  /\ out' = Failure
  /\ UNCHANGED disk

-----------------------------------------------------------------------------
(* What other goroutines do to the file and to the loop: the two           *)
(* transactions of InitLocal, the start of the loop, the end of the        *)
(* process.                                                                *)

CreateBuckets ==
  /\ buckets' = TRUE
  /\ UNCHANGED <<password, devices, loop, cur, out, call>>

\* Mutant: insertPassword does not look for an earlier password.
InsertPasswordAnyway(p) ==
  /\ buckets
  /\ password' = p
  /\ UNCHANGED <<buckets, devices, loop, cur, out, call>>

InsertPassword(p) ==
  /\ buckets
  /\ password = Nil
  /\ password' = p
  /\ UNCHANGED <<buckets, devices, loop, cur, out, call>>

StartHandling ==
  /\ loop = "off"
  /\ loop' = "select"
  /\ UNCHANGED <<disk, cur, out, call>>

\* The process ends and is started again, with the loop or without it.
Die ==
  /\ loop' \in {"off", "select"}
  /\ cur' = Nil
  /\ out' = Failure
  /\ call' = [c \in Clients |-> NoCall]
  /\ UNCHANGED disk

\* Without its bucket a handler panics.  Four of the six have deferred the close
\* of the response channel, which their clients take for a success; the client
\* of an addition or a look-up stays blocked.  The process has not ended yet.
NilBucket(c) ==
  /\ loop = "select"
  /\ call[c].at = "sending"
  /\ ~buckets
  /\ loop' = "dying"
  /\ call' = IF call[c].q.op \in {"add", "get"} THEN call
             ELSE [call EXCEPT ![c].at = "idle", ![c].got = Success]
  /\ UNCHANGED <<disk, cur, out>>

-----------------------------------------------------------------------------
Handle(c) ==
  \/ HandleNewDevice(c)
  \/ HandleGetDev(c)
  \/ HandleDeviceDel(c)
  \/ HandlePass(c)
  \/ HandleUpdatePass(c)
  \/ HandleAliasRequest(c)

StorageNext ==
  \/ \E c \in Clients, q \in Request : Send(c, q)
  \/ \E c \in Clients : Release(c)
  \/ \E c \in Clients : Handle(c)
  \/ SendAlias
  \/ SendReply
  \/ CreateBuckets
  \/ \E p \in Phrases : InsertPassword(p)
  \/ StartHandling
  \/ \E c \in Clients : NilBucket(c)
  \/ Die

StorageSpec == StorageInit /\ [][StorageNext]_storageVars

(***************************************************************************)
(* The Go scheduler runs every runnable goroutine, so the loop takes its   *)
(* enabled steps.  select chooses at random among the ready cases and the  *)
(* senders on one channel are queued, so a client that is again and again  *)
(* eligible is eventually received.  A panic that has begun ends the       *)
(* process.                                                                *)
(***************************************************************************)
StorageFairness ==
  /\ WF_storageVars(SendAlias)
  /\ WF_storageVars(SendReply)
  /\ \A c \in Clients : SF_storageVars(Handle(c)) /\ WF_storageVars(NilBucket(c))
  /\ WF_storageVars(loop = "dying" /\ Die)

FairStorageSpec == StorageSpec /\ StorageFairness

-----------------------------------------------------------------------------
(* What makes the package correct. *)

(***************************************************************************)
(* The bookkeeping of the channels: the goroutine is sending exactly when  *)
(* one client waits, that client is the one it received from, no one else  *)
(* waits, and the part of a list already sent never overlaps the rest.     *)
(***************************************************************************)
OneInService ==
  /\ loop = "send" <=> cur # Nil
  /\ \A c \in Clients : call[c].at = "waiting" <=> c = cur
  /\ \A c \in Clients : call[c].at = "sending" => call[c].got = Failure
  /\ cur # Nil => call[cur].got.names \cap out.names = {}
  /\ cur # Nil /\ out.names # {} => call[cur].q.op = "aliases" /\ out.ok

(***************************************************************************)
(* The abstract state the package stands for: a request that was received  *)
(* has taken effect, and its result is what was sent together with what is *)
(* still to be sent.                                                       *)
(***************************************************************************)
ResultFor(c) ==
  IF call[c].at = "waiting"
  THEN [out EXCEPT !.names = @ \cup call[c].got.names]
  ELSE call[c].got

Phase == [idle |-> "idle", sending |-> "asked", waiting |-> "done"]

OpOf(c) ==
  [at |-> Phase[call[c].at], q |-> call[c].q, res |-> ResultFor(c)]

Abstract == INSTANCE DeviceStore WITH
  op <- [c \in Clients |-> OpOf(c)], down <- loop = "dying"

\* The channels and the loop implement atomic operations on a durable map.
ImplementsDeviceStore == Abstract!Spec

\* With the loop running, no client is left blocked on its channels.
CallsAnswered ==
  \A c \in Clients :
    (loop # "off" /\ call[c].at # "idle") ~> (call[c].at = "idle")
=============================================================================
