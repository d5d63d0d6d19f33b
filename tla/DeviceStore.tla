---------------------------- MODULE DeviceStore ----------------------------
(***************************************************************************)
(* What the storage package promises its clients, without the goroutine,   *)
(* the channels and the select loop: a map from aliases to devices and one *)
(* administrator password, on which every operation takes effect at one    *)
(* instant between the moment the client asks and the moment it gets its   *)
(* answer.  The map survives a crash; the operations in progress do not,   *)
(* whether or not they had taken effect.                                   *)
(*                                                                         *)
(* A store that nothing was ever written to may break down at the first    *)
(* operation.  From then to the crash nothing takes effect, and one client *)
(* may have been told of a success that is none.                           *)
(***************************************************************************)
EXTENDS Messages

VARIABLES
  devices,   \* the registered devices
  password,  \* the administrator password, Nil before the first configuration
  op,        \* the operation of each client
  down       \* the store has broken down

vars == <<devices, password, op, down>>

Operation == [at : {"idle", "asked", "done"}, q : Request \cup {Nil}, res : Reply]

TypeOK ==
  /\ devices \in [Aliases -> MaybeDevice]
  /\ password \in Phrases \cup {Nil}
  /\ op \in [Clients -> Operation]
  /\ down \in BOOLEAN

Idle == [at |-> "idle", q |-> Nil, res |-> Failure]

Init ==
  /\ devices = [a \in Aliases |-> Nil]
  /\ password = Nil
  /\ op = [c \in Clients |-> Idle]
  /\ down = FALSE

Registered == {a \in Aliases : devices[a] # Nil}

Ask(c, q) ==
  /\ op[c].at = "idle"
  /\ op' = [op EXCEPT ![c] = [at |-> "asked", q |-> q, res |-> Failure]]
  /\ UNCHANGED <<devices, password, down>>

\* The instant at which the operation q of c takes effect, with result r.
Takes(c, q, r) ==
  /\ ~down
  /\ op[c].at = "asked"
  /\ op[c].q = q
  /\ op' = [op EXCEPT ![c] = [at |-> "done", q |-> q, res |-> r]]
  /\ UNCHANGED down

Add(c, q) ==
  /\ q.name # Empty
  /\ Takes(c, q, Success)
  /\ devices' = [devices EXCEPT ![q.name] = q.dev]
  /\ UNCHANGED password

Get(c, q) ==
  /\ Takes(c, q, Found(IF q.name = Empty THEN Nil ELSE devices[q.name]))
  /\ UNCHANGED <<devices, password>>

Delete(c, q) ==
  /\ Takes(c, q, Success)
  /\ devices' = [a \in Aliases |-> IF a = q.name THEN Nil ELSE devices[a]]
  /\ UNCHANGED password

Check(c, q) ==
  /\ Takes(c, q, [Failure EXCEPT !.ok = (password = q.pass)])
  /\ UNCHANGED <<devices, password>>

Change(c, q) ==
  /\ password = q.old
  /\ Takes(c, q, Success)
  /\ password' = q.new
  /\ UNCHANGED devices

List(c, q) ==
  /\ Takes(c, q, Listed(Registered))
  /\ UNCHANGED <<devices, password>>

\* A write may fail; then it has no effect at all.
Refuse(c, q) ==
  /\ Takes(c, q, Failure)
  /\ UNCHANGED <<devices, password>>

Return(c) ==
  /\ op[c].at = "done"
  /\ op' = [op EXCEPT ![c].at = "idle"]
  /\ UNCHANGED <<devices, password, down>>

\* The client forgets the answer.
Release(c) ==
  /\ op[c].at = "idle"
  /\ op' = [op EXCEPT ![c] = Idle]
  /\ UNCHANGED <<devices, password, down>>

\* The password is defined once; from then on only Change replaces it.
Define(p) ==
  /\ password = Nil
  /\ password' = p
  /\ UNCHANGED <<devices, op, down>>

\* The client is told of a success, unless it asked for an addition or a device.
BreakDown(c, q) ==
  /\ ~down
  /\ password = Nil /\ Registered = {}
  /\ op[c].at = "asked"
  /\ op[c].q = q
  /\ down' = TRUE
  /\ op' = IF q.op \in {"add", "get"} THEN op
           ELSE [op EXCEPT ![c] = [at |-> "idle", q |-> q, res |-> Success]]
  /\ UNCHANGED <<devices, password>>

Crash ==
  /\ down' = FALSE
  /\ op' = [c \in Clients |-> Idle]
  /\ UNCHANGED <<devices, password>>

Next ==
  \/ \E c \in Clients, q \in Request : Ask(c, q)
  \/ \E c \in Clients, q \in AliasResponse : Add(c, q) \/ Refuse(c, q)
  \/ \E c \in Clients, q \in GetDev : Get(c, q)
  \/ \E c \in Clients, q \in DelDev : Delete(c, q) \/ Refuse(c, q)
  \/ \E c \in Clients, q \in PasswordHandling : Check(c, q)
  \/ \E c \in Clients, q \in PasswordUpdate : Change(c, q) \/ Refuse(c, q)
  \/ \E c \in Clients, q \in AliasRequest : List(c, q)
  \/ \E c \in Clients : Return(c) \/ Release(c)
  \/ \E p \in Phrases : Define(p)
  \/ \E c \in Clients, q \in Request : BreakDown(c, q)
  \/ Crash

Spec == Init /\ [][Next]_vars
=============================================================================
