------------------------------ MODULE Messages ------------------------------
(***************************************************************************)
(* The structures of package types: what the goroutines of the program     *)
(* send to the storage goroutine, and what they get back.                   *)
(*                                                                         *)
(* A Go message carries its own response channel.  Only one goroutine ever *)
(* receives on it, so the channel is identified with the client that made  *)
(* it.  A device, a name and a password are opaque; the empty string is    *)
(* kept apart from the others because bbolt and the handlers test for it.  *)
(***************************************************************************)
CONSTANTS
  Clients,    \* the goroutines that talk to the storage goroutine
  Aliases,    \* the non-empty device names
  Devices,    \* the Device values, a Mac and an IP
  Passwords,  \* the non-empty passwords
  Empty,      \* the empty string
  Nil         \* Go's nil

ASSUME MessagesAssumption ==
  /\ Empty \notin Aliases \cup Passwords
  /\ Nil \notin Clients \cup Devices \cup Passwords \cup {Empty}

Names == Aliases \cup {Empty}
Phrases == Passwords \cup {Empty}
MaybeDevice == Devices \cup {Nil}

AliasResponse    == [op : {"add"}, name : Names, dev : Devices]
GetDev           == [op : {"get"}, name : Names]
DelDev           == [op : {"del"}, name : Names]
PasswordHandling == [op : {"pass"}, pass : Phrases]
PasswordUpdate   == [op : {"update"}, old : Phrases, new : Phrases]
AliasRequest     == [op : {"aliases"}]

Request == AliasResponse \cup GetDev \cup DelDev
             \cup PasswordHandling \cup PasswordUpdate \cup AliasRequest

(***************************************************************************)
(* What a client has read from its response channel when it goes on: for   *)
(* "add", "del", "pass" and "update" whether the operation succeeded, for  *)
(* "get" the device, for "aliases" the names received before the close.    *)
(***************************************************************************)
Reply == [ok : BOOLEAN, dev : MaybeDevice, names : SUBSET Aliases]

Failure   == [ok |-> FALSE, dev |-> Nil, names |-> {}]
Success   == [ok |-> TRUE, dev |-> Nil, names |-> {}]
Found(d)  == [ok |-> d # Nil, dev |-> d, names |-> {}]
Listed(S) == [ok |-> TRUE, dev |-> Nil, names |-> S]
=============================================================================
