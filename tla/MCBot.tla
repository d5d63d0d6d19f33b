-------------------------------- MODULE MCBot --------------------------------
(* A few messages to the bot while the web server uses the storage. *)
EXTENDS Bot, TLC

Message(f, n, as, d) == [from |-> f, name |-> n, args |-> as, dev |-> d]

\* Every command, of both users, with at most one alias.
Short ==
  { Message(f, n, as, Nil) : f \in {"allowed", "other"},
      n \in {"text", "help", "list", "wakeup", "turnoff", "check"},
      as \in { <<>> } \cup { <<a>> : a \in Names } }
  \cup { Message("allowed", "add", as, d) :
           as \in { <<>> } \cup { <<a>> : a \in Names }, d \in Devices }

\* /wakeup with up to three arguments, which may be repeated.
Wakeups ==
  { Message("allowed", "wakeup", as, Nil) :
      as \in { <<a, b>> : a \in Names, b \in Names }
             \cup { <<a, b, a>> : a \in Aliases, b \in Names } }

Every == Short \cup Wakeups

WebWrites == { q \in Request : q.op \in {"add", "del"} /\ q.name # Empty }

Symmetry == Permutations(Aliases) \cup Permutations(Devices)
=============================================================================
