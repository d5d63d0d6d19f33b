------------------------------ MODULE MCPinger ------------------------------
(* A few pings on the one pinger. *)
EXTENDS Pinger, TLC

CONSTANTS h1, h2

\* A ping of every kind, of hosts of both families.
AskedBoth ==
  {[kind |-> "health", host |-> h1], [kind |-> "wake", host |-> h2], [kind |-> "off", host |-> h1]}

\* Everything that may be asked of every host.
AskedAll == [kind : Kinds, host : Hosts]

\* A wake-up and a turn off of the hosts.
AskedPower == [kind : {"wake", "off"}, host : Hosts]

(***************************************************************************)
(* A state without what nobody reads any more: the history of races, that  *)
(* no guard and no promise of Ping is about, and the variables of calls    *)
(* and loops past the last use of them.                                    *)
(***************************************************************************)
Present ==
  <<up, fields, contexts, at, ping, outcome, loop, sockets, heard,
    [c \in Calls |-> at[c] \notin {"leave", "ended"} /\ flag[c]],
    [c \in Calls |-> IF at[c] \in {"select", "blocked"} THEN wait[c] ELSE Nil],
    [k \in Calls |-> IF loop[k] \in {"select", "heldR", "heldI"} THEN chan[k] ELSE Nil],
    [k \in Calls |-> IF loop[k] \in {"end", "endErr", "close", "stopI", "readI", "heldI"}
                      THEN {} ELSE queue[k]],
    {k \in broken : loop[k] \notin {"end", "endErr"} \/ sockets[k] = Families}>>

Symmetry == Permutations(Calls)
=============================================================================
