------------------------------ MODULE MCPower ------------------------------
(* Power requests and pings among requests that change the devices. *)
EXTENDS Power, FiniteSets

\* The aliases in some order.
InOrder ==
  CHOOSE f \in [Aliases -> 1..Cardinality(Aliases)] :
    \A a, b \in Aliases : f[a] = f[b] => a = b
=============================================================================
