------------------------------ MODULE MCServer ------------------------------
(* The device routes under a few concurrent requests. *)
EXTENDS Server, TLC, FiniteSets

\* The aliases in some order.
InOrder ==
  CHOOSE f \in [Aliases -> 1..Cardinality(Aliases)] :
    \A a, b \in Aliases : f[a] = f[b] => a = b

\* The accepted devices may be exchanged for one another, a refused one not.
Symmetry == Permutations(Clients) \cup Permutations(Passwords) \cup Permutations(ValidDevices)
=============================================================================
