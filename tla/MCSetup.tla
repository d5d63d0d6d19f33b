------------------------------ MODULE MCSetup ------------------------------
(* The setup of the service by a few racing requests. *)
EXTENDS Setup, TLC

Symmetry == Permutations(Clients) \cup Permutations(Passwords)
=============================================================================
