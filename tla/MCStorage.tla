----------------------------- MODULE MCStorage -----------------------------
(* The storage package under the most general clients. *)
EXTENDS Storage, TLC

Symmetry == Permutations(Clients) \cup Permutations(Devices) \cup Permutations(Passwords)
=============================================================================
