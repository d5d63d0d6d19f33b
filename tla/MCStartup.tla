------------------------------ MODULE MCStartup ------------------------------
(* Every configuration, on every kind of folder. *)
EXTENDS Startup

AllConfs == Conf
=============================================================================
