-------------------------- MODULE MCPlayerProtocol --------------------------
(* Instances of PlayerProtocol for TLC. *)
EXTENDS PlayerProtocol
=============================================================================
