-------------------------- MODULE MCServerRegistry --------------------------
(* Instances of ServerRegistry for TLC. *)
EXTENDS ServerRegistryInv

=============================================================================
