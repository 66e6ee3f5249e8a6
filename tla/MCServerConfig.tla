--------------------------- MODULE MCServerConfig ---------------------------
(* Instances of ServerConfig for TLC. *)
EXTENDS ServerConfig

=============================================================================
