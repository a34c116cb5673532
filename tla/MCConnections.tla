--------------------------- MODULE MCConnections ---------------------------
(***************************************************************************)
(* Connections for TLC: the configuration gives every constant its value.  *)
(***************************************************************************)
EXTENDS Connections
=============================================================================
