----------------------------- MODULE MCManager -----------------------------
(***************************************************************************)
(* Manager for TLC: the configuration gives every constant its value.      *)
(***************************************************************************)
EXTENDS Manager
=============================================================================
