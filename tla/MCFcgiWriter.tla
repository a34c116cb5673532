---------------------------- MODULE MCFcgiWriter ----------------------------
(***************************************************************************)
(* FcgiWriter for TLC: records of up to four content bytes, headers of     *)
(* two, padding of up to one.                                              *)
(***************************************************************************)
EXTENDS FcgiWriter

MCBuffLen  == [s \in Streams |-> 6]
MCMaxBytes == [out |-> 6, err |-> 1]
=============================================================================
