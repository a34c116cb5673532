----------------------------- MODULE MCFcgiPoll -----------------------------
(* FcgiPoll for TLC.                                                        *)
EXTENDS FcgiPoll
=============================================================================
