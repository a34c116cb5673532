--------------------------- MODULE RequestSource ---------------------------
(***************************************************************************)
(* What FcgiPoll<Request> promises to the Manager that owns it.            *)
(*                                                                         *)
(* A source can be started and stopped by any thread; one thread at a time *)
(* calls it for a request.  A call returns a request only if the source    *)
(* was not stopped when it returned, and a null request only if it was.    *)
(* A call made on a stopped source does not stay blocked.                  *)
(*                                                                         *)
(* Manager.tla is written against this module; FcgiPoll.tla implements it. *)
(***************************************************************************)
VARIABLES
  stop,      (* FcgiPollBase::m_stop                                       *)
  polling,   (* TRUE while a thread is inside PollRequest                  *)
  answer     (* what its last call returned, until it was taken            *)

vars == <<stop, polling, answer>>

Init == stop = TRUE /\ polling = FALSE /\ answer = "none"

StartSource == stop' = FALSE /\ UNCHANGED <<polling, answer>>

StopSource == stop' = TRUE /\ UNCHANGED <<polling, answer>>

Call == ~polling /\ polling' = TRUE /\ answer' = "none" /\ UNCHANGED stop

ReturnRequest ==
  polling /\ ~stop /\ polling' = FALSE /\ answer' = "request" /\ UNCHANGED stop

ReturnNull ==
  polling /\ stop /\ polling' = FALSE /\ answer' = "null" /\ UNCHANGED stop

Take == ~polling /\ answer' = "none" /\ UNCHANGED <<stop, polling>>

Next == StartSource \/ StopSource \/ Call \/ ReturnRequest \/ ReturnNull \/ Take

Spec == Init /\ [][Next]_vars

(* The liveness half of the promise: stopping the source ends the call.    *)
StopEndsCall == (stop /\ polling) ~> ~polling

=============================================================================
