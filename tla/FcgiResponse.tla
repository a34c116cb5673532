---------------------------- MODULE FcgiResponse ----------------------------
(***************************************************************************)
(* What a FastCGI application promises to the web server about one         *)
(* response: the server receives, per stream, exactly the bytes the        *)
(* application wrote, in order; a stream's end only after all its bytes;   *)
(* and one end-of-request, last of all.  A response whose connection broke *)
(* promises nothing further, except that the connection is not used again. *)
(*                                                                         *)
(* FcgiWriter.tla implements it.                                           *)
(***************************************************************************)
EXTENDS Integers, Sequences

CONSTANT Streams   (* "out" and "err" *)

VARIABLES
  accepted,   (* per stream: the number of bytes the application wrote     *)
  got,        (* per stream: the bytes the server received                 *)
  eof,        (* the streams whose end the server saw                      *)
  ended,      (* the exit statuses of the end-of-requests the server saw   *)
  status,     (* the exit status the application set last                  *)
  broken,     (* an error occurred                                         *)
  conn        (* "open", then "kept" for another request or "closed"       *)

vars == <<accepted, got, eof, ended, status, broken, conn>>

Written(s, n) == [i \in 1 .. n |-> <<s, i>>]

Faithful ==
  /\ \A s \in Streams :
       /\ Len(got[s]) <= accepted[s]
       /\ got[s] = Written(s, Len(got[s]))
       /\ s \in eof => Len(got[s]) = accepted[s]
  /\ ended # <<>> => "out" \in eof /\ \A s \in Streams : accepted[s] > 0 => s \in eof

Init ==
  /\ accepted = [s \in Streams |-> 0] /\ got = [s \in Streams |-> <<>>]
  /\ eof = {} /\ ended = <<>> /\ status = 0 /\ broken = FALSE /\ conn = "open"

SetStatus == conn = "open" /\ status' \in Int /\ UNCHANGED <<accepted, got, eof, ended, broken, conn>>

(* Bytes are written, some are delivered, ends are signalled.              *)
Progress ==
  /\ conn = "open" /\ ~broken
  /\ \A s \in Streams : accepted'[s] >= accepted[s] /\ Len(got'[s]) >= Len(got[s])
  /\ eof \subseteq eof'
  /\ ended' = ended \/ (ended = <<>> /\ ended' = <<status>>)
  /\ Faithful'
  /\ broken' \in BOOLEAN
  /\ UNCHANGED <<status, conn>>

AfterError == conn = "open" /\ broken /\ UNCHANGED <<status, broken, conn>>

Finish ==
  /\ conn = "open"
  /\ \/ conn' = "closed"
     \/ /\ conn' = "kept" /\ ~broken /\ ended # <<>>
        /\ \A s \in Streams : Len(got[s]) = accepted[s]
  /\ UNCHANGED <<accepted, got, eof, ended, status, broken>>

Next == SetStatus \/ Progress \/ AfterError \/ Finish

Spec == Init /\ [][Next]_vars

=============================================================================
