----------------------------- MODULE FcgiInput -----------------------------
(***************************************************************************)
(* What the reading side of fcgiapp.cpp promises about one request: it is  *)
(* served with exactly the parameters the web server sent, or refused; its *)
(* handler then reads exactly the bytes of the body, in order, and learns  *)
(* of their end only when it has them all.  Nothing is promised once the   *)
(* input is broken.  How the bytes were cut into records, and the records  *)
(* into what single reads returned, makes no difference.                   *)
(*                                                                         *)
(* FcgiReader.tla implements it.                                           *)
(***************************************************************************)
EXTENDS Sequences, SequencesExt

VARIABLES
  sent,      (* the request the web server sent: its params and its body    *)
  served,    (* "new", "served" or "refused", then "done": the body was read*)
  params,    (* the parameters the handler sees                             *)
  body,      (* the bytes of the body it has read                           *)
  broken     (* the input is broken                                         *)

vars == <<sent, served, params, body, broken>>

Init == served = "new" /\ params = <<>> /\ body = <<>> /\ broken \in BOOLEAN

(* What is broken stays so.                                                *)
Break == broken => broken'

GoOn == Break /\ UNCHANGED <<sent, served, params, body>>

Refuse == served = "new" /\ served' = "refused" /\ Break /\ UNCHANGED <<sent, params, body>>

Serve ==
  /\ served = "new" /\ served' = "served"
  /\ ~broken => params' = sent.params
  /\ Break /\ UNCHANGED <<sent, body>>

Read ==
  /\ served = "served" /\ served' \in {"served", "done"}
  /\ ~broken => /\ IsPrefix(body, body') /\ IsPrefix(body', sent.body)
                /\ served' = "done" => body' = sent.body
  /\ Break /\ UNCHANGED <<sent, params>>

Next == GoOn \/ Refuse \/ Serve \/ Read

Spec == Init /\ [][Next]_vars

=============================================================================
