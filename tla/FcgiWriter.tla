----------------------------- MODULE FcgiWriter -----------------------------
(***************************************************************************)
(* libFcgi/fcgiapp.cpp, the output side of one request: the buffered       *)
(* streams out and err, the records they are flushed as, the close records *)
(* the last writer ends the request with, and FCGX_Finish_r.               *)
(*                                                                         *)
(* One worker runs all of this; the uncertain part is the socket, where a  *)
(* write may fail after any prefix (EAGAIN on these non-blocking sockets,  *)
(* EPIPE).  Calls nest (FClose -> EmptyBuffProc -> WriteCloseRecords ->    *)
(* PutStr -> EmptyBuffProc), so the worker's call stack is the variable    *)
(* todo and an action runs the step on its top.                            *)
(*                                                                         *)
(* Bytes are scaled: HeaderLen of them make a record header (8 in the      *)
(* code), a record is padded to a multiple of it, and an end-of-request    *)
(* body is as long as a header.  The peer is a parser of what reached it.  *)
(***************************************************************************)
EXTENDS Integers, FiniteSets, Sequences

CONSTANTS
  HeaderLen,    (* sizeof(FCGI_Header), and the alignment                   *)
  BuffLen,      (* data->bufflen of each stream                             *)
  Statuses,     (* the exit statuses the application may set                *)
  PutSizes,     (* bound: how many bytes a PutStr may write                 *)
  FailPoints,   (* bound: how many bytes a failing write got through        *)
  MaxBytes      (* bound: bytes the application writes to each stream       *)

Streams == {"out", "err"}

ASSUME LengthsAssumption ==
  /\ HeaderLen \in Nat \ {0}
  /\ PutSizes \subseteq Nat /\ Statuses \subseteq Int
  /\ BuffLen \in [Streams -> Nat]
  /\ \A s \in Streams : BuffLen[s] >= 3 * HeaderLen /\ BuffLen[s] % HeaderLen = 0

VARIABLES
  buf,         (* per stream: buff .. wrNext                                *)
  full,        (* per stream: stop - buff                                   *)
  isClosed, FCGI_errno, wasFCloseCalled, rawWrite, isAnythingWritten,
               (* the sets of streams for which the flag holds              *)
  nWriters, appStatus, keepConnection,  (* of the FCGX_Request              *)
  todo,        (* the calls in progress, innermost first                    *)
  accepted,    (* history: bytes the application put into each stream       *)
  peer,        (* what the web server made of the bytes it received         *)
  conn         (* the connection: open; after Finish_r kept or closed       *)

stream  == <<full, isClosed, FCGI_errno, wasFCloseCalled, rawWrite, isAnythingWritten>>
request == <<nWriters, appStatus, keepConnection>>
vars    == <<buf, stream, request, todo, accepted, peer, conn>>

-----------------------------------------------------------------------------
(* Bytes and records.                                                       *)

Repeat(n, x) == [i \in 1 .. n |-> x]

(* A byte of a record header knows the header it belongs to.               *)
Header(type, clen, plen) == Repeat(HeaderLen, <<"header", type, clen, plen>>)

EndRequest(status) == Header("end", HeaderLen, 0) \o Repeat(HeaderLen, <<"status", status>>)

Unset == Repeat(HeaderLen, <<"unset">>)

(* Deviation: rounding a multiple up to the next one.                      *)
AlignBeyond(n) == (n \div HeaderLen + 1) * HeaderLen

AlignInt8(n) == ((n + HeaderLen - 1) \div HeaderLen) * HeaderLen

(* EmptyBuffProc's encapsulation of what follows the space for the header. *)
Encapsulate(s) ==
  LET cLen == Len(buf[s]) - HeaderLen
      eLen == AlignInt8(cLen)
  IN IF cLen > 0
     THEN Header(s, cLen, eLen - cLen)
            \o SubSeq(buf[s], HeaderLen + 1, Len(buf[s])) \o Repeat(eLen - cLen, <<"pad">>)
     ELSE <<>>

(* The web server's parser: a record is a header, clen content bytes and   *)
(* plen padding bytes; what is no header where one is due is garbage.      *)
NoPeer == [head |-> 0, type |-> "none", clen |-> 0, plen |-> 0, empty |-> FALSE,
           got |-> [s \in Streams |-> <<>>], eof |-> {}, ended |-> <<>>, garbage |-> FALSE]

EndOfRecord(p) ==
  IF p.head < HeaderLen \/ p.clen + p.plen > 0 THEN p
  ELSE [p EXCEPT !.head = 0,
                 !.eof = IF p.empty /\ p.type \in Streams THEN @ \cup {p.type} ELSE @]

Receive(p, b) ==
  CASE p.garbage -> p
    [] ~p.garbage /\ p.head < HeaderLen ->
         IF b[1] = "header"
         THEN EndOfRecord([p EXCEPT !.head = @ + 1, !.type = b[2], !.clen = b[3], !.plen = b[4],
                                    !.empty = b[3] = 0])
         ELSE [p EXCEPT !.garbage = TRUE]
    [] ~p.garbage /\ p.head = HeaderLen /\ p.clen > 0 ->
         EndOfRecord([p EXCEPT
           !.clen = @ - 1,
           !.got = IF p.type \in Streams THEN [@ EXCEPT ![p.type] = Append(p.got[p.type], b)] ELSE @,
           !.ended = IF p.type = "end" /\ p.clen = 1 THEN Append(@, b[2]) ELSE @])
    [] OTHER -> EndOfRecord([p EXCEPT !.plen = @ - 1])

ReceiveAll(p, bytes) ==
  LET after[i \in 0 .. Len(bytes)] == IF i = 0 THEN p ELSE Receive(after[i - 1], bytes[i])
  IN  after[Len(bytes)]

-----------------------------------------------------------------------------
(* The call stack.                                                          *)

Call(op, s, bytes) == [op |-> op, s |-> s, bytes |-> bytes]

PutStr(s, bytes)   == <<Call("put", s, bytes)>>
EmptyBuffProc(s)   == <<Call("encapsulate", s, <<>>), Call("write", s, <<>>)>>
EmptyAndClose(s)   == <<Call("encapsulate", s, <<>>), Call("closeRecords", s, <<>>),
                        Call("write", s, <<>>)>>
FClose(s)          == <<Call("fclose", s, <<>>)>>
Free               == <<Call("free", "out", <<>>)>>

Top(op, s) == todo # <<>> /\ Head(todo).op = op /\ Head(todo).s = s
Start(calls) == todo' = calls
Then(calls) == todo' = calls \o Tail(todo)

Room(s) == full[s] - Len(buf[s])

-----------------------------------------------------------------------------
(* SetRequestWriter.                                                        *)

Init ==
  /\ buf = [s \in Streams |-> Unset]
  /\ full = BuffLen
  /\ isClosed = {} /\ FCGI_errno = {} /\ wasFCloseCalled = {}
  /\ rawWrite = {} /\ isAnythingWritten = {}
  /\ nWriters = 2 /\ appStatus = 0 /\ keepConnection \in BOOLEAN
  /\ todo = <<>>
  /\ accepted = [s \in Streams |-> 0]
  /\ peer = NoPeer
  /\ conn = "open"

(* What the handler may call, one call at a time.                          *)
Idle == conn = "open" /\ todo = <<>>

CallPutStr(s, n) ==
  /\ Idle
  /\ accepted[s] + n <= MaxBytes[s]
  /\ Start(PutStr(s, [i \in 1 .. n |-> <<s, accepted[s] + i>>]))
  /\ UNCHANGED <<buf, stream, request, accepted, peer, conn>>

CallFFlush(s) ==
  /\ Idle
  /\ s \notin isClosed
  /\ Start(EmptyBuffProc(s))
  /\ UNCHANGED <<buf, stream, request, accepted, peer, conn>>

CallFClose(s) ==
  /\ Idle
  /\ s \notin wasFCloseCalled
  /\ Start(FClose(s))
  /\ UNCHANGED <<buf, stream, request, accepted, peer, conn>>

SetExitStatus(a) ==
  /\ Idle
  /\ appStatus' = a
  /\ UNCHANGED <<buf, stream, nWriters, keepConnection, todo, accepted, peer, conn>>

(* FCGX_Finish_r closes err, then out, and frees the request.              *)
CallFinish ==
  /\ Idle
  /\ Start(FClose("err") \o FClose("out") \o Free)
  /\ UNCHANGED <<buf, stream, request, accepted, peer, conn>>

-----------------------------------------------------------------------------
(* The steps of those calls.                                                *)

(* One iteration of FCGX_PutStr's loop; the fast path is an iteration that *)
(* finds room for everything.                                              *)
Put(s) ==
  /\ Top("put", s)
  /\ LET bytes == Head(todo).bytes
         m     == IF Len(bytes) <= Room(s) THEN Len(bytes) ELSE Room(s)
     IN /\ buf' = [buf EXCEPT ![s] = @ \o SubSeq(bytes, 1, m)]
        /\ IF m = Len(bytes) \/ s \in isClosed
           THEN Then(<<>>)
           ELSE Then(EmptyBuffProc(s) \o PutStr(s, SubSeq(bytes, m + 1, Len(bytes))))
        /\ accepted' = IF s \in rawWrite THEN accepted ELSE [accepted EXCEPT ![s] = @ + m]
  /\ UNCHANGED <<stream, request, peer, conn>>

EncapsulateRecord(s) ==
  /\ Top("encapsulate", s)
  /\ buf' = IF s \in rawWrite THEN buf ELSE [buf EXCEPT ![s] = Encapsulate(s)]
  /\ Then(<<>>)
  /\ UNCHANGED <<stream, request, accepted, peer, conn>>

(* WriteCloseRecords: an err stream nobody wrote to needs no end; the last *)
(* writer ends the request.                                                *)
(* Deviation: testing nWriters after the decrement.                        *)
CloseRecordsEarly(s) ==
  /\ Top("closeRecords", s)
  /\ rawWrite' = rawWrite \cup {s}
  /\ Then((IF s = "err" /\ buf[s] = <<>> /\ s \notin isAnythingWritten
           THEN <<>> ELSE PutStr(s, Header(s, 0, 0)))
          \o (IF nWriters = 2 THEN PutStr(s, EndRequest(appStatus)) ELSE <<>>))
  /\ nWriters' = nWriters - 1
  /\ UNCHANGED <<buf, full, isClosed, FCGI_errno, wasFCloseCalled, isAnythingWritten,
                 appStatus, keepConnection, accepted, peer, conn>>

WriteCloseRecords(s) ==
  /\ Top("closeRecords", s)
  /\ rawWrite' = rawWrite \cup {s}
  /\ Then((IF s = "err" /\ buf[s] = <<>> /\ s \notin isAnythingWritten
           THEN <<>> ELSE PutStr(s, Header(s, 0, 0)))
          \o (IF nWriters = 1 THEN PutStr(s, EndRequest(appStatus)) ELSE <<>>))
  /\ nWriters' = nWriters - 1
  /\ UNCHANGED <<buf, full, isClosed, FCGI_errno, wasFCloseCalled, isAnythingWritten,
                 appStatus, keepConnection, accepted, peer, conn>>

Emptied(s) == IF s \in rawWrite THEN <<>> ELSE Unset

(* The rest of EmptyBuffProc: write_it_all writes the buffer.              *)
(* Deviation: leaving the buffer as it was.                                *)
WriteNotEmptying(s) ==
  /\ Top("write", s)
  /\ isAnythingWritten' = IF buf[s] = <<>> THEN isAnythingWritten ELSE isAnythingWritten \cup {s}
  /\ peer' = ReceiveAll(peer, buf[s])
  /\ Then(<<>>)
  /\ UNCHANGED <<buf, full, isClosed, FCGI_errno, wasFCloseCalled, rawWrite, request, accepted, conn>>

Write(s) ==
  /\ Top("write", s)
  /\ isAnythingWritten' = IF buf[s] = <<>> THEN isAnythingWritten ELSE isAnythingWritten \cup {s}
  /\ peer' = ReceiveAll(peer, buf[s])
  /\ buf' = [buf EXCEPT ![s] = Emptied(s)]
  /\ Then(<<>>)
  /\ UNCHANGED <<full, isClosed, FCGI_errno, wasFCloseCalled, rawWrite, request, accepted, conn>>

(* A write fails after k bytes: SetError, and the buffer stays as it is.   *)
WriteFails(s) ==
  /\ Top("write", s) /\ buf[s] # <<>>
  /\ isAnythingWritten' = isAnythingWritten \cup {s}
  /\ \E k \in FailPoints \cap (0 .. Len(buf[s]) - 1) : peer' = ReceiveAll(peer, SubSeq(buf[s], 1, k))
  /\ FCGI_errno' = FCGI_errno \cup {s}
  /\ isClosed' = isClosed \cup {s}
  /\ Then(<<>>)
  /\ UNCHANGED <<buf, full, wasFCloseCalled, rawWrite, request, accepted, conn>>

(* FCGX_FClose: nothing the second time.                                   *)
BeginFClose(s) ==
  /\ Top("fclose", s)
  /\ Then(IF s \in wasFCloseCalled THEN <<>>
          ELSE EmptyAndClose(s) \o <<Call("closed", s, <<>>)>>)
  /\ UNCHANGED <<buf, stream, request, accepted, peer, conn>>

EndFClose(s) ==
  /\ Top("closed", s)
  /\ wasFCloseCalled' = wasFCloseCalled \cup {s}
  /\ isClosed' = isClosed \cup {s}
  /\ full' = [full EXCEPT ![s] = Len(buf[s])]
  /\ Then(<<>>)
  /\ UNCHANGED <<buf, FCGI_errno, rawWrite, isAnythingWritten, request, accepted, peer, conn>>

(* The connection is closed unless it is to be kept and no stream, the     *)
(* reader included, has met an error.                                      *)
FreeRequest ==
  /\ todo = Free
  /\ \E inError \in BOOLEAN :
       conn' = IF ~keepConnection \/ FCGI_errno # {} \/ inError THEN "closed" ELSE "kept"
  /\ Then(<<>>)
  /\ UNCHANGED <<buf, stream, request, accepted, peer>>

-----------------------------------------------------------------------------

Application ==
  \/ \E s \in Streams, n \in PutSizes : CallPutStr(s, n)
  \/ \E s \in Streams : CallFFlush(s) \/ CallFClose(s)
  \/ \E a \in Statuses : SetExitStatus(a)

Library ==
  \/ \E s \in Streams : \/ Put(s) \/ EncapsulateRecord(s) \/ WriteCloseRecords(s)
                        \/ Write(s) \/ WriteFails(s) \/ BeginFClose(s) \/ EndFClose(s)
  \/ FreeRequest

(* After FCGX_Finish_r the request is gone.                                *)
Finished == conn # "open" /\ UNCHANGED vars

Next == Application \/ CallFinish \/ Library \/ Finished

Spec == Init /\ [][Next]_vars

(* The worker keeps running, and its handler returns in the end.           *)
FairSpec == Spec /\ WF_vars(Library) /\ SF_vars(CallFinish)

-----------------------------------------------------------------------------
(* Properties.                                                              *)

Ops == {"put", "encapsulate", "closeRecords", "write", "fclose", "closed", "free"}

(* Types; in particular the padding never overflows a buffer, and each     *)
(* stream closes once: nWriters counts the open ones.                      *)
TypeOK ==
  /\ \A s \in Streams : Len(buf[s]) \in 0 .. full[s] /\ full[s] \in 0 .. BuffLen[s]
  /\ \A set \in {isClosed, FCGI_errno, wasFCloseCalled, rawWrite, isAnythingWritten} :
       set \subseteq Streams
  /\ nWriters \in 0 .. 2
  /\ nWriters + Cardinality(rawWrite) = 2
  /\ keepConnection \in BOOLEAN
  /\ \A i \in DOMAIN todo : todo[i].op \in Ops /\ todo[i].s \in Streams
  /\ conn \in {"open", "kept", "closed"}

(* "bug in emptyBuffProc if not": after EmptyBuffProc a stream has room or *)
(* is closed, so the loop of PutStr, which calls it when there is none,    *)
(* makes progress, however small the buffer and in raw mode too.           *)
FlushMakesRoom ==
  [][\A s \in Streams : Top("write", s) /\ todo' = Tail(todo)
       => buf'[s] = <<>> \/ full[s] > Len(buf'[s]) \/ s \in isClosed']_vars

Response == INSTANCE FcgiResponse WITH
  got <- peer.got, eof <- peer.eof, ended <- peer.ended,
  status <- appStatus, broken <- FCGI_errno # {}

(* The web server receives the promised response, whatever the sizes of    *)
(* the writes, the flushes and the order in which the streams are closed;  *)
(* and a connection is kept only after a complete one.                     *)
ImplementsResponse == Response!Spec

(* SetError: "writes have no effect" once a stream has met an error.       *)
WritesAfterErrorHaveNoEffect ==
  [][\A s \in FCGI_errno : peer'.got[s] = peer.got[s]]_vars

=============================================================================
