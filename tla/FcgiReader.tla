----------------------------- MODULE FcgiReader -----------------------------
(***************************************************************************)
(* libFcgi/fcgiapp.cpp, the input side of one request: records taken out   *)
(* of a byte stream that arrives in arbitrary pieces, the parameters, the  *)
(* management records in between, ReadRequest(), and the handler's reads   *)
(* of the body.                                                            *)
(*                                                                         *)
(* One thread at a time runs all of this.  What is uncertain is each read: *)
(* it returns any number of bytes up to the buffer's size, or it fails,    *)
(* for good or because nothing has arrived yet (EAGAIN: the sockets are    *)
(* non-blocking).  The functions call each other recursively, so the call  *)
(* stack is the variable todo, innermost call first, and ret is what the   *)
(* last finished call returned.                                            *)
(*                                                                         *)
(* Bytes are scaled: HeaderLen of them are a record header and a BEGIN     *)
(* body (8 in the code).  Pointers into the buffer are positions in wire,  *)
(* all the bytes that are sent.                                            *)
(***************************************************************************)
EXTENDS Integers, Sequences, FiniteSets, SequencesExt

CONSTANTS
  HeaderLen,    (* sizeof(FCGI_Header), sizeof(FCGI_BeginRequestBody)       *)
  ExtraLen,     (* bytes that follow the first of a long length (3)         *)
  BuffLen,      (* data->bufflen                                            *)
  GetSizes,     (* how many bytes the handler asks for at a time            *)
  Requests,     (* what web servers send: records, and what they stand for  *)
  Misread       (* what bytes that are no header may say when read as one   *)

ASSUME LengthsAssumption == {HeaderLen, ExtraLen, BuffLen} \subseteq Nat \ {0} /\ GetSizes \subseteq Nat

(* What is sent are records, of bytes that may be read as lengths.         *)
ASSUME RequestsAssumption ==
  \A r \in Requests :
    /\ r.records \in Seq(ToSet(r.records))
    /\ \A sr \in ToSet(r.records) :
         /\ sr.pad \in Nat /\ sr.content \in Seq(ToSet(sr.content))
         /\ \A b \in ToSet(sr.content) : b[2] \in Nat

VARIABLES
  sent, wire,                       (* the request, and its bytes           *)
  rdNext, stop, buffStop,
  contentLen, paddingLen, skip, eorStop, type,
  isClosed,
  FCGI_errno,                       (* TRUE once an error was set           *)
  requestId, isBeginProcessed, role,
  todo, ret,
  served,                           (* how far the request is               *)
  params, body,                     (* what its handler sees                *)
  answers,                          (* records written back meanwhile       *)
  mixedUp                           (* history: see MixUp below             *)

buffer  == <<rdNext, stop, buffStop>>
record  == <<contentLen, paddingLen, skip, eorStop>>
request == <<requestId, isBeginProcessed, role>>
handler == <<served, params, body>>
web     == <<sent, wire>>
vars    == <<web, buffer, record, type, isClosed, FCGI_errno, request, todo, ret,
             handler, answers, mixedUp>>

Least(a, b) == IF a <= b THEN a ELSE b

-----------------------------------------------------------------------------
(* Records and their bytes.  A byte has a value (its second element) that  *)
(* counts when it is read as a length.                                     *)

Pad == <<"pad", 0>>

RecordBytes(r) ==
  LET header == [type |-> r.type, id |-> r.id, clen |-> Len(r.content), plen |-> r.pad]
  IN [i \in 1 .. HeaderLen |-> <<"header", i, header>>]
       \o r.content \o [i \in 1 .. r.pad |-> Pad]

IsHeader(bytes) == \A i \in 1 .. HeaderLen : bytes[i][1] = "header" /\ bytes[i][2] = i

(* Bytes that are no header, read as one, may say anything that is in      *)
(* Misread.                                                                *)
HeaderOf(bytes) == IF IsHeader(bytes) THEN {bytes[1][3]} ELSE Misread

-----------------------------------------------------------------------------
(* The call stack.                                                          *)

FillBuffProc == <<[op |-> "fill", header |-> <<>>]>>
GetStr(n)    == <<[op |-> "getStr", n |-> n, got |-> <<>>]>>
ReadParams   == <<[op |-> "readParams", step |-> "nameLen", name |-> <<>>, nameLen |-> 0,
                   valueLen |-> 0, pairs |-> <<>>]>>

Top(op) == todo # <<>> /\ Head(todo).op = op
Then(calls) == todo' = calls \o Tail(todo) /\ UNCHANGED ret
Return(bytes) == todo' = Tail(todo) /\ ret' = [bytes |-> bytes, ok |-> TRUE, pairs |-> <<>>]
ReturnParams(ok, pairs) == todo' = Tail(todo) /\ ret' = [bytes |-> <<>>, ok |-> ok, pairs |-> pairs]
Loop == UNCHANGED <<todo, ret>>

(* SetError, and the stream reads as closed.                               *)
SetError == FCGI_errno' = TRUE /\ isClosed' = TRUE

-----------------------------------------------------------------------------
(* The receiver calls ReadRequest(); the FCGX_Request may have been used   *)
(* for a request that was refused.                                         *)

Init ==
  /\ sent \in Requests
  /\ wire = FlattenSeq([i \in DOMAIN sent.records |-> RecordBytes(sent.records[i])])
  /\ rdNext = 0 /\ stop = 0 /\ buffStop = 0
  /\ contentLen = 0 /\ paddingLen = 0 /\ skip = FALSE /\ eorStop = FALSE
  /\ type = "none" /\ isClosed = FALSE /\ FCGI_errno = FALSE
  /\ requestId \in {0, 1} /\ isBeginProcessed = FALSE /\ role = "other"
  /\ todo = FillBuffProc \o <<[op |-> "readRequest", step |-> "begin"]>>
  /\ ret = [bytes |-> <<>>, ok |-> TRUE, pairs |-> <<>>]
  /\ served = "new" /\ params = <<>> /\ body = <<>>
  /\ answers = <<>> /\ mixedUp = FALSE

(* SetReaderType; padding that is still to come is forgotten.              *)
SetReaderType(t) ==
  /\ type' = t
  /\ eorStop' = FALSE /\ skip' = FALSE /\ contentLen' = 0 /\ paddingLen' = 0
  /\ stop' = rdNext /\ isClosed' = FALSE
  /\ mixedUp' = (mixedUp \/ paddingLen > 0)

-----------------------------------------------------------------------------
(* FillBuffProc.                                                            *)

Empty == rdNext = buffStop
Available == buffStop - rdNext

OSRead ==
  /\ Top("fill") /\ Empty
  /\ \E count \in 1 .. Least(BuffLen, Len(wire) - rdNext) : buffStop' = rdNext + count
  /\ Loop
  /\ UNCHANGED <<web, rdNext, stop, record, type, isClosed, FCGI_errno, request, handler,
                 answers, mixedUp>>

OSReadFails ==
  /\ Top("fill") /\ Empty
  /\ SetError
  /\ Return(<<>>)
  /\ UNCHANGED <<web, buffer, record, type, request, handler, answers, mixedUp>>

(* Content of the record goes to the caller.                               *)
Deliver ==
  /\ Top("fill") /\ ~Empty /\ contentLen > 0 /\ ~skip
  /\ LET count == Least(contentLen, Available)
     IN contentLen' = contentLen - count /\ stop' = rdNext + count
  /\ Return(<<>>)
  /\ UNCHANGED <<web, rdNext, buffStop, paddingLen, skip, eorStop, type, isClosed,
                 FCGI_errno, request, handler, answers, mixedUp>>

(* Otherwise the rest of the record is skipped as far as the buffer goes:  *)
(* its content, then its padding, and skip is reset with the last content. *)
Skipping == Top("fill") /\ ~Empty /\ (contentLen = 0 \/ skip)
Content == Least(contentLen, Available)
Padding == IF Content < contentLen THEN 0 ELSE Least(paddingLen, Available - Content)
RecordEnds == Content = contentLen /\ Padding = paddingLen
SkipAfter == skip /\ ~(contentLen > 0 /\ Content = contentLen)

SkipRecord ==
  /\ Skipping /\ ~RecordEnds
  /\ rdNext' = rdNext + Content + Padding
  /\ contentLen' = contentLen - Content /\ paddingLen' = paddingLen - Padding
  /\ skip' = SkipAfter
  /\ Loop
  /\ UNCHANGED <<web, stop, buffStop, eorStop, type, isClosed, FCGI_errno, request, handler,
                 answers, mixedUp>>

(* At the end of the record a call from within ProcessHeader gets EOF ...  *)
EndOfRecord ==
  /\ Skipping /\ RecordEnds /\ eorStop
  /\ rdNext' = rdNext + Content + Padding /\ stop' = rdNext'
  /\ contentLen' = 0 /\ paddingLen' = 0 /\ skip' = SkipAfter
  /\ isClosed' = TRUE
  /\ Return(<<>>)
  /\ UNCHANGED <<web, buffStop, eorStop, type, FCGI_errno, request, handler, answers, mixedUp>>

(* ... and any other goes on to the next header.                           *)
HeaderSoFar ==
  LET from == rdNext + Content + Padding
      h == Head(todo).header
  IN h \o SubSeq(wire, from + 1, Least(from + HeaderLen - Len(h), buffStop))

(* Deviation: forgetting the part of a header that ended the buffer.       *)
FillHeaderAfresh ==
  /\ Skipping /\ RecordEnds /\ ~eorStop
  /\ Len(HeaderSoFar) < HeaderLen
  /\ rdNext' = buffStop
  /\ contentLen' = 0 /\ paddingLen' = 0 /\ skip' = SkipAfter
  /\ Then(FillBuffProc)
  /\ UNCHANGED <<web, stop, buffStop, eorStop, type, isClosed, FCGI_errno, request, handler,
                 answers, mixedUp>>

FillHeader ==
  /\ Skipping /\ RecordEnds /\ ~eorStop
  /\ Len(HeaderSoFar) < HeaderLen
  /\ rdNext' = buffStop
  /\ contentLen' = 0 /\ paddingLen' = 0 /\ skip' = SkipAfter
  /\ Then(<<[op |-> "fill", header |-> HeaderSoFar]>>)
  /\ UNCHANGED <<web, stop, buffStop, eorStop, type, isClosed, FCGI_errno, request, handler,
                 answers, mixedUp>>

(* A whole header: FillBuffProc calls ProcessHeader, which takes over the  *)
(* two lengths, unless the version is not the one it knows.                *)
CallProcessHeader ==
  /\ Skipping /\ RecordEnds /\ ~eorStop
  /\ Len(HeaderSoFar) = HeaderLen
  /\ rdNext' = rdNext + Content + Padding + HeaderLen - Len(Head(todo).header)
  /\ stop' = rdNext'
  /\ eorStop' = TRUE /\ skip' = SkipAfter
  /\ \E h \in HeaderOf(HeaderSoFar) :
       /\ contentLen' = IF h.type = "badVersion" THEN 0 ELSE h.clen
       /\ paddingLen' = IF h.type = "badVersion" THEN 0 ELSE h.plen
       /\ Then(<<[op |-> "process", h |-> h, framed |-> IsHeader(HeaderSoFar)]>> \o FillBuffProc)
  /\ UNCHANGED <<web, buffStop, type, isClosed, FCGI_errno, request, handler, answers, mixedUp>>

(* What FillBuffProc does with the status ProcessHeader returned; the      *)
(* frame of FillBuffProc is under that of ProcessHeader.                   *)
Status(status) ==
  /\ eorStop' = FALSE
  /\ skip' = (skip \/ status = "skip")
  /\ isClosed' = (status = "error" \/ (status = "stream" /\ contentLen = 0))
  /\ FCGI_errno' = (FCGI_errno \/ status = "error")
  /\ stop' = IF status = "stream" /\ contentLen = 0 THEN rdNext ELSE stop
  /\ todo' = IF status \in {"error", "begin"} \/ (status = "stream" /\ contentLen = 0)
             THEN Tail(Tail(todo)) ELSE Tail(todo)
  /\ UNCHANGED ret

-----------------------------------------------------------------------------
(* ProcessHeader, on top of FillBuffProc.                                   *)

Header == Head(todo).h

BadVersion ==
  /\ Top("process") /\ Header.type = "badVersion"
  /\ Status("error")
  /\ UNCHANGED <<web, rdNext, buffStop, contentLen, paddingLen, type, request, handler,
                 answers, mixedUp>>

(* ProcessBeginRecord: the first BEGIN is read; a further one is answered  *)
(* and skipped, as the library does not multiplex.                         *)
BeginMalformed ==
  /\ Top("process") /\ Header.type = "begin"
  /\ Header.id = 0 \/ contentLen # HeaderLen
  /\ Status("error")
  /\ UNCHANGED <<web, rdNext, buffStop, contentLen, paddingLen, type, request, handler,
                 answers, mixedUp>>

(* The record is answered, or the write fails.                             *)
Answer(with, status) ==
  \/ Status(status) /\ answers' = Append(answers, with)
  \/ Status("error") /\ UNCHANGED answers

BeginAgain ==
  /\ Top("process") /\ Header.type = "begin" /\ isBeginProcessed
  /\ Header.id # 0 /\ contentLen = HeaderLen
  /\ Answer("cantMultiplex", "skip")
  /\ UNCHANGED <<web, rdNext, buffStop, contentLen, paddingLen, type, request, handler, mixedUp>>

ProcessBeginRecord ==
  /\ Top("process") /\ Header.type = "begin" /\ ~isBeginProcessed
  /\ Header.id # 0 /\ contentLen = HeaderLen
  /\ requestId' = Header.id
  /\ Then(GetStr(HeaderLen) \o <<[op |-> "beginBody"]>>)
  /\ UNCHANGED <<web, buffer, record, type, isClosed, FCGI_errno, isBeginProcessed, role,
                 handler, answers, mixedUp>>

RoleOf(b) == IF b[1] = "begin" THEN b[3] ELSE "other"

BeginBodyRead ==
  /\ Top("beginBody")
  /\ IF Len(ret.bytes) = HeaderLen
     THEN role' = RoleOf(ret.bytes[1]) /\ isBeginProcessed' = TRUE /\ Status("begin")
     ELSE UNCHANGED <<role, isBeginProcessed>> /\ Status("error")
  /\ UNCHANGED <<web, rdNext, buffStop, contentLen, paddingLen, type, requestId, handler,
                 answers, mixedUp>>

(* ProcessManagementRecord: FCGI_GET_VALUES is read as parameters and      *)
(* answered; any other is answered and its content left where it is.       *)
GetValues ==
  /\ Top("process") /\ Header.type = "getValues" /\ Header.id = 0
  /\ Then(ReadParams \o <<[op |-> "values"]>>)
  /\ UNCHANGED <<web, buffer, record, type, isClosed, FCGI_errno, request, handler,
                 answers, mixedUp>>

ValuesRead ==
  /\ Top("values")
  /\ IF FCGI_errno \/ contentLen # 0
     THEN Status("error") /\ UNCHANGED answers
     ELSE Answer("values", "management")
  /\ UNCHANGED <<web, rdNext, buffStop, contentLen, paddingLen, type, request, handler, mixedUp>>

UnknownManagement ==
  /\ Top("process") /\ Header.type \notin {"badVersion", "begin", "getValues"} /\ Header.id = 0
  /\ Answer("unknownType", "management")
  /\ mixedUp' = (mixedUp \/ contentLen > 0)
  /\ UNCHANGED <<web, rdNext, buffStop, contentLen, paddingLen, type, request, handler>>

(* Deviation: taking every record for the current request's.               *)
StreamRecordAnyId ==
  /\ Top("process") /\ Header.type \notin {"badVersion", "begin"} /\ Header.id # 0
  /\ Status(IF Header.type # type THEN "error" ELSE "stream")
  /\ UNCHANGED <<mixedUp, web, rdNext, buffStop, contentLen, paddingLen, type, request,
                 handler, answers>>

(* Any other record: of another request, of another stream, or the next of *)
(* the stream being read.  When there is no content to skip, skip stays    *)
(* set for the record that follows.                                        *)
StreamRecord ==
  /\ Top("process") /\ Header.type \notin {"badVersion", "begin"} /\ Header.id # 0
  /\ Status(CASE Header.id # requestId -> "skip"
              [] Header.id = requestId /\ Header.type # type -> "error"
              [] OTHER -> "stream")
  /\ mixedUp' = (mixedUp \/ (Header.id # requestId /\ contentLen = 0))
  /\ UNCHANGED <<web, rdNext, buffStop, contentLen, paddingLen, type, request, handler, answers>>

ProcessHeader == BadVersion \/ BeginMalformed \/ BeginAgain \/ ProcessBeginRecord
                 \/ GetValues \/ UnknownManagement \/ StreamRecord

-----------------------------------------------------------------------------
(* FCGX_GetStr, and FCGX_GetChar, which is FCGX_GetStr of one byte.         *)

(* Deviation: calling for more even though the stream is closed.           *)
GetStrUnchecked ==
  /\ Top("getStr")
  /\ LET call  == Head(todo)
         count == Least(call.n - Len(call.got), stop - rdNext)
         got   == call.got \o SubSeq(wire, rdNext + 1, rdNext + count)
     IN /\ rdNext' = rdNext + count
        /\ IF Len(got) = call.n
           THEN Return(got)
           ELSE Then(FillBuffProc \o <<[call EXCEPT !.got = got]>>)
  /\ UNCHANGED <<web, stop, buffStop, record, type, isClosed, FCGI_errno, request, handler,
                 answers, mixedUp>>

GetStrStep ==
  /\ Top("getStr")
  /\ LET call  == Head(todo)
         count == IF isClosed THEN 0 ELSE Least(call.n - Len(call.got), stop - rdNext)
         got   == call.got \o SubSeq(wire, rdNext + 1, rdNext + count)
     IN /\ rdNext' = rdNext + count
        /\ IF Len(got) = call.n \/ isClosed
           THEN Return(got)
           ELSE Then(FillBuffProc \o <<[call EXCEPT !.got = got]>>)
  /\ UNCHANGED <<web, stop, buffStop, record, type, isClosed, FCGI_errno, request, handler,
                 answers, mixedUp>>

-----------------------------------------------------------------------------
(* ReadParams: two lengths, each of one byte or of a first one and more,   *)
(* the name and the value.                                                 *)

Wanted(p) ==
  CASE p.step \in {"nameLen", "valueLen"} -> 1
    [] p.step \in {"nameMore", "valueMore"} -> ExtraLen
    [] p.step = "name" -> p.nameLen
    [] p.step = "value" -> p.valueLen

(* The call of FCGX_GetStr that reads the next part of a pair.             *)
ReadPart ==
  /\ Top("readParams")
  /\ Then(GetStr(Wanted(Head(todo))) \o <<[Head(todo) EXCEPT !.op = "partRead"]>>)
  /\ UNCHANGED <<web, buffer, record, type, isClosed, FCGI_errno, request, handler,
                 answers, mixedUp>>

(* A first byte of a length carries the whole value here; whether more     *)
(* bytes follow is in its kind.                                            *)
AfterPart(p, bytes) ==
  CASE p.step = "nameLen"   -> [p EXCEPT !.nameLen = bytes[1][2],
                                  !.step = IF bytes[1][1] = "long" THEN "nameMore" ELSE "valueLen"]
    [] p.step = "nameMore"  -> [p EXCEPT !.step = "valueLen"]
    [] p.step = "valueLen"  -> [p EXCEPT !.valueLen = bytes[1][2],
                                  !.step = IF bytes[1][1] = "long" THEN "valueMore" ELSE "name"]
    [] p.step = "valueMore" -> [p EXCEPT !.step = "name"]
    [] p.step = "name"      -> [p EXCEPT !.name = bytes, !.step = "value"]
    [] p.step = "value"     -> [p EXCEPT !.pairs = Append(@, <<p.name, bytes>>), !.step = "nameLen"]

PartRead ==
  /\ Top("partRead") /\ Len(ret.bytes) = Wanted(Head(todo))
  /\ Then(<<[AfterPart(Head(todo), ret.bytes) EXCEPT !.op = "readParams"]>>)
  /\ UNCHANGED <<web, buffer, record, type, isClosed, FCGI_errno, request, handler,
                 answers, mixedUp>>

(* No byte where a pair would start: the end, or so it seems.              *)
ParamsEnd ==
  /\ Top("partRead") /\ Head(todo).step = "nameLen" /\ ret.bytes = <<>>
  /\ ReturnParams(TRUE, Head(todo).pairs)
  /\ UNCHANGED <<web, buffer, record, type, isClosed, FCGI_errno, request, handler,
                 answers, mixedUp>>

PartMissing ==
  /\ Top("partRead") /\ Head(todo).step # "nameLen" /\ Len(ret.bytes) < Wanted(Head(todo))
  /\ SetError
  /\ ReturnParams(FALSE, <<>>)
  /\ UNCHANGED <<web, buffer, record, type, request, handler, answers, mixedUp>>

-----------------------------------------------------------------------------
(* ReadRequest, SetRequestWriter, and the handler's reads.                  *)

Refuse ==
  /\ served' = "refused" /\ Return(<<>>)
  /\ UNCHANGED <<buffer, record, type, isClosed, mixedUp, params>>

ReadBegin ==
  /\ Top("readRequest") /\ Head(todo).step = "begin"
  /\ IF ~isBeginProcessed \/ role = "other"
     THEN Refuse
     ELSE /\ SetReaderType("params")
          /\ Then(ReadParams \o <<[op |-> "readRequest", step |-> "params"]>>)
          /\ UNCHANGED <<rdNext, buffStop, served, params>>
  /\ UNCHANGED <<web, FCGI_errno, request, body, answers>>

ReadRequest ==
  /\ Top("readRequest") /\ Head(todo).step = "params"
  /\ IF ~ret.ok
     THEN Refuse
     ELSE /\ served' = "served" /\ params' = ret.pairs
          /\ SetReaderType("stdin")
          /\ Return(<<>>)
          /\ UNCHANGED <<rdNext, buffStop>>
  /\ UNCHANGED <<web, FCGI_errno, request, body, answers>>

CallGetStr(n) ==
  /\ served = "served" /\ todo = <<>>
  /\ todo' = GetStr(n) \o <<[op |-> "handler", n |-> n]>>
  /\ UNCHANGED <<web, buffer, record, type, isClosed, FCGI_errno, request, ret, handler,
                 answers, mixedUp>>

(* The handler stops where it got less than it asked for.                  *)
GotStr ==
  /\ Top("handler")
  /\ body' = body \o ret.bytes
  /\ served' = IF Len(ret.bytes) < Head(todo).n THEN "done" ELSE "served"
  /\ Return(<<>>)
  /\ UNCHANGED <<web, buffer, record, type, isClosed, FCGI_errno, request, params,
                 answers, mixedUp>>

-----------------------------------------------------------------------------

Library ==
  \/ OSRead \/ OSReadFails \/ Deliver \/ SkipRecord \/ EndOfRecord \/ FillHeader
  \/ CallProcessHeader \/ ProcessHeader \/ BeginBodyRead \/ ValuesRead
  \/ GetStrStep \/ ReadPart \/ PartRead \/ ParamsEnd \/ PartMissing
  \/ ReadBegin \/ ReadRequest \/ GotStr

Over == todo = <<>> /\ served # "served" /\ UNCHANGED vars

Next == Library \/ (\E n \in GetSizes : CallGetStr(n)) \/ Over

Spec == Init /\ [][Next]_vars

(* The thread runs.  A read that finds nothing fails, it does not block.   *)
FairSpec == Spec /\ WF_vars(Library)

-----------------------------------------------------------------------------
(* Properties.                                                              *)

TypeOK ==
  /\ {rdNext, stop, buffStop} \subseteq 0 .. Len(wire)
  /\ rdNext <= buffStop /\ stop <= buffStop
  /\ contentLen \in Nat /\ paddingLen \in Nat
  /\ {skip, eorStop, isClosed, FCGI_errno, isBeginProcessed, mixedUp} \subseteq BOOLEAN
  /\ type \in {"none", "params", "stdin"}
  /\ requestId \in Nat /\ role \in STRING
  /\ served \in {"new", "served", "refused", "done"}
  /\ \A i \in DOMAIN todo : todo[i].op \in {"fill", "process", "beginBody", "values", "getStr",
                                            "readParams", "partRead", "readRequest", "handler"}

(* However the bytes arrive, a header is read exactly where the web server *)
(* put one, until an error, or one of three places that mix records up:    *)
(* the padding of a record that ends a phase is forgotten (SetReaderType), *)
(* a skipped record without content makes the next one skipped too, and    *)
(* the content of an unknown management record is not consumed.            *)
HeadersAreHeaders ==
  ~FCGI_errno /\ ~mixedUp => \A i \in DOMAIN todo : todo[i].op = "process" => todo[i].framed

Input == INSTANCE FcgiInput WITH broken <- FCGI_errno \/ mixedUp

(* The handler gets the parameters and the body the web server sent, the   *)
(* same for every way the bytes are cut into reads and records, whatever   *)
(* management records and records of other requests come in between.       *)
ImplementsInput == Input!Spec

(* Every call comes back: no loop of the reader runs without consuming     *)
(* input or failing.                                                       *)
CallsReturn == todo # <<>> ~> todo = <<>>

(* "Reads FastCGI name-value pairs from stream until EOF", where EOF means *)
(* that "the end of input has been reached": a request is only handed over *)
(* with all the parameters sent for it.                                    *)
ReadsParamsUntilEOF == served = "served" /\ ~mixedUp => params = sent.params

(* "If the current record (whose content has been fully consumed by the    *)
(* client) was padded, skip over the padding bytes": while nothing failed, *)
(* no header is begun with a byte of padding.                              *)
PaddingIsSkipped ==
  ~FCGI_errno => \A i \in DOMAIN todo :
                   todo[i].op = "fill" => todo[i].header = <<>> \/ todo[i].header[1] # Pad

=============================================================================
