---------------------------- MODULE OutputProofs ----------------------------
(***************************************************************************)
(* Theorems about FcgiWriter, for any header and buffer sizes that fit     *)
(* together and any writes, flushes, closes and failures; and about        *)
(* FcgiPrintf, for any formats: no buffer overflows, and the web server    *)
(* receives the promised response.                                         *)
(*                                                                         *)
(* The streams' buffers hold because a buffer is a multiple of what        *)
(* records are padded to (Alignment), as long as it is whole, that is      *)
(* until FCGX_FClose is done with its stream; that nothing encapsulates or *)
(* ends a stream after that, and nothing ends one twice, is a matter of    *)
(* how the calls nest (Stack).                                             *)
(*                                                                         *)
(* The response is right because a buffer holds what the server's parser   *)
(* does not have yet (Settled), plain or as one record, or, once a stream  *)
(* has written its close records, because what the buffer holds and what   *)
(* is still to be put into it is heard as the end of the stream and of the *)
(* request (Ending): whatever prefix of those bytes a failing write gets   *)
(* through (Heard).                                                        *)
(***************************************************************************)
EXTENDS FcgiWriter, FcgiPrintf, SequenceTheorems, FiniteSetTheorems, WellFoundedInduction, TLAPS

-----------------------------------------------------------------------------
(* FCGX_VFPrintF.                                                           *)

LEMMA LargerSmaller ==
  ASSUME NEW a \in Int, NEW b \in Int
  PROVE  /\ larger(a, b) \in {a, b} /\ larger(a, b) >= a /\ larger(a, b) >= b
         /\ smaller(a, b) \in {a, b} /\ smaller(a, b) <= a /\ smaller(a, b) <= b
         /\ abs(a) \in Nat /\ abs(a) >= a
BY DEF larger, smaller, abs

LEMMA PiecesTyped ==
  ASSUME NEW c \in Pieces
  PROVE  /\ c.width.n \in Int /\ c.precision.n \in Int /\ c.arg.length \in Nat /\ c.arg.prefix \in 0 .. 2
         /\ c.arg.exp \in Int /\ c.arg.cast \in Int
         /\ precision(c) \in Int /\ precision(c) >= -1 /\ StringLength(c) \in Nat
<1>1. /\ c.width.n \in Int /\ c.precision.n \in Int /\ c.arg.length \in Nat /\ c.arg.prefix \in 0 .. 2
      /\ c.arg.exp \in Int /\ c.arg.cast \in Int
  BY DEF Pieces, Given
<1>2. precision(c) \in Int /\ precision(c) >= -1
  BY <1>1 DEF precision, larger
<1>3. StringLength(c) \in Nat
  BY <1>1 DEF StringLength
<1> QED BY <1>1, <1>2, <1>3

(* What sprintf writes is shorter than what was reckoned with, unless the  *)
(* cast loses the exponent.                                                *)
LEMMA TextIsBounded ==
  ASSUME NEW c \in Pieces, c.op \in {"d", "c", "p", "s", "f", "e"}
  PROVE  /\ Text(c) \in Nat /\ bound(c) \in Nat
         /\ c.arg.cast >= c.arg.exp => Text(c) < bound(c) + 10
<1> DEFINE p == precision(c)
           digits == IF p = -1 THEN 6 ELSE p
           e == larger(c.arg.cast, 0)
<1>1. /\ c.width.n \in Int /\ c.precision.n \in Int /\ c.arg.length \in Nat /\ c.arg.prefix \in 0 .. 2
      /\ c.arg.exp \in Int /\ c.arg.cast \in Int /\ p \in Int /\ p >= -1 /\ StringLength(c) \in Nat
  BY PiecesTyped
<1>2. digits \in Nat /\ e \in Nat
  BY <1>1 DEF larger
<1>3. bound(c) = CASE c.op \in {"d", "c", "p"} -> larger(p, 46)
                   [] c.op = "s" -> IF p = -1 THEN StringLength(c) ELSE smaller(StringLength(c), p)
                   [] c.op = "f" -> digits + 3 + e \div 3
                   [] OTHER -> digits + 8
  BY Zenon DEF bound, boundFor
<1>4. Text(c) = CASE c.op = "d" -> c.arg.prefix + larger(p, c.arg.length)
                  [] c.op = "s" -> IF p = -1 THEN StringLength(c) ELSE smaller(StringLength(c), p)
                  [] c.op = "f" -> c.arg.prefix + Digits10(c.arg.exp) + 1 + digits
                  [] c.op = "e" -> c.arg.prefix + 2 + digits + 6
                  [] OTHER -> c.arg.length
  BY Zenon DEF Text
<1>5. CASE c.op = "d"
  <2>1. bound(c) = larger(p, 46) /\ Text(c) = c.arg.prefix + larger(p, c.arg.length)
    BY <1>3, <1>4, <1>5, Zenon
  <2>2. c.arg.length <= 22
    BY <1>5 DEF Pieces
  <2> HIDE DEF p
  <2> QED BY <1>1, <2>1, <2>2 DEF larger
<1>6. CASE c.op \in {"c", "p"}
  <2>1. bound(c) = larger(p, 46) /\ Text(c) = c.arg.length
    BY <1>3, <1>4, <1>6, Zenon
  <2>2. c.arg.length <= 18
    <3>1. (c.op = "c" => c.arg.length <= 1) /\ (c.op = "p" => c.arg.length <= 18)
      BY DEF Pieces
    <3> QED BY <1>1, <1>6, <3>1
  <2> HIDE DEF p
  <2> QED BY <1>1, <2>1, <2>2 DEF larger
<1>7. CASE c.op = "s"
  <2>1. bound(c) = IF p = -1 THEN StringLength(c) ELSE smaller(StringLength(c), p)
    BY <1>3, <1>7, Zenon
  <2>2. Text(c) = IF p = -1 THEN StringLength(c) ELSE smaller(StringLength(c), p)
    BY <1>4, <1>7, Zenon
  <2> HIDE DEF p
  <2> QED BY <1>1, <2>1, <2>2 DEF smaller
<1>8. CASE c.op = "f"
  <2>1. bound(c) = digits + 3 + e \div 3 /\ Text(c) = c.arg.prefix + Digits10(c.arg.exp) + 1 + digits
    BY <1>3, <1>4, <1>8, Zenon
  <2>2. c.arg.prefix <= 1
    BY <1>8 DEF Pieces
  <2>3. /\ Digits10(c.arg.exp) \in Nat /\ e \div 3 \in Nat
        /\ c.arg.cast >= c.arg.exp => Digits10(c.arg.exp) <= e \div 3 + 1
    BY <1>1 DEF Digits10, larger
  <2> HIDE DEF digits, e
  <2> QED BY <1>1, <1>2, <2>1, <2>2, <2>3
<1>9. CASE c.op = "e"
  <2>1. bound(c) = digits + 8 /\ Text(c) = c.arg.prefix + 2 + digits + 6
    BY <1>3, <1>4, <1>9, Zenon
  <2> HIDE DEF digits
  <2> QED BY <1>1, <1>2, <2>1
<1> QED BY <1>5, <1>6, <1>7, <1>8, <1>9
LEMMA PerformedOps ==
  ASSUME NEW c \in Pieces, Accepted(c)
  PROVE  /\ c.op \in {"d", "c", "p", "s", "f", "e", "n", "%"}
         /\ c.op \in {"n", "%"} => FastPath(c)
<1>1. Performed(c)
  BY DEF Accepted
<1>2. CASE c.op \in {"d", "n"}
  BY <1>1, <1>2 DEF Performed
<1>3. CASE c.op \in {"c", "s", "p", "%"}
  BY <1>1, <1>3 DEF Performed
<1>4. CASE c.op \in {"e", "f"}
  BY <1>4
<1>5. c.op \notin {"d", "n", "c", "s", "p", "%", "e", "f"} => FALSE
  BY <1>1, Zenon DEF Performed
<1> QED BY <1>2, <1>3, <1>4, <1>5

LEMMA BoundIsNat == \A c \in Pieces : Accepted(c) => bound(c) \in Nat
<1> SUFFICES ASSUME NEW c \in Pieces, Accepted(c) PROVE bound(c) \in Nat
  OBVIOUS
<1> DEFINE digits == IF precision(c) = -1 THEN 6 ELSE precision(c)
<1>1. CASE c.op \in {"n", "%"}
  <2>1. bound(c) = digits + 8
    BY <1>1, Zenon DEF bound, boundFor
  <2>2. digits \in Nat
    BY PiecesTyped
  <2> HIDE DEF digits
  <2> QED BY <2>1, <2>2
<1> QED BY <1>1, PerformedOps, TextIsBounded

(* The buffer, preallocated, kept or new, is longer than the text.         *)
LEMMA BufferSuffices ==
  ASSUME NEW c \in Pieces, Accepted(c), ~(FastPath(c) /\ c.op = "s" /\ c.arg.null), printf.auxBuffLen \in Nat,
         abs(c.width.n) < larger(bound(c) + 10, PRINTF_BUFFLEN), c.arg.cast >= c.arg.exp
  PROVE  buffCount(c) < buffLen(c)
<1> DEFINE width == c.width.n
           aux == IF FastPath(c) \/ buffReqd(c) <= PRINTF_BUFFLEN \/ buffReqd(c) <= printf.auxBuffLen
                  THEN printf.auxBuffLen ELSE buffReqd(c)
<1>1. /\ c.width.n \in Int /\ c.precision.n \in Int /\ c.arg.length \in Nat /\ c.arg.prefix \in 0 .. 2
      /\ c.arg.exp \in Int /\ precision(c) \in Int /\ precision(c) >= -1 /\ StringLength(c) \in Nat
  BY PiecesTyped
<1>2. c.op \in {"d", "c", "p", "s", "f", "e", "n", "%"} /\ (c.op \in {"n", "%"} => FastPath(c))
  BY PerformedOps
<1>3. c.op \in {"d", "c", "p", "s", "f", "e"} => Text(c) \in Nat /\ bound(c) \in Nat /\ Text(c) < bound(c) + 10
  BY TextIsBounded
<1>4. c.op \in {"d", "p", "s", "f", "e"} \/ (c.op = "c" /\ c.arg.length # 0) => buffCount(c) = larger(Text(c), abs(width))
  BY Zenon DEF buffCount
<1>5. c.op = "c" /\ c.arg.length = 0 => buffCount(c) = IF width > 0 THEN width - 1 ELSE 0
  BY Zenon DEF buffCount
<1>6. CASE ~FastPath(c)
  <2>1. buffLen(c) = IF buffReqd(c) <= PRINTF_BUFFLEN THEN PRINTF_BUFFLEN ELSE aux
    BY <1>6, Zenon DEF buffLen, auxBuffLen
  <2>2. bound(c) \in Nat /\ Text(c) \in Nat /\ Text(c) < bound(c) + 10
    BY <1>2, <1>3, <1>6
  <2>3. buffReqd(c) >= bound(c) + 10 /\ buffReqd(c) \in Int
    BY <1>1, <2>2 DEF buffReqd, larger
  <2>4. buffLen(c) \in Int /\ buffLen(c) >= larger(bound(c) + 10, PRINTF_BUFFLEN)
    BY <1>6, <2>1, <2>2, <2>3 DEF PRINTF_BUFFLEN, larger
  <2>5. abs(width) \in Nat /\ abs(width) >= width /\ larger(bound(c) + 10, PRINTF_BUFFLEN) >= bound(c) + 10
        /\ larger(bound(c) + 10, PRINTF_BUFFLEN) \in Nat
    BY <1>1, <2>2 DEF abs, larger, PRINTF_BUFFLEN
  <2>6. CASE c.op = "c" /\ c.arg.length = 0
    BY <1>1, <1>5, <2>2, <2>4, <2>5, <2>6
  <2>7. CASE ~(c.op = "c" /\ c.arg.length = 0)
    <3>1. buffCount(c) = larger(Text(c), abs(width))
      BY <1>2, <1>4, <1>6, <2>7
    <3> QED BY <2>2, <2>4, <2>5, <3>1 DEF larger
  <2> QED BY <2>6, <2>7
<1>7. CASE FastPath(c)
  <2>1. c.width.n = 0 /\ precision(c) = -1 /\ c.op # "f"
    BY <1>7 DEF FastPath, NotGiven, precision
  <2>2. abs(width) = 0
    BY <2>1 DEF abs
  <2>3. CASE c.op = "s"
    <3>1. buffLen(c) = c.arg.length + 1
      BY <1>7, <2>3, Zenon DEF buffLen
    <3>2. Text(c) = IF precision(c) = -1 THEN StringLength(c) ELSE smaller(StringLength(c), precision(c))
      BY <2>3, Zenon DEF Text
    <3>3. Text(c) = c.arg.length
      BY <1>7, <2>1, <2>3, <3>2 DEF StringLength
    <3> QED BY <1>1, <1>4, <2>2, <2>3, <3>1, <3>3 DEF larger
  <2>4. CASE c.op # "s"
    <3>1. buffLen(c) = 100
      BY <1>7, <2>4, Zenon DEF buffLen, PRINTF_BUFFLEN
    <3>2. CASE c.op = "n"
      <4>1. buffCount(c) = 0
        BY <3>2, Zenon DEF buffCount
      <4> QED BY <3>1, <4>1
    <3>3. CASE c.op = "%"
      <4>1. buffCount(c) = 1
        BY <3>3, Zenon DEF buffCount
      <4> QED BY <3>1, <4>1
    <3>4. CASE c.op = "c" /\ c.arg.length = 0
      BY <1>5, <2>1, <3>1, <3>4
    <3>5. CASE c.op \in {"c", "p"} /\ ~(c.op = "c" /\ c.arg.length = 0)
      <4>1. Text(c) = c.arg.length
        BY <3>5, Zenon DEF Text
      <4>2. (c.op = "c" => c.arg.length <= 1) /\ (c.op = "p" => c.arg.length <= 18)
        BY DEF Pieces
      <4> QED BY <1>1, <1>4, <2>2, <3>1, <3>5, <4>1, <4>2 DEF larger
    <3>6. CASE c.op = "d"
      <4>1. Text(c) = c.arg.prefix + larger(precision(c), c.arg.length)
        BY <3>6, Zenon DEF Text
      <4>2. c.arg.length <= 22
        BY <3>6 DEF Pieces
      <4> QED BY <1>1, <1>4, <2>1, <2>2, <3>1, <3>6, <4>1, <4>2 DEF larger
    <3>7. CASE c.op = "e"
      <4>1. Text(c) = c.arg.prefix + 2 + (IF precision(c) = -1 THEN 6 ELSE precision(c)) + 6
        BY <3>7, Zenon DEF Text
      <4> QED BY <1>1, <1>4, <2>1, <2>2, <3>1, <3>7, <4>1 DEF larger
    <3> QED BY <1>2, <2>1, <2>4, <3>2, <3>3, <3>4, <3>5, <3>6, <3>7
  <2> QED BY <2>3, <2>4
<1> QED BY <1>6, <1>7

(* A call in progress, whatever it has put so far.                         *)
Printing(pieces, count, aux, result, last) ==
  [todo |-> pieces, streamCount |-> count, auxBuffLen |-> aux, result |-> result, last |-> last]
PrintfInv ==
  /\ \E pieces \in Seq(Pieces), aux \in Nat : \E count, result, last : printf = Printing(pieces, count, aux, result, last)
  /\ ConversionsFit

LEMMA ConvertStep ==
  ASSUME PrintfInv, Convert
  PROVE  PrintfInv'
<1>0. PICK pieces \in Seq(Pieces), aux \in Nat : \E count, result, last : printf = Printing(pieces, count, aux, result, last)
  BY DEF PrintfInv
<1>1. PICK count, result, last : printf = Printing(pieces, count, aux, result, last)
  BY <1>0
<1>2. printf.todo = pieces /\ printf.auxBuffLen = aux /\ printf.streamCount = count
  BY <1>1 DEF Printing
<1> DEFINE c == piece
<1>3. /\ pieces # <<>> /\ c = Head(pieces) /\ Accepted(c) /\ ~(FastPath(c) /\ c.op = "s" /\ c.arg.null)
      /\ printf' = [printf EXCEPT
           !.todo = Tail(@), !.streamCount = @ + buffCount(c), !.auxBuffLen = auxBuffLen(c),
           !.last = [buffCount |-> buffCount(c), buffLen |-> buffLen(c),
                     wide |-> abs(c.width.n) >= larger(bound(c) + 10, PRINTF_BUFFLEN),
                     narrowed |-> c.arg.cast < c.arg.exp]]
  BY <1>2, Zenon DEF Convert, Running, piece
<1>4. c \in Pieces /\ Tail(pieces) \in Seq(Pieces)
  BY <1>3
<1> HIDE DEF c
<1>5. auxBuffLen(c) \in Nat
  <2>1. CASE FastPath(c)
    BY <1>2, <2>1 DEF auxBuffLen
  <2>2. CASE ~FastPath(c)
    <3>1. bound(c) \in Nat /\ c.width.n \in Int
      BY <1>3, <1>4, <2>2, PerformedOps, TextIsBounded, PiecesTyped
    <3>2. buffReqd(c) \in Nat
      BY <3>1 DEF buffReqd, larger
    <3> QED BY <1>2, <3>2 DEF auxBuffLen
  <2> QED BY <2>1, <2>2
<1> DEFINE fit == [buffCount |-> buffCount(c), buffLen |-> buffLen(c),
                   wide |-> abs(c.width.n) >= larger(bound(c) + 10, PRINTF_BUFFLEN),
                   narrowed |-> c.arg.cast < c.arg.exp]
           more == count + buffCount(c)
           left == Tail(pieces)
           kept == auxBuffLen(c)
<1>6. printf' = [printf EXCEPT !.todo = left, !.streamCount = more, !.auxBuffLen = kept, !.last = fit]
  BY <1>1, <1>2, <1>3 DEF Printing
<1>7. ~fit.wide /\ ~fit.narrowed => fit.buffCount < fit.buffLen
  <2>1. abs(c.width.n) \in Int /\ larger(bound(c) + 10, PRINTF_BUFFLEN) \in Int
    BY <1>3, <1>4, PiecesTyped, BoundIsNat DEF abs, larger, PRINTF_BUFFLEN
  <2>2. fit.wide = (abs(c.width.n) >= larger(bound(c) + 10, PRINTF_BUFFLEN))
    BY Zenon
  <2>3. ~fit.wide => abs(c.width.n) < larger(bound(c) + 10, PRINTF_BUFFLEN)
    <3> DEFINE w == abs(c.width.n)
               b == larger(bound(c) + 10, PRINTF_BUFFLEN)
    <3> HIDE DEF w, b, fit
    <3>1. fit.wide = (w >= b) /\ w \in Int /\ b \in Int
      BY <2>1, <2>2 DEF w, b
    <3>2. ~(w >= b) => w < b
      BY <3>1
    <3>3. ~fit.wide => w < b
      BY <3>1, <3>2, Zenon
    <3> QED BY <3>3 DEF w, b
  <2>4. printf.auxBuffLen \in Nat
    BY <1>2
  <2>5. fit.buffCount = buffCount(c) /\ fit.buffLen = buffLen(c)
    BY Zenon
  <2>6. ~fit.narrowed => c.arg.cast >= c.arg.exp
    <3>1. fit.narrowed = (c.arg.cast < c.arg.exp)
      BY Zenon
    <3>2. ~(c.arg.cast < c.arg.exp) => c.arg.cast >= c.arg.exp
      BY <1>4, PiecesTyped
    <3> HIDE DEF fit
    <3> QED BY <3>1, <3>2, Zenon
  <2> HIDE DEF fit
  <2> QED BY <1>3, <1>4, <2>3, <2>4, <2>5, <2>6, BufferSuffices
<1> HIDE DEF fit, more, left, kept
<1>8. printf' = Printing(left, more, kept, result, fit)
  BY <1>1, <1>6 DEF Printing
<1>9. printf'.last = fit
  BY <1>8 DEF Printing
<1> QED BY <1>4, <1>5, <1>7, <1>8, <1>9 DEF PrintfInv, ConversionsFit, left, kept

(* No conversion of any format, after whatever others in the same call,    *)
(* overruns the buffer FCGX_VFPrintF has reckoned it needs, unless its     *)
(* width is at least that large or the exponent of its long double is lost *)
(* in the cast to double (fcgiapp.cpp:546-608).                            *)
THEOREM BuffersSuffice == PrintfSpec => []ConversionsFit
<1>1. PrintfInit => PrintfInv
  <2> SUFFICES ASSUME PrintfInit PROVE PrintfInv
    OBVIOUS
  <2>1. printf = Printing(printf.todo, 0, 0, "running", NoConversion) /\ printf.todo \in Seq(Pieces)
    BY FormatsAssumption DEF PrintfInit, Printing
  <2>2. printf.last = NoConversion
    BY <2>1 DEF Printing
  <2> QED BY <2>1, <2>2 DEF PrintfInv, ConversionsFit, NoConversion
<1>2. PrintfInv /\ [PrintfNext]_printf => PrintfInv'
  <2> SUFFICES ASSUME PrintfInv, [PrintfNext]_printf PROVE PrintfInv'
    OBVIOUS
  <2>0. PICK pieces \in Seq(Pieces), aux \in Nat : \E count, result, last : printf = Printing(pieces, count, aux, result, last)
    BY DEF PrintfInv
  <2>1. PICK count, result, last : printf = Printing(pieces, count, aux, result, last)
    BY <2>0
  <2>2. ASSUME NEW t \in Seq(Pieces), NEW n, NEW r, printf' = Printing(t, n, aux, r, last)
        PROVE  PrintfInv'
    <3>1. printf'.last = printf.last
      BY <2>1, <2>2 DEF Printing
    <3> QED BY <2>2, <3>1 DEF PrintfInv, ConversionsFit
  <2>3. ASSUME NEW r, Ends(r) PROVE PrintfInv'
    <3>1. printf' = Printing(pieces, -1, aux, r, last)
      BY <2>1, <2>3 DEF Printing, Ends
    <3> QED BY <2>2, <3>1
  <2>4. CASE PutLiteral
    <3>0. printf.todo = pieces /\ printf.streamCount = count
      BY <2>1 DEF Printing
    <3>1. pieces # <<>> /\ printf' = [printf EXCEPT !.todo = Tail(@), !.streamCount = @ + piece.arg.length]
      BY <2>4, <3>0 DEF PutLiteral, Running
    <3> DEFINE more == count + piece.arg.length
    <3>2. printf' = Printing(Tail(pieces), more, aux, result, last)
      BY <2>1, <3>1 DEF Printing
    <3>3. Tail(pieces) \in Seq(Pieces)
      BY <3>1
    <3> HIDE DEF more
    <3> QED BY <2>2, <3>2, <3>3
  <2>5. CASE Return
    <3>1. printf' = Printing(pieces, count, aux, "normal", last)
      BY <2>1, <2>5 DEF Printing, Return
    <3> QED BY <2>2, <3>1
  <2>6. CASE Convert
    BY <2>6, ConvertStep
  <2>7. CASE UNCHANGED printf
    BY <2>7 DEF PrintfInv, ConversionsFit
  <2> QED BY <2>3, <2>4, <2>5, <2>6, <2>7 DEF PrintfNext, ConvertNull, Refuse, PutFails, Returned
<1>3. PrintfInv => ConversionsFit
  BY DEF PrintfInv
<1> QED BY <1>1, <1>2, <1>3, PTL DEF PrintfSpec
-----------------------------------------------------------------------------
(* The streams.                                                             *)

Bytes ==
  {<<"header", type, clen, plen>> : type \in Streams \cup {"end"}, clen \in Nat, plen \in Nat}
  \cup {<<"status", a>> : a \in Statuses \cup {0}}
  \cup {<<s, n>> : s \in Streams, n \in Nat} \cup {<<"unset">>, <<"pad">>}
Calls == [op : Ops, s : Streams, bytes : Seq(Bytes)]

StreamType ==
  /\ buf \in [Streams -> Seq(Bytes)] /\ full \in [Streams -> Nat]
  /\ isClosed \subseteq Streams /\ FCGI_errno \subseteq Streams /\ wasFCloseCalled \subseteq Streams
  /\ rawWrite \subseteq Streams /\ isAnythingWritten \subseteq Streams
  /\ nWriters \in Nat /\ appStatus \in Statuses \cup {0} /\ keepConnection \in BOOLEAN
  /\ todo \in Seq(Calls) /\ accepted \in [Streams -> Nat]
  /\ conn \in {"open", "kept", "closed"}

(* While a stream is open its buffer is whole, and holds what it may.      *)
Whole ==
  /\ \A s \in Streams : Len(buf[s]) <= full[s] /\ full[s] <= BuffLen[s]
  /\ \A s \in Streams \ wasFCloseCalled : full[s] = BuffLen[s]
  /\ wasFCloseCalled \subseteq isClosed

(* Calls nest: those of one FCGX_FClose end before the next begins, its    *)
(* stream is not marked as closed before they end, and the close records   *)
(* are written once.                                                       *)
Base   == {"fclose", "free"}
Within == {"encapsulate", "closeRecords", "write", "closed"}
Before(c, d) ==
  /\ c.op \in Base \cup {"closed"} => d.op \in Base
  /\ c.op = "closeRecords" => d.op # "closeRecords"
Closing(s)   == \E i \in DOMAIN todo : todo[i].op = "closed" /\ todo[i].s = s
Unclosed(c)  == c.op \in Within => c.s \notin wasFCloseCalled
ClosesOnce(c) == c.op = "closeRecords" => c.s \notin rawWrite /\ Closing(c.s)
Nested == \A i, j \in DOMAIN todo : i < j => Before(todo[i], todo[j])
Stack ==
  /\ Nested
  /\ \A i \in DOMAIN todo : Unclosed(todo[i]) /\ ClosesOnce(todo[i])
  /\ \A s \in rawWrite : s \in wasFCloseCalled \/ Closing(s)

StreamInv == StreamType /\ Whole /\ Stack /\ nWriters + Cardinality(rawWrite) = 2

LEMMA BytesTyped ==
  /\ \A n \in Nat, x \in Bytes : Repeat(n, x) \in Seq(Bytes) /\ Len(Repeat(n, x)) = n
  /\ \A t \in Streams \cup {"end"}, c, p \in Nat : Header(t, c, p) \in Seq(Bytes) /\ Len(Header(t, c, p)) = HeaderLen
  /\ Unset \in Seq(Bytes) /\ Len(Unset) = HeaderLen
  /\ \A a \in Statuses \cup {0} : EndRequest(a) \in Seq(Bytes)
<1>1. \A n \in Nat, x \in Bytes : Repeat(n, x) \in Seq(Bytes) /\ Len(Repeat(n, x)) = n
  BY DEF Repeat
<1>2. HeaderLen \in Nat
  BY LengthsAssumption
<1>3. /\ \A t \in Streams \cup {"end"}, c, p \in Nat : <<"header", t, c, p>> \in Bytes
      /\ <<"unset">> \in Bytes /\ <<"pad">> \in Bytes
      /\ \A a \in Statuses \cup {0} : <<"status", a>> \in Bytes
  <2>1. \A t \in Streams \cup {"end"}, c, p \in Nat : <<"header", t, c, p>> \in Bytes
    BY DEF Bytes
  <2>2. <<"unset">> \in Bytes /\ <<"pad">> \in Bytes
    BY DEF Bytes
  <2>3. \A a \in Statuses \cup {0} : <<"status", a>> \in Bytes
    BY DEF Bytes
  <2> QED BY <2>1, <2>2, <2>3
<1>4. \A t \in Streams \cup {"end"}, c, p \in Nat : Header(t, c, p) \in Seq(Bytes) /\ Len(Header(t, c, p)) = HeaderLen
  BY <1>1, <1>2, <1>3, Zenon DEF Header
<1>5. Unset \in Seq(Bytes) /\ Len(Unset) = HeaderLen
  BY <1>1, <1>2, <1>3, Zenon DEF Unset
<1>6. ASSUME NEW a \in Statuses \cup {0} PROVE EndRequest(a) \in Seq(Bytes)
  <2>1. Header("end", HeaderLen, 0) \in Seq(Bytes) /\ Repeat(HeaderLen, <<"status", a>>) \in Seq(Bytes)
    BY <1>1, <1>2, <1>3, <1>4
  <2> QED BY <2>1, Zenon, ConcatProperties DEF EndRequest
<1> QED BY <1>1, <1>4, <1>5, <1>6

(* The padding: to a multiple of the alignment, which the buffer is one of.*)
LEMMA Alignment ==
  ASSUME NEW n \in Nat, NEW b \in Nat, b % HeaderLen = 0, n + HeaderLen <= b
  PROVE  AlignInt8(n) \in Nat /\ AlignInt8(n) >= n /\ AlignInt8(n) + HeaderLen <= b
<1> DEFINE h == HeaderLen
           q == (n + h - 1) \div h
           k == b \div h
<1>1. h \in Nat /\ h > 0
  BY LengthsAssumption
<1>2. AlignInt8(n) = q * h
  BY DEF AlignInt8
<1>3. b = h * k /\ k \in Nat
  BY <1>1
<1>4. q \in Nat /\ n <= h * q /\ h * q <= n + h - 1
  BY <1>1
<1> HIDE DEF h, q, k
<1>5. q < k
  <2>1. h * q < h * k
    BY <1>1, <1>3, <1>4 DEF h
  <2> QED BY <1>1, <1>3, <1>4, <2>1
<1>6. h * q + h <= h * k
  <2>1. q + 1 <= k
    BY <1>3, <1>4, <1>5
  <2>2. h * (q + 1) <= h * k
    BY <1>1, <1>3, <1>4, <2>1
  <2>3. h * (q + 1) = h * q + h
    BY <1>1, <1>4
  <2> QED BY <2>2, <2>3
<1>7. q * h = h * q
  BY <1>1, <1>4
<1> QED BY <1>1, <1>2, <1>3, <1>4, <1>6, <1>7 DEF h

LEMMA RecordFits ==
  ASSUME NEW s \in Streams, buf[s] \in Seq(Bytes), Len(buf[s]) <= BuffLen[s]
  PROVE  Encapsulate(s) \in Seq(Bytes) /\ Len(Encapsulate(s)) <= BuffLen[s]
<1> DEFINE cLen == Len(buf[s]) - HeaderLen
           eLen == AlignInt8(cLen)
           header == Header(s, cLen, eLen - cLen)
           content == SubSeq(buf[s], HeaderLen + 1, Len(buf[s]))
           padding == Repeat(eLen - cLen, <<"pad">>)
<1>1. HeaderLen \in Nat \ {0} /\ BuffLen[s] \in Nat /\ BuffLen[s] % HeaderLen = 0 /\ Len(buf[s]) \in Nat
  BY LengthsAssumption
<1>2. CASE cLen > 0
  <2>1. Encapsulate(s) = header \o content \o padding
    BY <1>2 DEF Encapsulate
  <2>2. cLen \in Nat /\ cLen + HeaderLen <= BuffLen[s]
    BY <1>1, <1>2
  <2>3. eLen \in Nat /\ eLen >= cLen /\ eLen + HeaderLen <= BuffLen[s]
    <3> HIDE DEF cLen
    <3> QED BY <1>1, <2>2, Alignment
  <2>4. header \in Seq(Bytes) /\ Len(header) = HeaderLen
    <3> HIDE DEF cLen, eLen
    <3> QED BY <2>2, <2>3, BytesTyped
  <2>5. padding \in Seq(Bytes) /\ Len(padding) = eLen - cLen
    <3>1. <<"pad">> \in Bytes
      BY DEF Bytes
    <3> HIDE DEF cLen, eLen
    <3> QED BY <2>2, <2>3, <3>1, BytesTyped
  <2>6. content \in Seq(Bytes) /\ Len(content) = cLen
    BY <1>1, <2>2
  <2> HIDE DEF header, content, padding
  <2>7. header \o content \in Seq(Bytes) /\ Len(header \o content) = HeaderLen + cLen
    BY <2>4, <2>6
  <2>8. Encapsulate(s) \in Seq(Bytes) /\ Len(Encapsulate(s)) = HeaderLen + cLen + (eLen - cLen)
    <3> DEFINE front == header \o content
    <3> HIDE DEF cLen, eLen, front
    <3>1. front \in Seq(Bytes) /\ Len(front) = HeaderLen + cLen /\ Encapsulate(s) = front \o padding
      BY <2>1, <2>7 DEF front
    <3>2. front \o padding \in Seq(Bytes) /\ Len(front \o padding) = Len(front) + Len(padding)
      BY <2>5, <3>1, ConcatProperties, Zenon
    <3> QED BY <2>5, <3>1, <3>2
  <2> HIDE DEF cLen, eLen
  <2> QED BY <1>1, <2>2, <2>3, <2>8
<1>3. CASE ~(cLen > 0)
  <2>1. Encapsulate(s) = <<>>
    BY <1>3 DEF Encapsulate
  <2> QED BY <1>1, <2>1
<1> QED BY <1>2, <1>3

(* The calls, when the innermost one makes way for others.                 *)
LEMMA ThenCalls ==
  ASSUME todo \in Seq(Calls), todo # <<>>, NEW calls \in Seq(Calls), Then(calls)
  PROVE  /\ todo' \in Seq(Calls) /\ Head(todo) = todo[1] /\ 1 \in DOMAIN todo /\ todo[1] \in Calls
         /\ \A i \in DOMAIN todo' : \/ i \in DOMAIN calls /\ todo'[i] = calls[i]
                                    \/ /\ i - Len(calls) + 1 \in DOMAIN todo /\ i - Len(calls) + 1 > 1
                                       /\ i > Len(calls) /\ todo'[i] = todo[i - Len(calls) + 1]
         /\ \A j \in DOMAIN todo : j > 1 => \E i \in DOMAIN todo' : todo'[i] = todo[j]
         /\ \A j \in DOMAIN calls : \E i \in DOMAIN todo' : todo'[i] = calls[j]
<1>1. /\ Tail(todo) \in Seq(Calls) /\ Len(Tail(todo)) = Len(todo) - 1 /\ Head(todo) = todo[1]
      /\ \A i \in 1 .. Len(todo) - 1 : Tail(todo)[i] = todo[i + 1]
      /\ Len(todo) \in Nat \ {0} /\ DOMAIN todo = 1 .. Len(todo) /\ todo[1] \in Calls
  OBVIOUS
<1> DEFINE rest == Tail(todo)
<1> HIDE DEF rest
<1>2. /\ todo' \in Seq(Calls) /\ Len(todo') = Len(calls) + Len(rest)
      /\ \A i \in 1 .. Len(calls) + Len(rest) : todo'[i] = IF i <= Len(calls) THEN calls[i] ELSE rest[i - Len(calls)]
  BY <1>1, ConcatProperties, Zenon DEF Then, rest
<1>3. /\ DOMAIN todo' = 1 .. Len(todo') /\ Len(calls) \in Nat /\ DOMAIN calls = 1 .. Len(calls)
  BY <1>2
<1>4. ASSUME NEW i \in DOMAIN todo'
      PROVE  \/ i \in DOMAIN calls /\ todo'[i] = calls[i]
             \/ /\ i - Len(calls) + 1 \in DOMAIN todo /\ i - Len(calls) + 1 > 1
                /\ i > Len(calls) /\ todo'[i] = todo[i - Len(calls) + 1]
  <2>1. CASE i <= Len(calls)
    BY <1>2, <1>3, <2>1
  <2>2. CASE i > Len(calls)
    <3>1. i - Len(calls) \in 1 .. Len(todo) - 1 /\ i - Len(calls) + 1 \in 1 .. Len(todo) /\ i - Len(calls) + 1 > 1
      BY <1>1, <1>2, <1>3, <2>2 DEF rest
    <3>2. todo'[i] = rest[i - Len(calls)]
      BY <1>1, <1>2, <1>3, <2>2
    <3> QED BY <1>1, <2>2, <3>1, <3>2 DEF rest
  <2> QED BY <1>3, <2>1, <2>2
<1>5. ASSUME NEW j \in DOMAIN todo, j > 1 PROVE \E i \in DOMAIN todo' : todo'[i] = todo[j]
  <2> DEFINE i == Len(calls) + j - 1
  <2>1. i \in DOMAIN todo' /\ i > Len(calls) /\ i - Len(calls) = j - 1 /\ j - 1 \in 1 .. Len(todo) - 1
    BY <1>1, <1>2, <1>3, <1>5 DEF rest
  <2> HIDE DEF i
  <2>2. todo'[i] = rest[i - Len(calls)]
    BY <1>2, <1>3, <2>1
  <2>3. rest[j - 1] = todo[j]
    BY <1>1, <2>1 DEF rest
  <2> QED BY <2>1, <2>2, <2>3
<1>6. ASSUME NEW j \in DOMAIN calls PROVE \E i \in DOMAIN todo' : todo'[i] = calls[j]
  BY <1>1, <1>2, <1>3 DEF rest
<1> QED BY <1>1, <1>2, <1>4, <1>5, <1>6

LEMMA NestedKept ==
  ASSUME todo \in Seq(Calls), todo # <<>>, NEW calls \in Seq(Calls), Then(calls), Nested,
         \A i, j \in DOMAIN calls : i < j => Before(calls[i], calls[j]),
         \A i \in DOMAIN calls, j \in DOMAIN todo : j > 1 => Before(calls[i], todo[j])
  PROVE  Nested'
<1> SUFFICES ASSUME NEW i \in DOMAIN todo', NEW j \in DOMAIN todo', i < j PROVE Before(todo'[i], todo'[j])
  BY Zenon DEF Nested
<1> DEFINE Old(k) == /\ k - Len(calls) + 1 \in DOMAIN todo /\ k - Len(calls) + 1 > 1
                     /\ k > Len(calls) /\ todo'[k] = todo[k - Len(calls) + 1]
           New(k) == k \in DOMAIN calls /\ todo'[k] = calls[k]
<1>1. (New(i) \/ Old(i)) /\ (New(j) \/ Old(j)) /\ todo' \in Seq(Calls)
  BY ThenCalls
<1>2. i \in Nat /\ j \in Nat /\ Len(calls) \in Nat /\ DOMAIN calls = 1 .. Len(calls)
  BY <1>1
<1>3. CASE New(i) /\ New(j)
  BY <1>3, Zenon
<1>4. CASE New(i) /\ Old(j)
  BY <1>4, Zenon
<1>5. CASE Old(i) /\ New(j)
  BY <1>2, <1>5
<1>6. CASE Old(i) /\ Old(j)
  <2>1. i - Len(calls) + 1 < j - Len(calls) + 1
    BY <1>2
  <2> QED BY <1>6, <2>1, Zenon DEF Nested
<1> QED BY <1>1, <1>3, <1>4, <1>5, <1>6

(* Calls that only move bytes.                                             *)
Moving == {"put", "encapsulate", "write"}

LEMMA StackMoves ==
  ASSUME todo \in Seq(Calls), todo # <<>>, Head(todo).op # "closed", NEW calls \in Seq(Calls), Then(calls), Stack,
         \A i \in DOMAIN calls : calls[i].op \in Moving /\ Unclosed(calls[i]),
         UNCHANGED <<wasFCloseCalled, rawWrite>>
  PROVE  Stack'
<1>1. Nested'
  <2>1. \A i \in DOMAIN calls : \A d \in Calls : Before(calls[i], d)
    BY DEF Before, Moving, Base
  <2>2. \A i \in DOMAIN calls : calls[i] \in Calls
    OBVIOUS
  <2>3. \A j \in DOMAIN todo : todo[j] \in Calls
    OBVIOUS
  <2> QED BY <2>1, <2>2, <2>3, NestedKept DEF Stack
<1>2. \A t : Closing(t) => Closing(t)'
  <2> SUFFICES ASSUME NEW t, NEW j \in DOMAIN todo, todo[j].op = "closed", todo[j].s = t PROVE Closing(t)'
    BY Zenon DEF Closing
  <2>1. j > 1
    BY ThenCalls
  <2>2. PICK i \in DOMAIN todo' : todo'[i] = todo[j]
    BY <2>1, ThenCalls
  <2> QED BY <2>2, Zenon DEF Closing
<1>3. ASSUME NEW i \in DOMAIN todo' PROVE Unclosed(todo[i])' /\ ClosesOnce(todo[i])'
  <2>1. CASE i \in DOMAIN calls /\ todo'[i] = calls[i]
    BY <2>1 DEF Unclosed, ClosesOnce, Moving
  <2>2. ASSUME NEW j \in DOMAIN todo, todo'[i] = todo[j] PROVE Unclosed(todo[i])' /\ ClosesOnce(todo[i])'
    <3>1. Unclosed(todo[j]) /\ ClosesOnce(todo[j])
      BY DEF Stack
    <3> QED BY <1>2, <2>2, <3>1 DEF Unclosed, ClosesOnce
  <2> QED BY <2>1, <2>2, ThenCalls
<1>4. \A s \in rawWrite' : s \in wasFCloseCalled' \/ Closing(s)'
  BY <1>2 DEF Stack
<1> QED BY <1>1, <1>3, <1>4 DEF Stack

LEMMA CallsTyped ==
  /\ \A op \in Ops, s \in Streams, b \in Seq(Bytes) : Call(op, s, b) \in Calls /\ Call(op, s, b).op = op /\ Call(op, s, b).s = s
  /\ \A op \in Ops, s \in Streams : Call(op, s, <<>>) \in Calls /\ Call(op, s, <<>>).op = op
                                         /\ Call(op, s, <<>>).s = s
  /\ Base \cup Within \cup Moving \subseteq Ops
<1>1. Base \cup Within \cup Moving \subseteq Ops
  BY DEF Base, Within, Moving, Ops
<1> QED BY <1>1 DEF Call, Calls

LEMMA FlushCalls ==
  ASSUME NEW s \in Streams
  PROVE  /\ EmptyBuffProc(s) \in Seq(Calls) /\ Len(EmptyBuffProc(s)) = 2
         /\ \A i \in DOMAIN EmptyBuffProc(s) : EmptyBuffProc(s)[i].op \in Moving /\ EmptyBuffProc(s)[i].s = s
<1> DEFINE a == Call("encapsulate", s, <<>>)
           b == Call("write", s, <<>>)
<1>1. a \in Calls /\ b \in Calls /\ a.op \in Moving /\ b.op \in Moving /\ a.s = s /\ b.s = s
  <2>1. "encapsulate" \in Ops /\ "write" \in Ops /\ "encapsulate" \in Moving /\ "write" \in Moving
    BY DEF Ops, Moving
  <2>2. a \in Calls /\ b \in Calls /\ a.op = "encapsulate" /\ b.op = "write" /\ a.s = s /\ b.s = s
    BY <2>1, CallsTyped, Zenon
  <2> HIDE DEF a, b
  <2> QED BY <2>1, <2>2
<1>2. EmptyBuffProc(s) = <<a, b>>
  BY DEF EmptyBuffProc
<1> HIDE DEF a, b
<1> QED BY <1>1, <1>2

(* A call of the application, none being in progress.                      *)
LEMMA StackStarts ==
  ASSUME todo = <<>>, Stack, todo' \in Seq(Calls), UNCHANGED <<wasFCloseCalled, rawWrite>>,
         \A i \in DOMAIN todo' : todo'[i].op \in Moving \cup Base /\ Unclosed(todo'[i]),
         \A i, j \in DOMAIN todo' : i < j => Before(todo'[i], todo'[j])
  PROVE  Stack'
<1>1. \A t : ~Closing(t)
  BY DEF Closing
<1>2. \A i \in DOMAIN todo' : Unclosed(todo[i])' /\ ClosesOnce(todo[i])'
  BY DEF Unclosed, ClosesOnce, Moving, Base
<1>3. Nested'
  BY Zenon DEF Nested
<1>4. \A s \in rawWrite' : s \in wasFCloseCalled'
  BY <1>1 DEF Stack
<1> QED BY <1>2, <1>3, <1>4 DEF Stack

LEMMA ApplicationStep ==
  ASSUME StreamInv, Application \/ CallFinish
  PROVE  StreamInv'
<1>0. StreamType /\ Whole /\ Stack
  BY DEF StreamInv
<1>1. ASSUME todo = <<>>, todo' \in Seq(Calls), UNCHANGED <<buf, stream, request, accepted, peer, conn>>,
             \A i \in DOMAIN todo' : todo'[i].op \in Moving \cup Base /\ Unclosed(todo'[i]),
             \A i, j \in DOMAIN todo' : i < j => Before(todo'[i], todo'[j])
      PROVE  StreamInv'
  <2>1. UNCHANGED <<buf, full, isClosed, FCGI_errno, wasFCloseCalled, rawWrite, isAnythingWritten, nWriters, appStatus,
                    keepConnection, accepted, conn>>
    BY <1>1 DEF stream, request
  <2>2. Stack'
    BY <1>0, <1>1, <2>1, StackStarts
  <2>3. StreamType' /\ Whole'
    BY <1>0, <1>1, <2>1 DEF StreamType, Whole
  <2> QED BY <2>1, <2>2, <2>3 DEF StreamInv
<1>2. ASSUME NEW s \in Streams, NEW n \in PutSizes, CallPutStr(s, n) PROVE StreamInv'
  <2> DEFINE bytes == [i \in 1 .. n |-> <<s, accepted[s] + i>>]
  <2>1. todo = <<>> /\ todo' = <<Call("put", s, bytes)>> /\ UNCHANGED <<buf, stream, request, accepted, peer, conn>>
    BY <1>2, Zenon DEF CallPutStr, Idle, Start, PutStr
  <2>2. bytes \in Seq(Bytes)
    <3>1. n \in Nat /\ accepted[s] \in Nat
      BY <1>0, LengthsAssumption DEF StreamType
    <3>2. \A k \in Nat : <<s, k>> \in Bytes
      BY DEF Bytes
    <3> QED BY <3>1, <3>2
  <2> HIDE DEF bytes
  <2>3. Call("put", s, bytes) \in Calls /\ Call("put", s, bytes).op = "put"
    BY <2>2, CallsTyped DEF Ops
  <2> QED BY <1>1, <2>1, <2>3 DEF Moving, Unclosed, Within
<1>3. ASSUME NEW s \in Streams, CallFFlush(s) PROVE StreamInv'
  <2>1. todo = <<>> /\ todo' = EmptyBuffProc(s) /\ UNCHANGED <<buf, stream, request, accepted, peer, conn>> /\ s \notin isClosed
    BY <1>3, Zenon DEF CallFFlush, Idle, Start
  <2>2. s \notin wasFCloseCalled
    BY <1>0, <2>1 DEF Whole
  <2>3. EmptyBuffProc(s) \in Seq(Calls) /\ \A i \in DOMAIN EmptyBuffProc(s) : EmptyBuffProc(s)[i].op \in Moving
                                                                     /\ EmptyBuffProc(s)[i].s = s
    BY CallsTyped, FlushCalls
  <2> QED BY <1>1, <2>1, <2>2, <2>3 DEF Moving, Unclosed, Before, Base
<1>4. ASSUME NEW s \in Streams, CallFClose(s) PROVE StreamInv'
  <2>1. todo = <<>> /\ todo' = <<Call("fclose", s, <<>>)>> /\ UNCHANGED <<buf, stream, request, accepted, peer, conn>>
    BY <1>4, Zenon DEF CallFClose, Idle, Start, FClose
  <2>2. Call("fclose", s, <<>>) \in Calls /\ Call("fclose", s, <<>>).op = "fclose"
    <3>1. "fclose" \in Ops
      BY DEF Ops
    <3> QED BY <3>1, CallsTyped, Zenon
  <2> QED BY <1>1, <2>1, <2>2 DEF Base, Unclosed, Within
<1>5. CASE CallFinish
  <2> DEFINE a == Call("fclose", "err", <<>>)
             b == Call("fclose", "out", <<>>)
             c == Call("free", "out", <<>>)
  <2>1. todo = <<>> /\ todo' = <<a>> \o <<b>> \o <<c>> /\ UNCHANGED <<buf, stream, request, accepted, peer, conn>>
    BY <1>5, Zenon DEF CallFinish, Idle, Start, FClose, Free
  <2>2. /\ a \in Calls /\ b \in Calls /\ c \in Calls /\ a.op \in Base /\ b.op \in Base /\ c.op \in Base
    BY CallsTyped DEF Ops, Streams, Base
  <2> HIDE DEF a, b, c
  <2>3. todo' \in Seq(Calls) /\ \A i \in DOMAIN todo' : todo'[i] \in {a, b, c}
    BY <2>1, <2>2
  <2> QED BY <1>1, <2>1, <2>2, <2>3 DEF Base, Unclosed, Within, Before
<1>6. ASSUME NEW a \in Statuses, SetExitStatus(a) PROVE StreamInv'
  <2>1. /\ appStatus' = a
        /\ UNCHANGED <<buf, full, isClosed, FCGI_errno, wasFCloseCalled, rawWrite, isAnythingWritten, nWriters,
                       keepConnection, accepted, conn, todo>>
    BY <1>6 DEF SetExitStatus, stream
  <2>2. Stack'
    BY <1>0, <2>1 DEF Stack, Nested, Unclosed, ClosesOnce, Closing
  <2>3. StreamType' /\ Whole'
    BY <1>0, <2>1 DEF StreamType, Whole
  <2> QED BY <2>1, <2>2, <2>3 DEF StreamInv
<1> QED BY <1>2, <1>3, <1>4, <1>5, <1>6 DEF Application

LEMMA StackPops ==
  ASSUME todo \in Seq(Calls), todo # <<>>, Head(todo).op # "closed", Then(<<>>), Stack,
         UNCHANGED <<wasFCloseCalled, rawWrite>>
  PROVE  Stack' /\ todo' \in Seq(Calls)
<1>1. <<>> \in Seq(Calls) /\ DOMAIN <<>> = {}
  OBVIOUS
<1>2. todo' \in Seq(Calls)
  BY <1>1, ThenCalls
<1>3. \A i \in DOMAIN <<>> : <<>>[i].op \in Moving /\ Unclosed(<<>>[i])
  BY <1>1, Zenon
<1> QED BY <1>1, <1>2, <1>3, StackMoves

(* What the innermost call may rely on.                                    *)
LEMMA TopCall ==
  ASSUME StreamInv, NEW op, NEW s, Top(op, s)
  PROVE  /\ todo \in Seq(Calls) /\ todo # <<>> /\ Head(todo) = todo[1] /\ 1 \in DOMAIN todo
         /\ Head(todo) \in Calls /\ Head(todo).op = op /\ Head(todo).s = s /\ s \in Streams
         /\ op \in Within => s \notin wasFCloseCalled
         /\ op = "closeRecords" => s \notin rawWrite /\ Closing(s)
         /\ \A j \in DOMAIN todo : j > 1 => Before(todo[1], todo[j])
<1>1. todo \in Seq(Calls) /\ todo # <<>> /\ Head(todo).op = op /\ Head(todo).s = s /\ Stack
  BY DEF StreamInv, StreamType, Top
<1>2. Head(todo) = todo[1] /\ 1 \in DOMAIN todo /\ todo[1] \in Calls /\ \A j \in DOMAIN todo : j \in Nat
  BY <1>1
<1>3. Unclosed(todo[1]) /\ ClosesOnce(todo[1])
  BY <1>1, <1>2 DEF Stack
<1>4. \A j \in DOMAIN todo : j > 1 => Before(todo[1], todo[j])
  BY <1>1, <1>2 DEF Stack, Nested
<1> QED BY <1>1, <1>2, <1>3, <1>4 DEF Unclosed, ClosesOnce, Calls

LEMMA PutStep ==
  ASSUME StreamInv, NEW s \in Streams, Put(s)
  PROVE  StreamInv'
<1> DEFINE bytes == Head(todo).bytes
           m     == IF Len(bytes) <= Room(s) THEN Len(bytes) ELSE Room(s)
           more  == PutStr(s, SubSeq(bytes, m + 1, Len(bytes)))
<1>0. StreamType /\ Whole /\ Stack
  BY DEF StreamInv
<1>1. /\ todo \in Seq(Calls) /\ todo # <<>> /\ Head(todo).op = "put" /\ bytes \in Seq(Bytes)
  BY TopCall DEF Put, Calls
<1>2. /\ buf' = [buf EXCEPT ![s] = @ \o SubSeq(bytes, 1, m)]
      /\ accepted' = IF s \in rawWrite THEN accepted ELSE [accepted EXCEPT ![s] = @ + m]
      /\ UNCHANGED <<full, isClosed, FCGI_errno, wasFCloseCalled, rawWrite, isAnythingWritten, nWriters, appStatus,
                     keepConnection, conn>>
  BY Zenon DEF Put, stream, request
<1>3. \/ Then(<<>>)
      \/ s \notin isClosed /\ Then(EmptyBuffProc(s) \o more)
  BY Zenon DEF Put
<1>4. buf[s] \in Seq(Bytes) /\ Len(buf[s]) \in Nat /\ full[s] \in Nat /\ Len(buf[s]) <= full[s] /\ Len(bytes) \in Nat
  BY <1>0, <1>1 DEF StreamType, Whole
<1>5. m \in Nat /\ m <= Len(bytes) /\ Len(buf[s]) + m <= full[s]
  BY <1>4 DEF Room
<1>6. SubSeq(bytes, 1, m) \in Seq(Bytes) /\ Len(SubSeq(bytes, 1, m)) = m
  <2> HIDE DEF bytes, m
  <2> QED BY <1>1, <1>5, <1>4
<1>7. SubSeq(bytes, m + 1, Len(bytes)) \in Seq(Bytes)
  <2> HIDE DEF bytes, m
  <2> QED BY <1>1, <1>4, <1>5
<1>8. more \in Seq(Calls) /\ Len(more) = 1 /\ more[1].op = "put"
  <2> DEFINE left == SubSeq(bytes, m + 1, Len(bytes))
             c == Call("put", s, left)
  <2>1. "put" \in Ops
    BY DEF Ops
  <2>2. more = <<c>>
    BY Zenon DEF PutStr
  <2>3. left \in Seq(Bytes)
    BY <1>7
  <2> HIDE DEF left
  <2>4. c \in Calls /\ c.op = "put"
    BY <2>1, <2>3 DEF Call, Calls
  <2> HIDE DEF c, more
  <2> QED BY <2>2, <2>4
<1> HIDE DEF bytes, m, more
<1>9. /\ buf' \in [Streams -> Seq(Bytes)] /\ \A t \in Streams : Len(buf'[t]) <= full[t]
  <2> DEFINE b == buf[s] \o SubSeq(bytes, 1, m)
  <2>1. b \in Seq(Bytes) /\ Len(b) = Len(buf[s]) + m
    BY <1>4, <1>6, ConcatProperties
  <2>2. buf' = [buf EXCEPT ![s] = b]
    BY <1>2
  <2> HIDE DEF b
  <2> QED BY <1>0, <1>5, <2>1, <2>2 DEF StreamType, Whole
<1>10. accepted' \in [Streams -> Nat]
  BY <1>0, <1>2, <1>5 DEF StreamType
<1>11. Stack' /\ todo' \in Seq(Calls)
  <2>1. CASE Then(<<>>)
    BY <1>0, <1>1, <1>2, <2>1, StackPops
  <2>2. CASE s \notin isClosed /\ Then(EmptyBuffProc(s) \o more)
    <3> DEFINE calls == EmptyBuffProc(s) \o more
    <3>1. s \notin wasFCloseCalled
      BY <1>0, <2>2 DEF Whole
    <3>2. /\ EmptyBuffProc(s) \in Seq(Calls) /\ Len(EmptyBuffProc(s)) = 2
          /\ \A i \in DOMAIN EmptyBuffProc(s) : EmptyBuffProc(s)[i].op \in Moving /\ EmptyBuffProc(s)[i].s = s
      BY FlushCalls
    <3>3. calls \in Seq(Calls) /\ \A i \in DOMAIN calls : calls[i].op = "put" \/ (calls[i].op \in Moving /\ calls[i].s = s)
      <4> DEFINE flush == EmptyBuffProc(s)
      <4> HIDE DEF flush
      <4>1. /\ calls \in Seq(Calls) /\ Len(calls) = 3
            /\ \A i \in 1 .. 3 : calls[i] = IF i <= 2 THEN flush[i] ELSE more[i - 2]
        <5>1. flush \in Seq(Calls) /\ Len(flush) = 2
          BY <3>2 DEF flush
        <5>2. calls = flush \o more
          BY DEF flush
        <5> HIDE DEF calls
        <5>3. /\ calls \in Seq(Calls) /\ Len(calls) = Len(flush) + Len(more)
              /\ \A i \in 1 .. Len(flush) + Len(more) : calls[i] = IF i <= Len(flush) THEN flush[i] ELSE more[i - Len(flush)]
          BY <1>8, <5>1, <5>2, ConcatProperties, Zenon
        <5>4. Len(flush) = 2 /\ Len(more) = 1 /\ Len(flush) + Len(more) = 3
          BY <1>8, <5>1
        <5> QED BY <5>3, <5>4
      <4>2. \A i \in 1 .. 2 : flush[i].op \in Moving /\ flush[i].s = s
        BY <3>2 DEF flush
      <4> HIDE DEF calls
      <4>3. \A i \in 1 .. 3 : i <= 2 => i \in 1 .. 2
        OBVIOUS
      <4>4. \A i \in 1 .. 3 : ~(i <= 2) => i - 2 = 1
        OBVIOUS
      <4>5. DOMAIN calls = 1 .. 3
        BY <4>1
      <4> QED BY <1>8, <4>1, <4>2, <4>3, <4>4, <4>5, Zenon
    <3> HIDE DEF calls
    <3>4. \A i \in DOMAIN calls : calls[i].op \in Moving /\ Unclosed(calls[i])
      BY <3>1, <3>3 DEF Moving, Unclosed, Within
    <3>5. Then(calls)
      BY <2>2 DEF calls
    <3> QED BY <1>0, <1>1, <1>2, <3>3, <3>4, <3>5, StackMoves, ThenCalls
  <2> QED BY <1>3, <2>1, <2>2
<1>12. StreamType'
  BY <1>0, <1>2, <1>9, <1>10, <1>11 DEF StreamType
<1>13. Whole'
  BY <1>0, <1>2, <1>9 DEF Whole
<1> QED BY <1>2, <1>11, <1>12, <1>13 DEF StreamInv

(* EmptyBuffProc before its streams are marked as closed.                  *)
LEMMA EmptyStep ==
  ASSUME StreamInv, NEW s \in Streams, EncapsulateRecord(s) \/ Write(s) \/ WriteFails(s)
  PROVE  /\ StreamInv' /\ full[s] = BuffLen[s]
<1>0. StreamType /\ Whole /\ Stack
  BY DEF StreamInv
<1>1. /\ todo \in Seq(Calls) /\ todo # <<>> /\ Head(todo).op \in {"encapsulate", "write"} /\ s \notin wasFCloseCalled
  BY TopCall DEF EncapsulateRecord, Write, WriteFails, Within
<1>2. Then(<<>>) /\ UNCHANGED <<full, wasFCloseCalled, rawWrite, nWriters, appStatus, keepConnection, accepted, conn>>
  BY DEF EncapsulateRecord, Write, WriteFails, stream, request
<1>3. full[s] = BuffLen[s] /\ BuffLen[s] \in Nat /\ BuffLen[s] >= HeaderLen
  BY <1>0, <1>1, LengthsAssumption DEF Whole
<1>4. Stack' /\ todo' \in Seq(Calls)
  BY <1>0, <1>1, <1>2, StackPops
<1>5. PICK b \in Seq(Bytes) : buf' = [buf EXCEPT ![s] = b] /\ Len(b) <= BuffLen[s]
  <2>0. buf \in [Streams -> Seq(Bytes)] /\ buf[s] \in Seq(Bytes) /\ Len(buf[s]) <= BuffLen[s]
    BY <1>0, <1>3 DEF StreamType, Whole
  <2>1. CASE UNCHANGED buf
    BY <2>0, <2>1
  <2>2. CASE buf' = [buf EXCEPT ![s] = Encapsulate(s)]
    BY <2>0, <2>2, RecordFits
  <2>3. CASE buf' = [buf EXCEPT ![s] = Emptied(s)]
    <3>1. <<>> \in Seq(Bytes) /\ Len(<<>>) = 0
      OBVIOUS
    <3>2. Emptied(s) \in Seq(Bytes) /\ Len(Emptied(s)) \in {0, HeaderLen}
      BY <3>1, BytesTyped, Zenon DEF Emptied
    <3>3. HeaderLen \in Nat /\ Len(Emptied(s)) <= BuffLen[s]
      BY <1>3, <3>2, LengthsAssumption
    <3> QED BY <2>3, <3>2, <3>3, Zenon
  <2> QED BY <2>1, <2>2, <2>3, Zenon DEF EncapsulateRecord, Write, WriteFails
<1>6. isClosed \subseteq isClosed' /\ isClosed' \subseteq Streams /\ FCGI_errno' \subseteq Streams /\ isAnythingWritten' \subseteq Streams
  BY <1>0 DEF EncapsulateRecord, Write, WriteFails, stream, StreamType
<1>7. StreamType'
  BY <1>0, <1>2, <1>4, <1>5, <1>6 DEF StreamType
<1>8. Whole'
  BY <1>0, <1>2, <1>3, <1>5, <1>6 DEF Whole, StreamType
<1> QED BY <1>2, <1>3, <1>4, <1>7, <1>8 DEF StreamInv
(* The close records are the last bytes a stream is given: nWriters counts *)
(* the streams still without them.                                         *)
LEMMA ClosingKept ==
  ASSUME todo \in Seq(Calls), todo # <<>>, Head(todo).op # "closed", NEW calls \in Seq(Calls), Then(calls)
  PROVE  \A t : Closing(t) => Closing(t)'
<1> SUFFICES ASSUME NEW t, NEW j \in DOMAIN todo, todo[j].op = "closed", todo[j].s = t PROVE Closing(t)'
  BY Zenon DEF Closing
<1>1. j > 1
  BY ThenCalls
<1>2. PICK i \in DOMAIN todo' : todo'[i] = todo[j]
  BY <1>1, ThenCalls
<1> QED BY <1>2, Zenon DEF Closing

LEMMA Puts ==
  ASSUME NEW s \in Streams
  PROVE  /\ \A b \in Seq(Bytes) : /\ PutStr(s, b) \in Seq(Calls)
                                  /\ \A i \in DOMAIN PutStr(s, b) : PutStr(s, b)[i].op = "put"
         /\ \A a, b \in Seq(Calls) :
              (\A i \in DOMAIN a : a[i].op = "put") /\ (\A i \in DOMAIN b : b[i].op = "put")
              => a \o b \in Seq(Calls) /\ \A i \in DOMAIN (a \o b) : (a \o b)[i].op = "put"
<1>1. ASSUME NEW b \in Seq(Bytes)
      PROVE  PutStr(s, b) \in Seq(Calls) /\ \A i \in DOMAIN PutStr(s, b) : PutStr(s, b)[i].op = "put"
  <2> DEFINE c == Call("put", s, b)
  <2>1. c \in Calls /\ c.op = "put"
    BY DEF Call, Calls, Ops
  <2>2. PutStr(s, b) = <<c>>
    BY Zenon DEF PutStr
  <2> HIDE DEF c
  <2> QED BY <2>1, <2>2
<1>2. ASSUME NEW a \in Seq(Calls), NEW b \in Seq(Calls),
             \A i \in DOMAIN a : a[i].op = "put", \A i \in DOMAIN b : b[i].op = "put"
      PROVE  a \o b \in Seq(Calls) /\ \A i \in DOMAIN (a \o b) : (a \o b)[i].op = "put"
  <2> DEFINE ab == a \o b
  <2> HIDE DEF ab
  <2>1. /\ ab \in Seq(Calls) /\ Len(ab) = Len(a) + Len(b)
        /\ \A i \in 1 .. Len(a) + Len(b) : ab[i] = IF i <= Len(a) THEN a[i] ELSE b[i - Len(a)]
    BY ConcatProperties, Zenon DEF ab
  <2>2. \A i \in DOMAIN ab : ab[i].op = "put"
    BY <1>2, <2>1
  <2> QED BY <2>1, <2>2 DEF ab
<1> QED BY <1>1, <1>2, Zenon

LEMMA TwoStreams == IsFiniteSet(Streams) /\ Cardinality(Streams) = 2
<1>1. IsFiniteSet({"err"}) /\ Cardinality({"err"}) = 1
  BY FS_Singleton, Zenon
<1>2. Streams = {"err"} \cup {"out"} /\ "out" \notin {"err"}
  BY DEF Streams
<1>3. Cardinality(Streams) = Cardinality({"err"}) + 1 /\ IsFiniteSet(Streams)
  BY <1>1, <1>2, FS_AddElement, Zenon
<1> QED BY <1>1, <1>3

LEMMA WriteCloseRecordsStep ==
  ASSUME StreamInv, NEW s \in Streams, WriteCloseRecords(s)
  PROVE  StreamInv'
<1>0. StreamType /\ Whole /\ Stack /\ nWriters + Cardinality(rawWrite) = 2
  BY DEF StreamInv
<1>1. /\ todo \in Seq(Calls) /\ todo # <<>> /\ Head(todo) = todo[1] /\ Head(todo).op = "closeRecords"
      /\ s \notin rawWrite /\ Closing(s) /\ 1 \in DOMAIN todo
      /\ \A j \in DOMAIN todo : j > 1 => Before(todo[1], todo[j])
  BY TopCall DEF WriteCloseRecords
<1>2. /\ rawWrite' = rawWrite \cup {s} /\ nWriters' = nWriters - 1
      /\ UNCHANGED <<buf, full, isClosed, FCGI_errno, wasFCloseCalled, isAnythingWritten, appStatus, keepConnection,
                     accepted, conn>>
  BY DEF WriteCloseRecords
<1> DEFINE a == IF s = "err" /\ buf[s] = <<>> /\ s \notin isAnythingWritten THEN <<>> ELSE PutStr(s, Header(s, 0, 0))
           b == IF nWriters = 1 THEN PutStr(s, EndRequest(appStatus)) ELSE <<>>
           calls == a \o b
<1>3. Then(calls)
  BY Zenon DEF WriteCloseRecords
<1>4. a \in Seq(Calls) /\ \A i \in DOMAIN a : a[i].op = "put"
  <2>1. Header(s, 0, 0) \in Seq(Bytes)
    BY BytesTyped
  <2>2. PutStr(s, Header(s, 0, 0)) \in Seq(Calls) /\ \A i \in DOMAIN PutStr(s, Header(s, 0, 0)) : PutStr(s, Header(s, 0, 0))[i].op = "put"
    BY <2>1, Puts, Zenon
  <2>3. <<>> \in Seq(Calls) /\ \A i \in DOMAIN <<>> : <<>>[i].op = "put"
    OBVIOUS
  <2> QED BY <2>2, <2>3, Zenon
<1>5. b \in Seq(Calls) /\ \A i \in DOMAIN b : b[i].op = "put"
  <2>1. EndRequest(appStatus) \in Seq(Bytes)
    BY <1>0, BytesTyped DEF StreamType
  <2>2. /\ PutStr(s, EndRequest(appStatus)) \in Seq(Calls)
        /\ \A i \in DOMAIN PutStr(s, EndRequest(appStatus)) : PutStr(s, EndRequest(appStatus))[i].op = "put"
    BY <2>1, Puts, Zenon
  <2>3. <<>> \in Seq(Calls) /\ \A i \in DOMAIN <<>> : <<>>[i].op = "put"
    OBVIOUS
  <2> QED BY <2>2, <2>3, Zenon
<1> HIDE DEF a, b
<1>6. calls \in Seq(Calls) /\ \A i \in DOMAIN calls : calls[i].op = "put"
  BY <1>4, <1>5, Puts, Zenon
<1> HIDE DEF calls
<1>7. Nested'
  <2>1. \A i \in DOMAIN calls : \A d : Before(calls[i], d)
    BY <1>6 DEF Before, Base
  <2>2. Nested
    BY <1>0 DEF Stack
  <2> QED BY <1>1, <1>3, <1>6, <2>1, <2>2, NestedKept, Zenon
<1>8. \A t : Closing(t) => Closing(t)'
  BY <1>1, <1>3, <1>6, ClosingKept
<1>9. ASSUME NEW i \in DOMAIN todo' PROVE Unclosed(todo[i])' /\ ClosesOnce(todo[i])'
  <2>1. CASE i \in DOMAIN calls /\ todo'[i] = calls[i]
    BY <1>6, <2>1 DEF Unclosed, ClosesOnce, Within
  <2>2. ASSUME NEW j \in DOMAIN todo, j > 1, todo'[i] = todo[j] PROVE Unclosed(todo[i])' /\ ClosesOnce(todo[i])'
    <3>1. Unclosed(todo[j]) /\ todo[j].op # "closeRecords"
      BY <1>0, <1>1, <2>2 DEF Stack, Before
    <3> QED BY <1>2, <2>2, <3>1 DEF Unclosed, ClosesOnce
  <2> QED BY <1>1, <1>3, <1>6, <2>1, <2>2, ThenCalls
<1>10. \A t \in rawWrite' : t \in wasFCloseCalled' \/ Closing(t)'
  BY <1>0, <1>1, <1>2, <1>8 DEF Stack
<1>11. Stack'
  BY <1>7, <1>9, <1>10 DEF Stack
<1>12. nWriters' \in Nat /\ nWriters' + Cardinality(rawWrite') = 2
  <2>2. rawWrite \subseteq Streams /\ rawWrite' \subseteq Streams
    BY <1>0, <1>2 DEF StreamType
  <2>3. IsFiniteSet(rawWrite)
    BY <2>2, TwoStreams, FS_Subset, Zenon
  <2>4. Cardinality(rawWrite') = Cardinality(rawWrite) + 1 /\ Cardinality(rawWrite) \in Nat
    BY <1>1, <1>2, <2>3, FS_AddElement, FS_CardinalityType, Zenon
  <2>5. Cardinality(rawWrite') <= 2
    BY <2>2, TwoStreams, FS_Subset, Zenon
  <2>6. nWriters \in Nat
    BY <1>0 DEF StreamType
  <2> QED BY <1>0, <1>2, <2>4, <2>5, <2>6
<1>13. todo' \in Seq(Calls)
  BY <1>1, <1>3, <1>6, ThenCalls
<1>14. StreamType'
  BY <1>0, <1>2, <1>12, <1>13 DEF StreamType
<1>15. Whole'
  BY <1>0, <1>2 DEF Whole
<1> QED BY <1>11, <1>12, <1>14, <1>15 DEF StreamInv

LEMMA BeginFCloseStep ==
  ASSUME StreamInv, NEW s \in Streams, BeginFClose(s)
  PROVE  StreamInv'
<1>0. StreamType /\ Whole /\ Stack
  BY DEF StreamInv
<1>1. /\ todo \in Seq(Calls) /\ todo # <<>> /\ Head(todo) = todo[1] /\ Head(todo).op = "fclose" /\ 1 \in DOMAIN todo
      /\ \A j \in DOMAIN todo : j > 1 => Before(todo[1], todo[j])
  BY TopCall DEF BeginFClose
<1>2. UNCHANGED <<buf, full, isClosed, FCGI_errno, wasFCloseCalled, rawWrite, isAnythingWritten, nWriters, appStatus,
                  keepConnection, accepted, conn>>
  BY DEF BeginFClose, stream, request
<1>3. ASSUME s \in wasFCloseCalled PROVE Stack' /\ todo' \in Seq(Calls)
  <2>1. Then(<<>>)
    BY <1>3, Zenon DEF BeginFClose
  <2> QED BY <1>0, <1>1, <1>2, <2>1, StackPops
<1>4. ASSUME s \notin wasFCloseCalled PROVE Stack' /\ todo' \in Seq(Calls)
  <2> DEFINE c1 == Call("encapsulate", s, <<>>)
             c2 == Call("closeRecords", s, <<>>)
             c3 == Call("write", s, <<>>)
             c4 == Call("closed", s, <<>>)
             flush == <<c1, c2, c3>>
             calls == flush \o <<c4>>
  <2>1. Then(calls)
    BY <1>4, Zenon DEF BeginFClose, EmptyAndClose
  <2>2. /\ c1 \in Calls /\ c1.op = "encapsulate" /\ c1.s = s /\ c2 \in Calls /\ c2.op = "closeRecords" /\ c2.s = s
        /\ c3 \in Calls /\ c3.op = "write" /\ c3.s = s /\ c4 \in Calls /\ c4.op = "closed" /\ c4.s = s
    <3>1. {"encapsulate", "closeRecords", "write", "closed"} \subseteq Ops
      BY DEF Ops
    <3> QED BY <3>1, CallsTyped, Zenon
  <2> HIDE DEF c1, c2, c3, c4
  <2>a. /\ flush \in Seq(Calls) /\ Len(flush) = 3 /\ <<c4>> \in Seq(Calls) /\ Len(<<c4>>) = 1 /\ <<c4>>[1] = c4
        /\ flush[1] = c1 /\ flush[2] = c2 /\ flush[3] = c3
    BY <2>2
  <2> HIDE DEF flush
  <2>b. /\ calls \in Seq(Calls) /\ Len(calls) = Len(flush) + Len(<<c4>>)
        /\ \A i \in 1 .. Len(flush) + Len(<<c4>>) : calls[i] = IF i <= Len(flush) THEN flush[i] ELSE <<c4>>[i - Len(flush)]
    BY <2>a, ConcatProperties, Zenon
  <2> HIDE DEF calls
  <2>3. calls \in Seq(Calls) /\ DOMAIN calls = 1 .. 4 /\ 4 \in DOMAIN calls
    BY <2>a, <2>b
  <2>4. calls[1] = c1 /\ calls[2] = c2 /\ calls[3] = c3 /\ calls[4] = c4
    BY <2>a, <2>b
  <2>5. \A j \in DOMAIN todo : j > 1 => todo[j].op \in Base
    BY <1>1 DEF Before, Base
  <2>6. \A t : ~Closing(t)
    <3>1. \A j \in DOMAIN todo : j = 1 \/ j > 1
      BY <1>1
    <3> QED BY <1>1, <2>5, <3>1 DEF Closing, Base
  <2>7. s \notin rawWrite
    BY <1>0, <1>4, <2>6 DEF Stack
  <2>8. Nested'
    <3>1. \A i, j \in DOMAIN calls : i < j => Before(calls[i], calls[j])
      <4> SUFFICES ASSUME NEW i \in 1 .. 4, NEW j \in 1 .. 4, i < j PROVE Before(calls[i], calls[j])
        BY <2>3, Zenon
      <4>1. i = 1 \/ i = 2 \/ i = 3
        OBVIOUS
      <4>2. i = 2 => j = 3 \/ j = 4
        OBVIOUS
      <4> QED BY <2>2, <2>4, <4>1, <4>2 DEF Before, Base
    <3>2. \A i \in DOMAIN calls, j \in DOMAIN todo : j > 1 => Before(calls[i], todo[j])
      BY <2>5 DEF Before, Base
    <3>3. Nested
      BY <1>0 DEF Stack
    <3> QED BY <1>1, <2>1, <2>3, <3>1, <3>2, <3>3, NestedKept
  <2>9. Closing(s)'
    <3>1. PICK i \in DOMAIN todo' : todo'[i] = calls[4]
      BY <1>1, <2>1, <2>3, ThenCalls
    <3> QED BY <2>2, <2>4, <3>1, Zenon DEF Closing
  <2>10. ASSUME NEW i \in DOMAIN todo' PROVE Unclosed(todo[i])' /\ ClosesOnce(todo[i])'
    <3>1. ASSUME NEW j \in 1 .. 4, todo'[i] = calls[j] PROVE Unclosed(todo[i])' /\ ClosesOnce(todo[i])'
      <4>1. calls[j].s = s
        BY <2>2, <2>4
      <4> QED BY <1>2, <1>4, <2>7, <2>9, <3>1, <4>1, Zenon DEF Unclosed, ClosesOnce
    <3>2. ASSUME NEW j \in DOMAIN todo, j > 1, todo'[i] = todo[j] PROVE Unclosed(todo[i])' /\ ClosesOnce(todo[i])'
      BY <2>5, <3>2 DEF Unclosed, ClosesOnce, Base, Within
    <3> QED BY <1>1, <2>1, <2>3, <3>1, <3>2, ThenCalls
  <2>11. \A t \in rawWrite' : t \in wasFCloseCalled' \/ Closing(t)'
    BY <1>0, <1>2, <2>6 DEF Stack
  <2>12. todo' \in Seq(Calls)
    BY <1>1, <2>1, <2>3, ThenCalls
  <2> QED BY <2>8, <2>10, <2>11, <2>12 DEF Stack
<1>5. StreamType' /\ Whole'
  BY <1>0, <1>2, <1>3, <1>4 DEF StreamType, Whole
<1> QED BY <1>2, <1>3, <1>4, <1>5 DEF StreamInv

LEMMA EndFCloseStep ==
  ASSUME StreamInv, NEW s \in Streams, EndFClose(s)
  PROVE  StreamInv'
<1>0. StreamType /\ Whole /\ Stack
  BY DEF StreamInv
<1>1. /\ todo \in Seq(Calls) /\ todo # <<>> /\ Head(todo) = todo[1] /\ Head(todo).op = "closed" /\ Head(todo).s = s
      /\ 1 \in DOMAIN todo /\ \A j \in DOMAIN todo : j > 1 => Before(todo[1], todo[j])
  BY TopCall DEF EndFClose
<1>2. /\ wasFCloseCalled' = wasFCloseCalled \cup {s} /\ isClosed' = isClosed \cup {s}
      /\ full' = [full EXCEPT ![s] = Len(buf[s])] /\ Then(<<>>)
      /\ UNCHANGED <<buf, FCGI_errno, rawWrite, isAnythingWritten, nWriters, appStatus, keepConnection, accepted, conn>>
  BY DEF EndFClose, request
<1>3. buf[s] \in Seq(Bytes) /\ Len(buf[s]) \in Nat /\ full[s] \in Nat /\ BuffLen[s] \in Nat
  BY <1>0, LengthsAssumption DEF StreamType
<1>4. \A j \in DOMAIN todo : j > 1 => todo[j].op \in Base
  BY <1>1 DEF Before
<1>5. <<>> \in Seq(Calls) /\ DOMAIN <<>> = {}
  OBVIOUS
<1>6. todo' \in Seq(Calls) /\ \A i \in DOMAIN todo' : \E j \in DOMAIN todo : j > 1 /\ todo'[i] = todo[j]
  BY <1>1, <1>2, <1>5, ThenCalls
<1>7. \A i \in DOMAIN todo' : todo'[i].op \in Base
  BY <1>4, <1>6
<1>8. Nested'
  <2>1. \A c, d : c.op \in Base /\ d.op \in Base => Before(c, d)
    BY DEF Before, Base
  <2> QED BY <1>7, <2>1, Zenon DEF Nested
<1>9. ASSUME NEW i \in DOMAIN todo' PROVE Unclosed(todo[i])' /\ ClosesOnce(todo[i])'
  BY <1>7 DEF Unclosed, ClosesOnce, Base, Within
<1>10. ASSUME NEW t \in rawWrite PROVE t \in wasFCloseCalled'
  <2>1. ASSUME NEW j \in DOMAIN todo, todo[j].op = "closed", todo[j].s = t PROVE t = s
    <3>1. j = 1
      BY <1>1, <1>4, <2>1 DEF Base
    <3> QED BY <1>1, <2>1, <3>1
  <2> QED BY <1>0, <1>2, <2>1 DEF Stack, Closing
<1>11. Stack'
  BY <1>2, <1>8, <1>9, <1>10 DEF Stack
<1>12. StreamType'
  BY <1>0, <1>2, <1>3, <1>6 DEF StreamType
<1>13. Whole'
  BY <1>0, <1>2, <1>3 DEF Whole, StreamType
<1> QED BY <1>0, <1>2, <1>11, <1>12, <1>13 DEF StreamInv

LEMMA FreeRequestStep ==
  ASSUME StreamInv, FreeRequest
  PROVE  StreamInv'
<1>0. StreamType /\ Whole /\ Stack
  BY DEF StreamInv
<1>1. todo \in Seq(Calls) /\ todo # <<>> /\ Head(todo).op # "closed"
  <2> DEFINE c == Call("free", "out", <<>>)
  <2>1. c.op = "free" /\ todo = <<c>>
    BY DEF FreeRequest, Free, Call
  <2> HIDE DEF c
  <2> QED BY <1>0, <2>1 DEF StreamType
<1>2. /\ conn' \in {"kept", "closed"} /\ Then(<<>>)
      /\ UNCHANGED <<buf, full, isClosed, FCGI_errno, wasFCloseCalled, rawWrite, isAnythingWritten, nWriters, appStatus,
                     keepConnection, accepted>>
  BY DEF FreeRequest, stream, request
<1>3. Stack' /\ todo' \in Seq(Calls)
  BY <1>0, <1>1, <1>2, StackPops
<1>4. StreamType' /\ Whole'
  BY <1>0, <1>2, <1>3 DEF StreamType, Whole
<1> QED BY <1>2, <1>3, <1>4 DEF StreamInv

LEMMA StreamsStart ==
  ASSUME Init
  PROVE  StreamInv
<1>1. HeaderLen \in Nat /\ BuffLen \in [Streams -> Nat] /\ \A s \in Streams : HeaderLen <= BuffLen[s]
  BY LengthsAssumption
<1>2. Unset \in Seq(Bytes) /\ Len(Unset) = HeaderLen
  BY BytesTyped
<1>3. buf \in [Streams -> Seq(Bytes)] /\ \A s \in Streams : Len(buf[s]) = HeaderLen
  BY <1>2 DEF Init
<1>4. StreamType
  BY <1>1, <1>3 DEF Init, StreamType
<1>5. Whole
  BY <1>1, <1>3 DEF Init, Whole
<1>6. Stack
  BY DEF Init, Stack, Nested, Closing
<1>7. nWriters + Cardinality(rawWrite) = 2
  <2>1. Cardinality({}) = 0
    BY FS_EmptySet, Zenon
  <2> QED BY <2>1 DEF Init
<1> QED BY <1>4, <1>5, <1>6, <1>7 DEF StreamInv

LEMMA StreamsKeep ==
  ASSUME StreamInv, [Next]_vars
  PROVE  StreamInv'
<1>1. CASE Application \/ CallFinish
  BY <1>1, ApplicationStep
<1>2. CASE Library
  BY <1>2, PutStep, EmptyStep, WriteCloseRecordsStep, BeginFCloseStep, EndFCloseStep, FreeRequestStep DEF Library
<1>3. CASE UNCHANGED vars
  <2>1. UNCHANGED <<buf, full, isClosed, FCGI_errno, wasFCloseCalled, rawWrite, isAnythingWritten, nWriters, appStatus,
                    keepConnection, accepted, conn, todo>>
    BY <1>3 DEF vars, stream, request
  <2>2. Stack'
    BY <2>1 DEF StreamInv, Stack, Nested, Unclosed, ClosesOnce, Closing
  <2>3. StreamType' /\ Whole'
    BY <2>1 DEF StreamInv, StreamType, Whole
  <2> QED BY <2>1, <2>2, <2>3 DEF StreamInv
<1> QED BY <1>1, <1>2, <1>3 DEF Next, Finished

LEMMA StreamsInvariant == Spec => []StreamInv
<1>1. Init => StreamInv
  BY StreamsStart
<1>2. StreamInv /\ [Next]_vars => StreamInv'
  BY StreamsKeep
<1> QED BY <1>1, <1>2, PTL DEF Spec

(* The padding never overflows a buffer, calls never nest wrongly, and     *)
(* each stream writes its close records at most once.                      *)
THEOREM BuffersNeverOverflow == Spec => []TypeOK
<1>1. StreamInv => TypeOK
  <2> SUFFICES ASSUME StreamInv PROVE TypeOK
    OBVIOUS
  <2>0. StreamType /\ Whole /\ nWriters + Cardinality(rawWrite) = 2
    BY DEF StreamInv
  <2>1. ASSUME NEW s \in Streams PROVE Len(buf[s]) \in 0 .. full[s] /\ full[s] \in 0 .. BuffLen[s]
    BY <2>0, LengthsAssumption DEF StreamType, Whole
  <2>2. nWriters \in 0 .. 2
    <3>1. IsFiniteSet(rawWrite)
      BY <2>0, TwoStreams, FS_Subset, Zenon DEF StreamType
    <3>2. Cardinality(rawWrite) \in Nat
      BY <3>1, FS_CardinalityType, Zenon
    <3> QED BY <2>0, <3>2 DEF StreamType
  <2>3. \A i \in DOMAIN todo : todo[i].op \in Ops /\ todo[i].s \in Streams
    <3>1. \A i \in DOMAIN todo : todo[i] \in Calls
      BY <2>0 DEF StreamType
    <3> QED BY <3>1 DEF Calls
  <2>4. \A set \in {isClosed, FCGI_errno, wasFCloseCalled, rawWrite, isAnythingWritten} : set \subseteq Streams
    BY <2>0, Zenon DEF StreamType
  <2> QED BY <2>0, <2>1, <2>2, <2>3, <2>4, Zenon DEF TypeOK, StreamType
<1> QED BY <1>1, StreamsInvariant, PTL

LEMMA EmptiedHasRoom ==
  ASSUME StreamInv, NEW s \in Streams, Write(s)
  PROVE  buf'[s] = <<>> \/ full[s] > Len(buf'[s])
<1>1. full[s] = BuffLen[s] /\ buf \in [Streams -> Seq(Bytes)]
  BY EmptyStep DEF StreamInv, StreamType
<1>2. buf'[s] = Emptied(s)
  BY <1>1, Zenon DEF Write
<1>3. Emptied(s) = <<>> \/ Len(Emptied(s)) = HeaderLen
  BY BytesTyped, Zenon DEF Emptied
<1>4. BuffLen[s] > HeaderLen
  BY LengthsAssumption
<1> QED BY <1>1, <1>2, <1>3, <1>4

(* After EmptyBuffProc a stream has room for more, or is closed, so        *)
(* FCGX_PutStr's loop makes progress.                                      *)
THEOREM FlushAlwaysMakesRoom == Spec => FlushMakesRoom
<1>1. ASSUME StreamInv, [Next]_vars, NEW s \in Streams, Top("write", s), todo' = Tail(todo)
      PROVE  buf'[s] = <<>> \/ full[s] > Len(buf'[s]) \/ s \in isClosed'
  <2>1. todo \in Seq(Calls) /\ todo # <<>> /\ Head(todo).op = "write" /\ Head(todo).s = s /\ todo' # todo
    <3>1. todo \in Seq(Calls) /\ todo # <<>>
      BY <1>1 DEF StreamInv, StreamType, Top
    <3>2. Len(Tail(todo)) = Len(todo) - 1 /\ Len(todo) \in Nat
      BY <3>1
    <3>3. todo' # todo
      BY <1>1, <3>2
    <3> QED BY <1>1, <3>1, <3>3, Zenon DEF Top
  <2>2. ASSUME NEW t \in Streams, Write(t) \/ WriteFails(t) PROVE t = s
    BY <1>1, <2>2 DEF Write, WriteFails, Top
  <2>3. CASE Application \/ CallFinish
    BY <2>1, <2>3, Zenon DEF Application, CallPutStr, CallFFlush, CallFClose, SetExitStatus, CallFinish, Idle
  <2>4. CASE \E t \in Streams : Write(t)
    BY <1>1, <2>2, <2>4, EmptiedHasRoom
  <2>5. CASE \E t \in Streams : WriteFails(t)
    BY <2>2, <2>5 DEF WriteFails
  <2>6. CASE \E t \in Streams : \/ Put(t) \/ EncapsulateRecord(t) \/ WriteCloseRecords(t)
                                \/ BeginFClose(t) \/ EndFClose(t)
    BY <2>1, <2>6 DEF Put, EncapsulateRecord, WriteCloseRecords, BeginFClose, EndFClose, Top
  <2>7. CASE FreeRequest
    <3> DEFINE c == Call("free", "out", <<>>)
    <3>1. c.op = "free" /\ todo = <<c>>
      BY <2>7 DEF FreeRequest, Free, Call
    <3> HIDE DEF c
    <3> QED BY <2>1, <3>1
  <2>8. CASE UNCHANGED vars
    BY <2>1, <2>8 DEF vars
  <2> QED BY <1>1, <2>3, <2>4, <2>5, <2>6, <2>7, <2>8 DEF Next, Library, Finished
<1>2. StreamInv /\ [Next]_vars =>
        [\A s \in Streams : Top("write", s) /\ todo' = Tail(todo)
           => buf'[s] = <<>> \/ full[s] > Len(buf'[s]) \/ s \in isClosed']_vars
  BY <1>1
<1> QED BY <1>2, StreamsInvariant, PTL DEF Spec, FlushMakesRoom

-----------------------------------------------------------------------------
(* A set that has 0, and n + 1 with each n, has every number: else it would *)
(* lack a least one.                                                        *)
LEMMA Induction ==
  ASSUME NEW T, T \subseteq Nat, 0 \in T, \A n \in T : n + 1 \in T
  PROVE  T = Nat
<1> DEFINE R == OpToRel(<, Nat)
           Rest == Nat \ T
<1>1. IsWellFoundedOn(R, Nat)
  BY NatLessThanWellFounded
<1> SUFFICES ASSUME Rest # {} PROVE FALSE
  OBVIOUS
<1>2. PICK x \in Rest : \A y \in Rest : <<y, x>> \notin R
  <2> HIDE DEF R, Rest
  <2>1. Rest \subseteq Nat
    BY DEF Rest
  <2>2. IsWellFoundedOn(R, Rest)
    BY <1>1, <2>1, IsWellFoundedOnSubset
  <2> QED BY <2>2, WFMin
<1>3. x # 0 /\ x \in Nat /\ x - 1 \in Nat
  OBVIOUS
<1>4. x - 1 \in Rest
  <2>1. x - 1 \in T => x \in T
    BY <1>3
  <2> QED BY <1>3, <2>1
<1>5. <<x - 1, x>> \in R
  <2>1. <<x - 1, x>> \in Nat \X Nat /\ <<x - 1, x>>[1] < <<x - 1, x>>[2]
    BY <1>3
  <2> QED BY <2>1, Zenon DEF OpToRel
<1> QED BY <1>2, <1>4, <1>5

-----------------------------------------------------------------------------
(* The peer's parser on whole sequences of bytes.                           *)

Reads(f, p, w) == f = [i \in 0 .. Len(w) |-> IF i = 0 THEN p ELSE Receive(f[i - 1], w[i])]

LEMMA ParserRuns ==
  ASSUME NEW p, NEW w, Len(w) \in Nat
  PROVE  \E f : Reads(f, p, w) /\ ReceiveAll(p, w) = f[Len(w)]
<1> DEFINE Upto(f, n) == f = [i \in 0 .. n |-> IF i = 0 THEN p ELSE Receive(f[i - 1], w[i])]
           T == {n \in Nat : \E f : Upto(f, n)}
           g == CHOOSE f : Upto(f, Len(w))
<1>1. 0 \in T
  <2>1. Upto([i \in 0 .. 0 |-> p], 0)
    OBVIOUS
  <2> QED BY <2>1
<1>2. ASSUME NEW n \in T PROVE n + 1 \in T
  <2>1. PICK f : Upto(f, n)
    OBVIOUS
  <2> DEFINE last == Receive(f[n], w[n + 1])
             more == [i \in 0 .. n + 1 |-> IF i = n + 1 THEN last ELSE f[i]]
             rule == [i \in 0 .. n + 1 |-> IF i = 0 THEN p ELSE Receive(more[i - 1], w[i])]
  <2>2. ASSUME NEW i \in 0 .. n + 1 PROVE more[i] = IF i = 0 THEN p ELSE Receive(more[i - 1], w[i])
    <3>1. CASE i = n + 1
      <4>1. i # 0 /\ i - 1 = n /\ n \in 0 .. n + 1 /\ n # n + 1 /\ more[i] = last
        BY <3>1
      <4>2. more[i - 1] = f[n]
        BY <4>1
      <4> QED BY <3>1, <4>1, <4>2
    <3>2. CASE i # n + 1
      <4>1. i \in 0 .. n /\ (i # 0 => i - 1 \in 0 .. n /\ i - 1 # n + 1 /\ i - 1 \in 0 .. n + 1)
        BY <3>2
      <4>2. f[i] = IF i = 0 THEN p ELSE Receive(f[i - 1], w[i])
        BY <2>1, <4>1, Zenon
      <4>3. more[i] = f[i] /\ (i # 0 => more[i - 1] = f[i - 1])
        BY <3>2, <4>1
      <4> QED BY <4>2, <4>3, Zenon
    <3> QED BY <3>1, <3>2
  <2>3. more = rule
    <3>1. \A i \in 0 .. n + 1 : rule[i] = more[i]
      BY <2>2, Zenon
    <3>2. more = [i \in 0 .. n + 1 |-> more[i]] /\ rule = [i \in 0 .. n + 1 |-> rule[i]]
      OBVIOUS
    <3> HIDE DEF rule, more
    <3> QED BY <3>1, <3>2
  <2>4. n + 1 \in Nat
    OBVIOUS
  <2>5. Upto(more, n + 1)
    BY <2>3, Zenon
  <2> HIDE DEF more, Upto
  <2> QED BY <2>4, <2>5
<1>3. T = Nat
  <2> HIDE DEF T
  <2>1. T \subseteq Nat
    BY DEF T
  <2> QED BY <1>1, <1>2, <2>1, Induction
<1>4. Upto(g, Len(w))
  BY <1>3
<1>5. ReceiveAll(p, w) = g[Len(w)]
  BY Zenon DEF ReceiveAll
<1> QED BY <1>4, <1>5, Zenon DEF Reads

(* What it has after k bytes depends on these only.                        *)
LEMMA ParserReadsOn ==
  ASSUME NEW p, NEW k \in Nat, NEW v, NEW w, Len(v) = k, Len(w) = k + 1, \A i \in 1 .. k : v[i] = w[i],
         NEW f, NEW g, Reads(f, p, v), Reads(g, p, w)
  PROVE  f[k] = g[k]
<1> DEFINE T == {n \in Nat : n <= k => f[n] = g[n]}
<1>1. 0 \in T
  BY DEF Reads
<1>2. ASSUME NEW n \in T PROVE n + 1 \in T
  <2>1. SUFFICES ASSUME n + 1 <= k PROVE f[n + 1] = g[n + 1]
    OBVIOUS
  <2>2. f[n] = g[n] /\ v[n + 1] = w[n + 1]
    BY <2>1
  <2>3. n + 1 \in 0 .. Len(v) /\ n + 1 \in 0 .. Len(w) /\ n + 1 # 0 /\ (n + 1) - 1 = n
    BY <2>1
  <2>4. f[n + 1] = Receive(f[n], v[n + 1])
    BY <2>3, Zenon DEF Reads
  <2>5. g[n + 1] = Receive(g[n], w[n + 1])
    BY <2>3, Zenon DEF Reads
  <2> QED BY <2>2, <2>4, <2>5
<1>3. T = Nat
  <2> HIDE DEF T
  <2>1. T \subseteq Nat
    BY DEF T
  <2> QED BY <1>1, <1>2, <2>1, Induction
<1> QED BY <1>3

LEMMA ReceiveNone ==
  ASSUME NEW p
  PROVE  ReceiveAll(p, <<>>) = p
<1>1. PICK f : Reads(f, p, <<>>) /\ ReceiveAll(p, <<>>) = f[Len(<<>>)]
  BY ParserRuns
<1> QED BY <1>1 DEF Reads

LEMMA ReceiveOneMore ==
  ASSUME NEW p, NEW S, NEW w \in Seq(S), NEW k \in 0 .. Len(w) - 1
  PROVE  ReceiveAll(p, SubSeq(w, 1, k + 1)) = Receive(ReceiveAll(p, SubSeq(w, 1, k)), w[k + 1])
<1> DEFINE u == SubSeq(w, 1, k)
           v == SubSeq(w, 1, k + 1)
<1>1. /\ Len(u) = k /\ Len(v) = k + 1 /\ k \in Nat /\ k + 1 \in Nat
      /\ \A i \in 1 .. k : u[i] = v[i]
      /\ v[k + 1] = w[k + 1]
  OBVIOUS
<1> HIDE DEF u, v
<1>2. PICK f : Reads(f, p, u) /\ ReceiveAll(p, u) = f[k]
  BY <1>1, ParserRuns
<1>3. PICK g : Reads(g, p, v) /\ ReceiveAll(p, v) = g[k + 1]
  BY <1>1, ParserRuns
<1>4. f[k] = g[k]
  <2> HIDE DEF Reads
  <2> QED BY <1>1, <1>2, <1>3, ParserReadsOn
<1>5. g[k + 1] = Receive(g[k], v[k + 1])
  <2>1. k + 1 \in 0 .. Len(v) /\ k + 1 # 0 /\ (k + 1) - 1 = k
    BY <1>1
  <2> QED BY <1>3, <2>1, Zenon DEF Reads
<1> QED BY <1>1, <1>2, <1>3, <1>4, <1>5 DEF u, v

(* The prefixes of a concatenation.                                        *)
LEMMA PrefixOfConcat ==
  ASSUME NEW S, NEW a \in Seq(S), NEW b \in Seq(S), NEW k \in 0 .. Len(a) + Len(b)
  PROVE  /\ k <= Len(a) => SubSeq(a \o b, 1, k) = SubSeq(a, 1, k)
         /\ k >= Len(a) => SubSeq(a \o b, 1, k) = a \o SubSeq(b, 1, k - Len(a))
<1> DEFINE ab == a \o b
<1>1. ab \in Seq(S) /\ Len(ab) = Len(a) + Len(b) /\ Len(a) \in Nat /\ Len(b) \in Nat
      /\ \A i \in 1 .. Len(a) + Len(b) : ab[i] = IF i <= Len(a) THEN a[i] ELSE b[i - Len(a)]
  BY ConcatProperties
<1> HIDE DEF ab
<1>2. SubSeq(ab, 1, k) \in Seq(S) /\ Len(SubSeq(ab, 1, k)) = k /\ \A i \in 1 .. k : SubSeq(ab, 1, k)[i] = ab[i]
  BY <1>1
<1>3. ASSUME k <= Len(a) PROVE SubSeq(ab, 1, k) = SubSeq(a, 1, k)
  <2> DEFINE l == SubSeq(ab, 1, k)
             r == SubSeq(a, 1, k)
  <2>1. r \in Seq(S) /\ Len(r) = k /\ \A i \in 1 .. k : r[i] = a[i]
    BY <1>1, <1>3
  <2>2. l \in Seq(S) /\ Len(l) = k /\ \A i \in 1 .. k : l[i] = ab[i]
    BY <1>2
  <2> HIDE DEF l, r
  <2>3. \A i \in 1 .. Len(l) : l[i] = r[i]
    <3> SUFFICES ASSUME NEW i \in 1 .. k PROVE l[i] = r[i]
      BY <2>2
    <3>1. i \in 1 .. Len(a) + Len(b) /\ i <= Len(a)
      BY <1>1, <1>3
    <3>2. l[i] = ab[i] /\ r[i] = a[i] /\ ab[i] = a[i]
      BY <1>1, <2>1, <2>2, <3>1, Zenon
    <3> QED BY <3>2, Zenon
  <2>4. l = r
    BY <2>1, <2>2, <2>3, SeqEqual
  <2> QED BY <2>4 DEF l, r
<1>4. ASSUME k >= Len(a) PROVE SubSeq(ab, 1, k) = a \o SubSeq(b, 1, k - Len(a))
  <2> DEFINE l == SubSeq(ab, 1, k)
             c == SubSeq(b, 1, k - Len(a))
             r == a \o c
  <2>1. c \in Seq(S) /\ Len(c) = k - Len(a) /\ \A i \in 1 .. k - Len(a) : c[i] = b[i]
    BY <1>1, <1>4
  <2>2. l \in Seq(S) /\ Len(l) = k /\ \A i \in 1 .. k : l[i] = ab[i]
    BY <1>2
  <2> HIDE DEF l, c
  <2>3. r \in Seq(S) /\ Len(r) = k /\ \A i \in 1 .. k : r[i] = IF i <= Len(a) THEN a[i] ELSE c[i - Len(a)]
    <3>1. /\ r \in Seq(S) /\ Len(r) = Len(a) + Len(c)
          /\ \A i \in 1 .. Len(a) + Len(c) : r[i] = IF i <= Len(a) THEN a[i] ELSE c[i - Len(a)]
      BY <2>1, ConcatProperties, Zenon
    <3>2. Len(a) + Len(c) = k
      BY <1>1, <2>1
    <3> QED BY <3>1, <3>2, Zenon
  <2> HIDE DEF r
  <2>4. \A i \in 1 .. Len(l) : l[i] = r[i]
    <3> SUFFICES ASSUME NEW i \in 1 .. k PROVE l[i] = r[i]
      BY <2>2
    <3>1. CASE i <= Len(a)
      BY <1>1, <2>2, <2>3, <3>1
    <3>2. CASE i > Len(a)
      <4>1. i - Len(a) \in 1 .. k - Len(a)
        BY <1>1, <3>2
      <4>2. l[i] = b[i - Len(a)] /\ r[i] = c[i - Len(a)]
        <5>1. i \in 1 .. Len(a) + Len(b) /\ ~(i <= Len(a))
          BY <1>1, <3>2
        <5>2. l[i] = ab[i] /\ ab[i] = b[i - Len(a)]
          BY <1>1, <2>2, <5>1, Zenon
        <5> QED BY <2>3, <5>1, <5>2, Zenon
      <4>3. c[i - Len(a)] = b[i - Len(a)]
        BY <2>1, <4>1, Zenon
      <4> QED BY <4>2, <4>3
    <3> QED BY <1>1, <3>1, <3>2
  <2>5. l = r
    BY <2>2, <2>3, <2>4, SeqEqual
  <2> QED BY <2>5 DEF l, c, r
<1> QED BY <1>3, <1>4 DEF ab

LEMMA ReceiveConcat ==
  ASSUME NEW p, NEW S, NEW a \in Seq(S), NEW b \in Seq(S)
  PROVE  ReceiveAll(p, a \o b) = ReceiveAll(ReceiveAll(p, a), b)
<1> DEFINE P(k) == ReceiveAll(p, a \o SubSeq(b, 1, k)) = ReceiveAll(ReceiveAll(p, a), SubSeq(b, 1, k))
           T == {k \in Nat : k <= Len(b) => P(k)}
<1>0. Len(a) \in Nat /\ Len(b) \in Nat /\ a \o b \in Seq(S) /\ Len(a \o b) = Len(a) + Len(b)
  BY ConcatProperties
<1>1. 0 \in T
  <2>1. SubSeq(b, 1, 0) = <<>> /\ a \o <<>> = a
    OBVIOUS
  <2> QED BY <2>1, ReceiveNone
<1>2. ASSUME NEW k \in T PROVE k + 1 \in T
  <2> SUFFICES ASSUME k + 1 <= Len(b) PROVE P(k + 1)
    OBVIOUS
  <2> DEFINE n == Len(a) + k
             ab == a \o b
  <2>1. P(k) /\ n \in 0 .. Len(ab) - 1 /\ n \in 0 .. Len(a) + Len(b) /\ n + 1 \in 0 .. Len(a) + Len(b)
        /\ n >= Len(a) /\ n + 1 >= Len(a) /\ n - Len(a) = k /\ n + 1 - Len(a) = k + 1 /\ k \in 0 .. Len(b) - 1
    BY <1>0
  <2> HIDE DEF P, n
  <2>2. SubSeq(ab, 1, n) = a \o SubSeq(b, 1, k)
    <3>1. SubSeq(a \o b, 1, n) = a \o SubSeq(b, 1, n - Len(a))
      BY <2>1, PrefixOfConcat, Zenon
    <3> QED BY <2>1, <3>1, Zenon
  <2>3. SubSeq(ab, 1, n + 1) = a \o SubSeq(b, 1, k + 1)
    <3> DEFINE m == n + 1
    <3>1. m \in 0 .. Len(a) + Len(b) /\ m >= Len(a) /\ m - Len(a) = k + 1
      BY <2>1
    <3> HIDE DEF m
    <3>2. SubSeq(a \o b, 1, m) = a \o SubSeq(b, 1, m - Len(a))
      BY <3>1, PrefixOfConcat, Zenon
    <3> QED BY <3>1, <3>2, Zenon DEF m
  <2>4. ab[n + 1] = b[k + 1]
    BY <1>0, <2>1, ConcatProperties DEF n
  <2>5. ReceiveAll(p, SubSeq(ab, 1, n + 1)) = Receive(ReceiveAll(p, SubSeq(ab, 1, n)), ab[n + 1])
    BY <1>0, <2>1, ReceiveOneMore
  <2>6. ReceiveAll(ReceiveAll(p, a), SubSeq(b, 1, k + 1)) = Receive(ReceiveAll(ReceiveAll(p, a), SubSeq(b, 1, k)), b[k + 1])
    BY <2>1, ReceiveOneMore
  <2> QED BY <2>1, <2>2, <2>3, <2>4, <2>5, <2>6, Zenon DEF P
<1>3. T = Nat
  <2> HIDE DEF T
  <2>1. T \subseteq Nat
    BY DEF T
  <2> QED BY <1>1, <1>2, <2>1, Induction
<1>4. P(Len(b))
  BY <1>0, <1>3
<1>5. SubSeq(b, 1, Len(b)) = b
  BY SubSeqFull
<1> QED BY <1>4, <1>5

-----------------------------------------------------------------------------
(* What the parser may be, and what one byte does to it.                    *)

Values == {b[2] : b \in Bytes}
Peers == [head : 0 .. HeaderLen, type : Streams \cup {"end", "none"}, clen : Nat, plen : Nat, empty : BOOLEAN,
          got : [Streams -> Seq(Bytes)], eof : SUBSET Streams, ended : Seq(Values), garbage : BOOLEAN]

(* Nothing that was received is taken back.                                *)
Grows(p, q) ==
  /\ \A s \in Streams : Len(p.got[s]) <= Len(q.got[s])
  /\ p.eof \subseteq q.eof /\ Len(p.ended) <= Len(q.ended)

(* Between two records; within one.                                        *)
AtRest(q) == q.head = 0 /\ q.clen = 0 /\ q.plen = 0 /\ ~q.garbage
At(p, h, t, c, l, e) == p.head = h /\ p.type = t /\ p.clen = c /\ p.plen = l /\ p.empty = e /\ ~p.garbage
SameData(p, q) == p.got = q.got /\ p.eof = q.eof /\ p.ended = q.ended

LEMMA PeerFields ==
  ASSUME NEW p \in Peers
  PROVE  /\ \A h \in 0 .. HeaderLen, e \in SUBSET Streams : [p EXCEPT !.head = h, !.eof = e] \in Peers
         /\ \A h \in 0 .. HeaderLen, t \in Streams \cup {"end", "none"}, c \in Nat, l \in Nat, e \in BOOLEAN :
              [p EXCEPT !.head = h, !.type = t, !.clen = c, !.plen = l, !.empty = e] \in Peers
         /\ \A c \in Nat, g \in [Streams -> Seq(Bytes)], e \in Seq(Values) :
              [p EXCEPT !.clen = c, !.got = g, !.ended = e] \in Peers
         /\ \A l \in Nat : [p EXCEPT !.plen = l] \in Peers
         /\ [p EXCEPT !.garbage = TRUE] \in Peers
<1> DEFINE Heads == 0 .. HeaderLen
           Types == Streams \cup {"end", "none"}
           Gots == [Streams -> Seq(Bytes)]
           Eofs == SUBSET Streams
           EndsOf == Seq(Values)
           Numbers == Nat
           Flags == BOOLEAN
<1>1. Peers = [head : Heads, type : Types, clen : Numbers, plen : Numbers, empty : Flags,
               got : Gots, eof : Eofs, ended : EndsOf, garbage : Flags]
  BY DEF Peers
<1> HIDE DEF Heads, Types, Gots, Eofs, EndsOf, Numbers, Flags
<1>2. \A h \in Heads, e \in Eofs : [p EXCEPT !.head = h, !.eof = e] \in Peers
  BY <1>1
<1>3. \A h \in Heads, t \in Types, c \in Numbers, l \in Numbers, e \in Flags :
        [p EXCEPT !.head = h, !.type = t, !.clen = c, !.plen = l, !.empty = e] \in Peers
  BY <1>1
<1>4. \A c \in Numbers, g \in Gots, e \in EndsOf : [p EXCEPT !.clen = c, !.got = g, !.ended = e] \in Peers
  BY <1>1
<1>5. \A l \in Numbers : [p EXCEPT !.plen = l] \in Peers
  BY <1>1
<1>6. [p EXCEPT !.garbage = TRUE] \in Peers
  <2>1. TRUE \in Flags
    BY DEF Flags
  <2> QED BY <1>1, <2>1
<1> QED BY <1>2, <1>3, <1>4, <1>5, <1>6, Zenon DEF Heads, Types, Gots, Eofs, EndsOf, Numbers, Flags

LEMMA HeaderBytes ==
  ASSUME NEW b \in Bytes
  PROVE  /\ b[1] = "header" => b[2] \in Streams \cup {"end"} /\ b[3] \in Nat /\ b[4] \in Nat
         /\ b[2] \in Values
<1>1. b[2] \in Values
  BY DEF Values
<1>2. b[1] = "header" => b[2] \in Streams \cup {"end"} /\ b[3] \in Nat /\ b[4] \in Nat
  BY DEF Bytes, Streams
<1> QED BY <1>1, <1>2

LEMMA RecordEnds ==
  ASSUME NEW p \in Peers
  PROVE  /\ EndOfRecord(p) \in Peers
         /\ EndOfRecord(p).got = p.got /\ EndOfRecord(p).ended = p.ended
         /\ p.head < HeaderLen \/ p.clen + p.plen > 0 => EndOfRecord(p) = p
         /\ p.head = HeaderLen /\ p.clen = 0 /\ p.plen = 0 /\ ~p.garbage =>
              /\ AtRest(EndOfRecord(p))
              /\ EndOfRecord(p).eof = IF p.empty /\ p.type \in Streams THEN p.eof \cup {p.type} ELSE p.eof
<1>0. HeaderLen \in Nat \ {0}
  BY LengthsAssumption
<1>1. /\ p.head \in 0 .. HeaderLen /\ p.type \in Streams \cup {"end", "none"} /\ p.clen \in Nat /\ p.plen \in Nat
      /\ p.empty \in BOOLEAN /\ p.got \in [Streams -> Seq(Bytes)] /\ p.eof \in SUBSET Streams /\ p.ended \in Seq(Values)
      /\ p.garbage \in BOOLEAN
  BY DEF Peers
<1>2. CASE p.head < HeaderLen \/ p.clen + p.plen > 0
  <2>1. EndOfRecord(p) = p
    BY <1>2 DEF EndOfRecord
  <2> QED BY <1>0, <1>1, <1>2, <2>1
<1>3. CASE ~(p.head < HeaderLen \/ p.clen + p.plen > 0)
  <2> DEFINE e == IF p.empty /\ p.type \in Streams THEN p.eof \cup {p.type} ELSE p.eof
             r == [p EXCEPT !.head = 0, !.eof = e]
  <2>1. EndOfRecord(p) = r
    BY <1>3 DEF EndOfRecord
  <2>2. e \in SUBSET Streams /\ p.eof \subseteq e
    BY <1>1
  <2>3. p.clen = 0 /\ p.plen = 0
    BY <1>1, <1>3
  <2> HIDE DEF e
  <2>a. r \in Peers
    <3>1. 0 \in 0 .. HeaderLen
      BY <1>0
    <3> QED BY <2>2, <3>1, PeerFields, Zenon
  <2>4. /\ r.head = 0 /\ r.eof = e /\ r.clen = p.clen /\ r.plen = p.plen /\ r.garbage = p.garbage
        /\ r.got = p.got /\ r.ended = p.ended
    BY <1>0, <2>2 DEF Peers
  <2> HIDE DEF r
  <2> QED BY <1>0, <1>1, <1>3, <2>1, <2>2, <2>3, <2>4, <2>a DEF AtRest, e
<1> QED BY <1>2, <1>3

LEMMA PeersTyped ==
  ASSUME NEW p \in Peers
  PROVE  /\ p.head \in 0 .. HeaderLen /\ p.clen \in Nat /\ p.plen \in Nat /\ p.garbage \in BOOLEAN
         /\ p.eof \subseteq Streams /\ p.ended \in Seq(Values) /\ Len(p.ended) \in Nat /\ p.got \in [Streams -> Seq(Bytes)]
         /\ \A s \in Streams : p.got[s] \in Seq(Bytes) /\ Len(p.got[s]) \in Nat
BY DEF Peers

(* A byte of a header, of the content and of the padding.                  *)
LEMMA HeaderByte ==
  ASSUME NEW p \in Peers, NEW b \in Bytes, ~p.garbage, p.head < HeaderLen, b[1] = "header"
  PROVE  \E m \in Peers : /\ Receive(p, b) = EndOfRecord(m) /\ SameData(m, p)
                          /\ At(m, p.head + 1, b[2], b[3], b[4], b[3] = 0)
<1> DEFINE m == [p EXCEPT !.head = p.head + 1, !.type = b[2], !.clen = b[3], !.plen = b[4], !.empty = (b[3] = 0)]
<1>1. Receive(p, b) = EndOfRecord(m)
  <2>1. p.head # HeaderLen
    BY LengthsAssumption DEF Peers
  <2> QED BY <2>1, Zenon DEF Receive
<1>2. b[2] \in Streams \cup {"end"} /\ b[3] \in Nat /\ b[4] \in Nat /\ HeaderLen \in Nat
  BY HeaderBytes, LengthsAssumption
<1>3. m \in Peers
  <2>1. p.head + 1 \in 0 .. HeaderLen /\ b[2] \in Streams \cup {"end", "none"} /\ (b[3] = 0) \in BOOLEAN
    BY <1>2 DEF Peers
  <2> QED BY <1>2, <2>1, PeerFields, Zenon
<1>4. SameData(m, p) /\ At(m, p.head + 1, b[2], b[3], b[4], b[3] = 0)
  BY DEF Peers, SameData, At
<1> QED BY <1>1, <1>3, <1>4

LEMMA ContentByte ==
  ASSUME NEW p \in Peers, NEW b \in Bytes, ~p.garbage, p.head = HeaderLen, p.clen > 0
  PROVE  \E m \in Peers :
           /\ Receive(p, b) = EndOfRecord(m) /\ At(m, HeaderLen, p.type, p.clen - 1, p.plen, p.empty)
           /\ m.eof = p.eof
           /\ \A s \in Streams : m.got[s] = IF s = p.type THEN Append(p.got[s], b) ELSE p.got[s]
           /\ m.ended = IF p.type = "end" /\ p.clen = 1 THEN Append(p.ended, b[2]) ELSE p.ended
<1> DEFINE g == IF p.type \in Streams THEN [p.got EXCEPT ![p.type] = Append(@, b)] ELSE p.got
           e == IF p.type = "end" /\ p.clen = 1 THEN Append(p.ended, b[2]) ELSE p.ended
           m == [p EXCEPT !.clen = p.clen - 1, !.got = g, !.ended = e]
<1>0. /\ p.head \in 0 .. HeaderLen /\ p.clen \in Nat /\ p.got \in [Streams -> Seq(Bytes)] /\ p.ended \in Seq(Values)
      /\ HeaderLen \in Nat /\ p.garbage \in BOOLEAN
  BY LengthsAssumption DEF Peers
<1>1. Receive(p, b) = EndOfRecord(m)
  <2>1. ~(p.head < HeaderLen)
    BY <1>0
  <2> QED BY <2>1, Zenon DEF Receive
<1>2. e \in Seq(Values)
  BY <1>0, HeaderBytes
<1>3. g \in [Streams -> Seq(Bytes)] /\ \A s \in Streams : g[s] = IF s = p.type THEN Append(p.got[s], b) ELSE p.got[s]
  <2>1. \A s \in Streams : Append(p.got[s], b) \in Seq(Bytes)
    BY <1>0
  <2> QED BY <1>0, <2>1
<1> HIDE DEF g, e
<1>4. m \in Peers
  <2>1. p.clen - 1 \in Nat
    BY <1>0
  <2> QED BY <1>2, <1>3, <2>1, PeerFields, Zenon
<1>5. m.got = g /\ m.ended = e /\ m.eof = p.eof /\ At(m, HeaderLen, p.type, p.clen - 1, p.plen, p.empty)
  BY DEF Peers, At
<1> HIDE DEF m
<1> QED BY <1>1, <1>3, <1>4, <1>5 DEF e

LEMMA PaddingByte ==
  ASSUME NEW p \in Peers, NEW b \in Bytes, ~p.garbage, p.head = HeaderLen, p.clen = 0, p.plen > 0
  PROVE  \E m \in Peers : /\ Receive(p, b) = EndOfRecord(m) /\ SameData(m, p)
                          /\ At(m, HeaderLen, p.type, 0, p.plen - 1, p.empty)
<1> DEFINE m == [p EXCEPT !.plen = p.plen - 1]
<1>0. p.head \in 0 .. HeaderLen /\ p.plen \in Nat /\ HeaderLen \in Nat /\ p.garbage \in BOOLEAN
  BY LengthsAssumption DEF Peers
<1>1. Receive(p, b) = EndOfRecord(m)
  <2>1. ~(p.head < HeaderLen) /\ ~(p.clen > 0)
    BY <1>0
  <2> QED BY <1>0, <2>1 DEF Receive
<1>2. m \in Peers
  <2>1. p.plen - 1 \in Nat
    BY <1>0
  <2> QED BY <2>1, PeerFields, Zenon
<1>3. SameData(m, p) /\ At(m, HeaderLen, p.type, 0, p.plen - 1, p.empty)
  BY DEF Peers, SameData, At
<1> QED BY <1>1, <1>2, <1>3

-----------------------------------------------------------------------------
(* The peer reads a record.                                                 *)

(* n bytes of a stream, after the first g.                                 *)
Tokens(s, g, n) == [i \in 1 .. n |-> <<s, g + i>>]

(* A record of type t: c content bytes, the ones of its stream after g, or *)
(* the exit status e; and l bytes of padding.                              *)
IsRecord(w, t, c, l, g, e) ==
  /\ w \in Seq(Bytes) /\ Len(w) = HeaderLen + c + l
  /\ \A i \in 1 .. HeaderLen : w[i] = <<"header", t, c, l>>
  /\ \A i \in 1 .. c : w[HeaderLen + i] = IF t = "end" THEN <<"status", e>> ELSE <<t, g + i>>

(* What the parser q has become, k bytes into such a record.               *)
ReadOf(k, c) == IF k <= HeaderLen THEN 0 ELSE IF k <= HeaderLen + c THEN k - HeaderLen ELSE c
Reading(p, t, c, l, k) ==
  At(p, IF k <= HeaderLen THEN k ELSE HeaderLen, t, c - ReadOf(k, c),
          IF k <= HeaderLen + c THEN l ELSE l - (k - HeaderLen - c), c = 0)
GotAt(p, q, t, c, k) ==
  \A s \in Streams : p.got[s] = IF s = t THEN Tokens(s, 0, Len(q.got[s]) + ReadOf(k, c)) ELSE q.got[s]
EndedAt(p, q, t, c, e, k) == p.ended = IF t = "end" /\ k >= HeaderLen + c THEN Append(q.ended, e) ELSE q.ended
EofAt(p, q, t, c, k) == p.eof = IF c = 0 /\ k = HeaderLen THEN q.eof \cup {t} ELSE q.eof
PlaceAt(p, t, c, l, k) == IF k = 0 \/ k = HeaderLen + c + l THEN AtRest(p) ELSE Reading(p, t, c, l, k)
After(p, q, t, c, l, e, k) ==
  p \in Peers /\ GotAt(p, q, t, c, k) /\ EndedAt(p, q, t, c, e, k) /\ EofAt(p, q, t, c, k) /\ PlaceAt(p, t, c, l, k)

LEMMA TokensTyped ==
  ASSUME NEW s \in Streams, NEW g \in Nat, NEW n \in Nat
  PROVE  /\ Tokens(s, g, n) \in Seq(Bytes) /\ Len(Tokens(s, g, n)) = n
         /\ \A i \in 1 .. n : Tokens(s, g, n)[i] = <<s, g + i>>
         /\ Append(Tokens(s, g, n), <<s, g + n + 1>>) = Tokens(s, g, n + 1)
<1>1. \A i \in Nat : <<s, g + i>> \in Bytes
  BY DEF Bytes
<1>2. Tokens(s, g, n) \in Seq(Bytes) /\ Len(Tokens(s, g, n)) = n /\ \A i \in 1 .. n : Tokens(s, g, n)[i] = <<s, g + i>>
  BY <1>1 DEF Tokens
<1>3. /\ Tokens(s, g, n + 1) \in Seq(Bytes) /\ Len(Tokens(s, g, n + 1)) = n + 1
      /\ \A i \in 1 .. n + 1 : Tokens(s, g, n + 1)[i] = <<s, g + i>>
  BY <1>1 DEF Tokens
<1>4. Append(Tokens(s, g, n), <<s, g + n + 1>>) = Tokens(s, g, n + 1)
  <2> DEFINE a == Append(Tokens(s, g, n), <<s, g + n + 1>>)
             b == Tokens(s, g, n + 1)
  <2>1. <<s, g + n + 1>> \in Bytes
    BY <1>1
  <2>2. /\ a \in Seq(Bytes) /\ Len(a) = n + 1 /\ a[n + 1] = <<s, g + n + 1>>
        /\ \A i \in 1 .. n : a[i] = Tokens(s, g, n)[i]
    BY <1>2, <2>1, AppendProperties
  <2> HIDE DEF a, b
  <2>3. b \in Seq(Bytes) /\ Len(b) = n + 1 /\ \A i \in 1 .. n + 1 : b[i] = <<s, g + i>>
    BY <1>3 DEF b
  <2>4. \A i \in 1 .. n + 1 : a[i] = b[i]
    <3> SUFFICES ASSUME NEW i \in 1 .. n + 1 PROVE a[i] = b[i]
      OBVIOUS
    <3>1. CASE i = n + 1
      <4>1. g + n + 1 = g + i
        BY <3>1
      <4> QED BY <2>2, <2>3, <3>1, <4>1
    <3>2. CASE i # n + 1
      <4>1. i \in 1 .. n
        BY <3>2
      <4> QED BY <1>2, <2>2, <2>3, <4>1
    <3> QED BY <3>1, <3>2
  <2>5. a = b
    BY <2>2, <2>3, <2>4, SeqEqual
  <2> QED BY <2>5 DEF a, b
<1> QED BY <1>2, <1>4

LEMMA RecordStep ==
  ASSUME NEW t \in Streams \cup {"end"}, NEW c \in Nat, NEW l \in Nat, NEW e, c = 0 => l = 0 /\ t \in Streams,
         NEW q \in Peers, NEW w, NEW k \in 0 .. HeaderLen + c + l - 1, NEW p,
         IsRecord(w, t, c, l, IF t = "end" THEN 0 ELSE Len(q.got[t]), e), After(p, q, t, c, l, e, k)
  PROVE  After(Receive(p, w[k + 1]), q, t, c, l, e, k + 1)
<1> DEFINE b == w[k + 1]
           r == Receive(p, b)
           H == HeaderLen
<1> SUFFICES After(r, q, t, c, l, e, k + 1)
  OBVIOUS
<1>0. /\ H \in Nat \ {0} /\ k \in Nat /\ k + 1 \in 1 .. H + c + l /\ k + 1 # 0 /\ t # "none" /\ "end" \notin Streams
      /\ \A s \in Streams : Len(q.got[s]) \in Nat
  BY LengthsAssumption DEF Peers, Streams
<1>a. /\ p \in Peers /\ GotAt(p, q, t, c, k) /\ EndedAt(p, q, t, c, e, k) /\ EofAt(p, q, t, c, k)
      /\ PlaceAt(p, t, c, l, k)
  BY DEF After
<1>b. b \in Bytes
  BY <1>0 DEF IsRecord
<1>1. CASE k < H
  <2>1. b[1] = "header" /\ b[2] = t /\ b[3] = c /\ b[4] = l
    BY <1>0, <1>1 DEF IsRecord
  <2>2. p.head = k /\ ~p.garbage
    BY <1>0, <1>a, <1>1 DEF PlaceAt, AtRest, Reading, At
  <2> HIDE DEF b
  <2>3. PICK m \in Peers : r = EndOfRecord(m) /\ SameData(m, p) /\ At(m, k + 1, t, c, l, c = 0)
    BY <1>1, <1>a, <1>b, <2>1, <2>2, HeaderByte
  <2>4. r \in Peers /\ r.got = p.got /\ r.ended = p.ended /\ m.eof = p.eof
    BY <2>3, RecordEnds DEF SameData
  <2>5. GotAt(r, q, t, c, k + 1)
    <3>1. ReadOf(k, c) = 0 /\ ReadOf(k + 1, c) = 0
      BY <1>0, <1>1 DEF ReadOf
    <3> QED BY <1>a, <2>4, <3>1 DEF GotAt
  <2>6. EndedAt(r, q, t, c, e, k + 1)
    <3>1. ~(t = "end" /\ k >= H + c) /\ ~(t = "end" /\ k + 1 >= H + c)
      BY <1>0, <1>1
    <3> QED BY <1>a, <2>4, <3>1 DEF EndedAt
  <2>7. p.eof = q.eof
    BY <1>0, <1>a, <1>1 DEF EofAt
  <2>8. CASE k + 1 < H \/ c + l > 0
    <3>1. r = m
      BY <2>3, <2>8, RecordEnds DEF At
    <3>2. k + 1 # H + c + l /\ ~(c = 0 /\ k + 1 = H) /\ k + 1 <= H /\ k + 1 <= H + c /\ ReadOf(k + 1, c) = 0 /\ c - 0 = c
      BY <1>0, <1>1, <2>8 DEF ReadOf
    <3>3. PlaceAt(r, t, c, l, k + 1)
      BY <1>0, <2>3, <3>1, <3>2 DEF PlaceAt, Reading
    <3>4. EofAt(r, q, t, c, k + 1)
      BY <2>4, <2>7, <3>1, <3>2 DEF EofAt
    <3> QED BY <2>4, <2>5, <2>6, <3>3, <3>4 DEF After
  <2>9. CASE ~(k + 1 < H \/ c + l > 0)
    <3>1. k + 1 = H /\ c = 0 /\ l = 0 /\ k + 1 = H + c + l /\ t \in Streams
      BY <1>0, <1>1, <2>9
    <3>2. m.head = HeaderLen /\ m.clen = 0 /\ m.plen = 0 /\ ~m.garbage /\ m.type = t /\ m.empty
      BY <2>3, <3>1 DEF At
    <3>3. AtRest(r) /\ r.eof = m.eof \cup {t}
      BY <2>3, <3>1, <3>2, RecordEnds
    <3>4. PlaceAt(r, t, c, l, k + 1)
      BY <3>1, <3>3 DEF PlaceAt
    <3>5. EofAt(r, q, t, c, k + 1)
      BY <2>4, <2>7, <3>1, <3>3 DEF EofAt
    <3> QED BY <2>4, <2>5, <2>6, <3>4, <3>5 DEF After
  <2> QED BY <2>8, <2>9
<1>2. CASE H <= k /\ k < H + c
  <2> DEFINE j == k - H
  <2>1. /\ k # 0 /\ k # H + c + l /\ c # 0 /\ j \in Nat /\ j + 1 \in 1 .. c /\ k + 1 = H + (j + 1) /\ k <= H + c
        /\ ReadOf(k, c) = j /\ ReadOf(k + 1, c) = j + 1 /\ c - j \in Nat /\ c - j > 0 /\ k + 1 <= H + c /\ ~(k + 1 <= H)
    BY <1>0, <1>2 DEF ReadOf
  <2>2. b = IF t = "end" THEN <<"status", e>> ELSE <<t, Len(q.got[t]) + (j + 1)>>
    BY <2>1 DEF IsRecord
  <2>a. c - j = 1 <=> k + 1 >= H + c
    BY <1>0, <1>2
  <2>b. k + 1 = H + c + l <=> c - j - 1 = 0 /\ l = 0
    BY <1>0, <1>2
  <2> HIDE DEF j
  <2>3. At(p, H, t, c - j, l, FALSE)
    <3>1. Reading(p, t, c, l, k)
      BY <1>a, <2>1 DEF PlaceAt
    <3>2. (IF k <= H THEN k ELSE H) = H
      BY <1>0, <1>2
    <3> QED BY <2>1, <3>1, <3>2 DEF Reading, At
  <2> HIDE DEF b
  <2>4. PICK m \in Peers :
          /\ r = EndOfRecord(m) /\ At(m, H, t, c - j - 1, l, FALSE)
          /\ m.eof = p.eof
          /\ \A s \in Streams : m.got[s] = IF s = t THEN Append(p.got[s], b) ELSE p.got[s]
          /\ m.ended = IF t = "end" /\ c - j = 1 THEN Append(p.ended, b[2]) ELSE p.ended
    <3>1. ~p.garbage /\ p.head = H /\ p.type = t /\ p.clen = c - j /\ p.plen = l /\ p.clen > 0 /\ p.empty = FALSE
      BY <2>1, <2>3 DEF At
    <3>2. PICK m \in Peers :
           /\ Receive(p, b) = EndOfRecord(m) /\ At(m, HeaderLen, p.type, p.clen - 1, p.plen, p.empty)
           /\ m.eof = p.eof
           /\ \A s \in Streams : m.got[s] = IF s = p.type THEN Append(p.got[s], b) ELSE p.got[s]
           /\ m.ended = IF p.type = "end" /\ p.clen = 1 THEN Append(p.ended, b[2]) ELSE p.ended
      BY <1>a, <1>b, <3>1, ContentByte
    <3> QED BY <3>1, <3>2, Zenon
  <2>5. r \in Peers /\ r.got = m.got /\ r.ended = m.ended
    BY <2>4, RecordEnds
  <2>6. GotAt(r, q, t, c, k + 1)
    <3> SUFFICES ASSUME NEW s \in Streams
                 PROVE  m.got[s] = IF s = t THEN Tokens(s, 0, Len(q.got[s]) + (j + 1)) ELSE q.got[s]
      BY <2>1, <2>5, Zenon DEF GotAt
    <3>1. CASE s = t
      <4> DEFINE n == Len(q.got[s]) + j
      <4>1. n \in Nat /\ 0 + n + 1 = Len(q.got[s]) + (j + 1) /\ n + 1 = Len(q.got[s]) + (j + 1) /\ 0 \in Nat
        <5>1. Len(q.got[s]) \in Nat
          BY <1>0
        <5>2. \A u, v \in Nat : u + v \in Nat /\ 0 + (u + v) + 1 = u + (v + 1) /\ (u + v) + 1 = u + (v + 1)
          OBVIOUS
        <5> QED BY <2>1, <5>1, <5>2
      <4>2. p.got[s] = Tokens(s, 0, n)
        BY <1>a, <2>1, <3>1 DEF GotAt
      <4>3. b = <<s, 0 + n + 1>>
        BY <1>0, <2>2, <3>1, <4>1
      <4> HIDE DEF n
      <4>4. Append(Tokens(s, 0, n), <<s, 0 + n + 1>>) = Tokens(s, 0, n + 1)
        BY <4>1, TokensTyped, Zenon
      <4> QED BY <2>4, <3>1, <4>1, <4>2, <4>3, <4>4
    <3>2. CASE s # t
      BY <1>a, <2>4, <3>2 DEF GotAt
    <3> QED BY <3>1, <3>2
  <2>7. EndedAt(r, q, t, c, e, k + 1)
    <3>1. ~(k >= H + c)
      BY <1>0, <1>2
    <3>2. p.ended = q.ended
      BY <1>a, <3>1 DEF EndedAt
    <3>3. t = "end" => b[2] = e
      BY <2>2
    <3> QED BY <2>4, <2>5, <2>a, <3>2, <3>3, Zenon DEF EndedAt
  <2>8. m.eof = q.eof
    BY <1>a, <2>1, <2>4 DEF EofAt
  <2>9. CASE k + 1 = H + c + l
    <3>1. m.head = HeaderLen /\ m.clen = 0 /\ m.plen = 0 /\ ~m.garbage /\ ~m.empty
      BY <2>4, <2>9, <2>b DEF At
    <3>2. AtRest(r) /\ r.eof = m.eof
      BY <2>4, <3>1, RecordEnds
    <3>3. PlaceAt(r, t, c, l, k + 1) /\ EofAt(r, q, t, c, k + 1)
      BY <2>1, <2>8, <2>9, <3>2 DEF PlaceAt, EofAt
    <3> QED BY <2>5, <2>6, <2>7, <3>3 DEF After
  <2>10. CASE k + 1 # H + c + l
    <3>1. r = m
      <4>1. m.clen + m.plen > 0
        BY <2>1, <2>4, <2>10, <2>b DEF At
      <4> QED BY <2>4, <4>1, RecordEnds
    <3>2. Reading(m, t, c, l, k + 1)
      <4>1. c - (j + 1) = c - j - 1
        BY <2>1
      <4> QED BY <2>1, <2>4, <4>1 DEF Reading, At
    <3>3. PlaceAt(r, t, c, l, k + 1) /\ EofAt(r, q, t, c, k + 1)
      BY <1>0, <2>1, <2>8, <2>10, <3>1, <3>2 DEF PlaceAt, EofAt
    <3> QED BY <2>5, <2>6, <2>7, <3>3 DEF After
  <2> QED BY <2>9, <2>10
<1>3. CASE H + c <= k
  <2> DEFINE j == k - H - c
  <2>1. /\ c # 0 /\ k # 0 /\ k # H + c + l /\ ReadOf(k, c) = c /\ ReadOf(k + 1, c) = c /\ k >= H + c /\ k + 1 >= H + c
        /\ ~(k + 1 <= H) /\ ~(k + 1 <= H + c) /\ c - c = 0 /\ j \in Nat /\ l - j > 0 /\ (k + 1) - H - c = j + 1
        /\ (k + 1 = H + c + l <=> l - j - 1 = 0) /\ l - j - 1 \in Nat /\ l - (j + 1) = l - j - 1
    BY <1>0, <1>3 DEF ReadOf
  <2>2. At(p, H, t, 0, l - j, FALSE)
    <3>1. Reading(p, t, c, l, k)
      BY <1>a, <2>1 DEF PlaceAt
    <3>2. (IF k <= H + c THEN l ELSE l - (k - H - c)) = l - j /\ (IF k <= H THEN k ELSE H) = H
      BY <1>0, <1>3
    <3> QED BY <2>1, <3>1, <3>2 DEF Reading, At
  <2> HIDE DEF b, j
  <2>3. PICK m \in Peers : r = EndOfRecord(m) /\ SameData(m, p) /\ At(m, H, t, 0, l - j - 1, FALSE)
    <3>1. ~p.garbage /\ p.head = H /\ p.type = t /\ p.clen = 0 /\ p.plen = l - j /\ p.plen > 0 /\ p.empty = FALSE
      BY <2>1, <2>2 DEF At
    <3>2. PICK m \in Peers : /\ Receive(p, b) = EndOfRecord(m) /\ SameData(m, p)
                             /\ At(m, HeaderLen, p.type, 0, p.plen - 1, p.empty)
      BY <1>a, <1>b, <3>1, PaddingByte
    <3> QED BY <3>1, <3>2, Zenon
  <2>4. r \in Peers /\ r.got = p.got /\ r.ended = p.ended /\ m.eof = p.eof
    BY <2>3, RecordEnds DEF SameData
  <2>5. GotAt(r, q, t, c, k + 1)
    BY <1>a, <2>1, <2>4 DEF GotAt
  <2>6. EndedAt(r, q, t, c, e, k + 1)
    BY <1>a, <2>1, <2>4 DEF EndedAt
  <2>7. m.eof = q.eof
    BY <1>a, <2>1, <2>4 DEF EofAt
  <2>8. CASE k + 1 = H + c + l
    <3>1. m.head = HeaderLen /\ m.clen = 0 /\ m.plen = 0 /\ ~m.garbage /\ ~m.empty
      BY <2>1, <2>3, <2>8 DEF At
    <3>2. AtRest(r) /\ r.eof = m.eof
      BY <2>3, <3>1, RecordEnds
    <3>3. PlaceAt(r, t, c, l, k + 1) /\ EofAt(r, q, t, c, k + 1)
      BY <2>1, <2>7, <2>8, <3>2 DEF PlaceAt, EofAt
    <3> QED BY <2>4, <2>5, <2>6, <3>3 DEF After
  <2>9. CASE k + 1 # H + c + l
    <3>1. r = m
      <4>1. m.clen + m.plen > 0
        BY <2>1, <2>3, <2>9 DEF At
      <4> QED BY <2>3, <4>1, RecordEnds
    <3>2. Reading(m, t, c, l, k + 1)
      BY <2>1, <2>3 DEF Reading, At
    <3>3. PlaceAt(r, t, c, l, k + 1) /\ EofAt(r, q, t, c, k + 1)
      BY <1>0, <2>1, <2>7, <2>9, <3>1, <3>2 DEF PlaceAt, EofAt
    <3> QED BY <2>4, <2>5, <2>6, <3>3 DEF After
  <2> QED BY <2>8, <2>9
<1> QED BY <1>0, <1>1, <1>2, <1>3

LEMMA RecordRead ==
  ASSUME NEW t \in Streams \cup {"end"}, NEW c \in Nat, NEW l \in Nat, NEW e, c = 0 => l = 0 /\ t \in Streams,
         NEW q \in Peers, AtRest(q), \A s \in Streams : q.got[s] = Tokens(s, 0, Len(q.got[s])),
         NEW w, IsRecord(w, t, c, l, IF t = "end" THEN 0 ELSE Len(q.got[t]), e)
  PROVE  \A k \in 0 .. Len(w) : After(ReceiveAll(q, SubSeq(w, 1, k)), q, t, c, l, e, k)
<1> DEFINE P(k) == After(ReceiveAll(q, SubSeq(w, 1, k)), q, t, c, l, e, k)
           T == {k \in Nat : k <= Len(w) => P(k)}
<1>0. HeaderLen \in Nat \ {0} /\ w \in Seq(Bytes) /\ Len(w) = HeaderLen + c + l /\ Len(w) \in Nat
  BY LengthsAssumption DEF IsRecord
<1>1. 0 \in T
  <2>1. ReceiveAll(q, SubSeq(w, 1, 0)) = q
    <3>1. SubSeq(w, 1, 0) = <<>>
      BY <1>0
    <3> QED BY <3>1, ReceiveNone
  <2>2. \A s \in Streams : Len(q.got[s]) \in Nat
    BY DEF Peers
  <2>3. ReadOf(0, c) = 0 /\ ~(0 = HeaderLen)
    BY <1>0 DEF ReadOf
  <2>4. ~(t = "end" /\ 0 >= HeaderLen + c)
    BY <1>0
  <2>5. \A s \in Streams : q.got[s] = Tokens(s, 0, Len(q.got[s]) + 0)
    BY <2>2
  <2>6. P(0)
    BY <2>1, <2>3, <2>4, <2>5 DEF After, GotAt, EndedAt, EofAt, PlaceAt
  <2> QED BY <2>6
<1>2. ASSUME NEW k \in T PROVE k + 1 \in T
  <2> SUFFICES ASSUME k + 1 <= Len(w) PROVE P(k + 1)
    OBVIOUS
  <2>1. P(k) /\ k \in 0 .. Len(w) - 1 /\ k \in 0 .. HeaderLen + c + l - 1
    BY <1>0
  <2>2. ReceiveAll(q, SubSeq(w, 1, k + 1)) = Receive(ReceiveAll(q, SubSeq(w, 1, k)), w[k + 1])
    BY <1>0, <2>1, ReceiveOneMore
  <2>3. After(Receive(ReceiveAll(q, SubSeq(w, 1, k)), w[k + 1]), q, t, c, l, e, k + 1)
    BY <2>1, RecordStep
  <2> QED BY <2>2, <2>3
<1>3. T = Nat
  <2> HIDE DEF T
  <2>1. T \subseteq Nat
    BY DEF T
  <2> QED BY <1>1, <1>2, <2>1, Induction
<1> QED BY <1>0, <1>3

-----------------------------------------------------------------------------
(* Whatever it is sent, the parser keeps what it got.                       *)

Sensible(p) == p \in Peers /\ (p.head = HeaderLen => p.clen + p.plen > 0)

LEMMA RecordEndsSensibly ==
  ASSUME NEW p \in Peers
  PROVE  Sensible(EndOfRecord(p)) /\ Grows(p, EndOfRecord(p))
<1> DEFINE r == EndOfRecord(p)
<1>0. /\ p.head \in 0 .. HeaderLen /\ p.clen \in Nat /\ p.plen \in Nat /\ Len(p.ended) \in Nat
      /\ (\A s \in Streams : Len(p.got[s]) \in Nat) /\ HeaderLen \in Nat \ {0}
  BY PeersTyped, LengthsAssumption
<1>1. r \in Peers /\ r.got = p.got /\ r.ended = p.ended
  BY RecordEnds
<1>2. p.eof \subseteq r.eof /\ (r.head = HeaderLen => r.clen + r.plen > 0)
  <2>1. CASE p.head < HeaderLen \/ p.clen + p.plen > 0
    <3>1. r = p
      BY <2>1, RecordEnds
    <3> QED BY <1>0, <2>1, <3>1
  <2>2. CASE ~(p.head < HeaderLen \/ p.clen + p.plen > 0)
    <3>1. r = [p EXCEPT !.head = 0, !.eof = IF p.empty /\ p.type \in Streams THEN @ \cup {p.type} ELSE @]
      BY <2>2 DEF EndOfRecord
    <3>2. r.head = 0 /\ p.eof \subseteq r.eof
      BY <3>1 DEF Peers
    <3> QED BY <1>0, <3>2
  <2> QED BY <2>1, <2>2
<1> HIDE DEF r
<1>3. Grows(p, r)
  BY <1>0, <1>1, <1>2 DEF Grows
<1> QED BY <1>1, <1>2, <1>3 DEF Sensible, r

LEMMA GrowsOn ==
  ASSUME NEW p \in Peers, NEW q \in Peers, NEW r \in Peers, Grows(p, q), Grows(q, r)
  PROVE  Grows(p, r)
<1>1. \A s \in Streams : Len(p.got[s]) \in Nat /\ Len(q.got[s]) \in Nat /\ Len(r.got[s]) \in Nat
  BY PeersTyped
<1>2. Len(p.ended) \in Nat /\ Len(q.ended) \in Nat /\ Len(r.ended) \in Nat
  BY PeersTyped
<1>3. ASSUME NEW s \in Streams PROVE Len(p.got[s]) <= Len(r.got[s])
  <2>1. Len(p.got[s]) <= Len(q.got[s]) /\ Len(q.got[s]) <= Len(r.got[s])
    BY DEF Grows
  <2> QED BY <1>1, <2>1
<1>4. p.eof \subseteq r.eof /\ Len(p.ended) <= Len(r.ended)
  BY <1>2 DEF Grows
<1> QED BY <1>3, <1>4 DEF Grows

LEMMA ReceiveTyped ==
  ASSUME NEW p, Sensible(p), NEW b \in Bytes
  PROVE  Sensible(Receive(p, b)) /\ Grows(p, Receive(p, b))
<1>0. /\ p \in Peers /\ p.head \in 0 .. HeaderLen /\ p.clen \in Nat /\ p.plen \in Nat /\ HeaderLen \in Nat \ {0}
      /\ p.got \in [Streams -> Seq(Bytes)] /\ p.ended \in Seq(Values) /\ p.garbage \in BOOLEAN
      /\ (p.head = HeaderLen => p.clen + p.plen > 0)
  BY LengthsAssumption DEF Peers, Sensible
<1>a. \A s \in Streams : Len(p.got[s]) \in Nat /\ p.got[s] \in Seq(Bytes)
  BY <1>0
<1>1. ASSUME NEW m \in Peers, Receive(p, b) = EndOfRecord(m), Grows(p, m) PROVE Sensible(Receive(p, b)) /\ Grows(p, Receive(p, b))
  <2>1. Sensible(EndOfRecord(m)) /\ Grows(m, EndOfRecord(m))
    BY RecordEndsSensibly
  <2> QED BY <1>0, <1>1, <2>1, GrowsOn DEF Sensible
<1>2. CASE p.garbage
  <2>1. Receive(p, b) = p
    BY <1>2, Zenon DEF Receive
  <2>2. Grows(p, p)
    BY <1>0, <1>a DEF Grows
  <2> QED BY <2>1, <2>2
<1>3. CASE ~p.garbage /\ p.head < HeaderLen /\ b[1] = "header"
  <2>1. PICK m \in Peers : Receive(p, b) = EndOfRecord(m) /\ SameData(m, p)
    BY <1>0, <1>3, HeaderByte
  <2>2. Grows(p, m)
    BY <1>0, <1>a, <2>1 DEF Grows, SameData
  <2> QED BY <1>1, <2>1, <2>2
<1>4. CASE ~p.garbage /\ p.head < HeaderLen /\ b[1] # "header"
  <2> DEFINE r == [p EXCEPT !.garbage = TRUE]
  <2>1. Receive(p, b) = r
    <3>1. p.head # HeaderLen
      BY <1>0, <1>4
    <3> QED BY <1>4, <3>1, Zenon DEF Receive
  <2>2. r \in Peers
    BY <1>0, PeerFields
  <2>3. r.head = p.head /\ r.got = p.got /\ r.eof = p.eof /\ r.ended = p.ended
    BY <1>0 DEF Peers
  <2> HIDE DEF r
  <2>4. Grows(p, r)
    BY <1>0, <1>a, <2>3 DEF Grows
  <2> QED BY <1>0, <1>4, <2>1, <2>2, <2>3, <2>4 DEF Sensible
<1>5. CASE ~p.garbage /\ p.head = HeaderLen /\ p.clen > 0
  <2>1. PICK m \in Peers :
           /\ Receive(p, b) = EndOfRecord(m)
           /\ m.eof = p.eof
           /\ \A s \in Streams : m.got[s] = IF s = p.type THEN Append(p.got[s], b) ELSE p.got[s]
           /\ m.ended = IF p.type = "end" /\ p.clen = 1 THEN Append(p.ended, b[2]) ELSE p.ended
    BY <1>0, <1>5, ContentByte
  <2>2. ASSUME NEW s \in Streams PROVE Len(p.got[s]) <= Len(m.got[s])
    <3> DEFINE g == p.got[s]
    <3>1. g \in Seq(Bytes) /\ Len(g) \in Nat /\ (m.got[s] = g \/ m.got[s] = Append(g, b))
      BY <1>a, <2>1
    <3> HIDE DEF g
    <3>2. Len(Append(g, b)) = Len(g) + 1
      BY <3>1
    <3> QED BY <3>1, <3>2 DEF g
  <2>3. Len(p.ended) <= Len(m.ended)
    <3>1. b[2] \in Values
      BY HeaderBytes
    <3> QED BY <1>0, <2>1, <3>1
  <2>4. Grows(p, m)
    BY <2>1, <2>2, <2>3 DEF Grows
  <2> QED BY <1>1, <2>1, <2>4
<1>6. CASE ~p.garbage /\ p.head = HeaderLen /\ p.clen = 0
  <2>1. PICK m \in Peers : Receive(p, b) = EndOfRecord(m) /\ SameData(m, p)
    BY <1>0, <1>6, PaddingByte
  <2>2. Grows(p, m)
    BY <1>0, <1>a, <2>1 DEF Grows, SameData
  <2> QED BY <1>1, <2>1, <2>2
<1> QED BY <1>0, <1>2, <1>3, <1>4, <1>5, <1>6

LEMMA ReceiveAllTyped ==
  ASSUME NEW p, Sensible(p), NEW w \in Seq(Bytes)
  PROVE  Sensible(ReceiveAll(p, w)) /\ Grows(p, ReceiveAll(p, w))
<1> DEFINE q(k) == ReceiveAll(p, SubSeq(w, 1, k))
           P(k) == Sensible(q(k)) /\ Grows(p, q(k))
           T == {k \in Nat : k <= Len(w) => P(k)}
<1>0. Len(w) \in Nat
  OBVIOUS
<1>1. 0 \in T
  <2>1. SubSeq(w, 1, 0) = <<>>
    OBVIOUS
  <2>2. q(0) = p
    BY <2>1, ReceiveNone
  <2>3. Grows(p, p)
    <3>1. \A s \in Streams : Len(p.got[s]) \in Nat
      BY PeersTyped DEF Sensible
    <3>2. Len(p.ended) \in Nat
      BY PeersTyped DEF Sensible
    <3> QED BY <3>1, <3>2 DEF Grows
  <2> HIDE DEF q
  <2> QED BY <2>2, <2>3
<1>2. ASSUME NEW k \in T PROVE k + 1 \in T
  <2> SUFFICES ASSUME k + 1 <= Len(w) PROVE P(k + 1)
    OBVIOUS
  <2>1. P(k) /\ k \in 0 .. Len(w) - 1 /\ w[k + 1] \in Bytes
    BY <1>0
  <2>2. q(k + 1) = Receive(q(k), w[k + 1])
    BY <2>1, ReceiveOneMore
  <2> HIDE DEF q
  <2>3. Sensible(q(k + 1)) /\ Grows(q(k), q(k + 1)) /\ Sensible(q(k))
    BY <2>1, <2>2, ReceiveTyped
  <2>4. Grows(p, q(k + 1))
    BY <2>1, <2>3, GrowsOn DEF Sensible
  <2> QED BY <2>3, <2>4
<1>3. T = Nat
  <2> HIDE DEF T
  <2>1. T \subseteq Nat
    BY DEF T
  <2> QED BY <1>1, <1>2, <2>1, Induction
<1>4. P(Len(w))
  BY <1>0, <1>3
<1>5. SubSeq(w, 1, Len(w)) = w
  BY SubSeqFull
<1> QED BY <1>4, <1>5

-----------------------------------------------------------------------------
(* What the web server may have at any moment, n bytes having been written  *)
(* to each stream; and has, whatever part of w reaches the parser p.        *)

Good(q, n, a) ==
  /\ \A s \in Streams : /\ Len(q.got[s]) <= n[s] /\ q.got[s] = Tokens(s, 0, Len(q.got[s]))
                        /\ s \in q.eof => Len(q.got[s]) = n[s]
  /\ q.ended \in {<<>>, <<a>>}
  /\ q.ended # <<>> => "out" \in q.eof /\ \A s \in Streams : n[s] > 0 => s \in q.eof
Heard(p, w, n, a) == \A k \in 0 .. Len(w) : Good(ReceiveAll(p, SubSeq(w, 1, k)), n, a)

LEMMA HeardConcat ==
  ASSUME NEW p, NEW v \in Seq(Bytes), NEW w \in Seq(Bytes), NEW n, NEW a
  PROVE  Heard(p, v \o w, n, a) <=> Heard(p, v, n, a) /\ Heard(ReceiveAll(p, v), w, n, a)
<1> DEFINE vw == v \o w
           q(k) == ReceiveAll(p, SubSeq(vw, 1, k))
<1>0. Len(v) \in Nat /\ Len(w) \in Nat /\ Len(vw) = Len(v) + Len(w)
  BY ConcatProperties
<1>1. ASSUME NEW k \in 0 .. Len(v) PROVE k \in 0 .. Len(vw) /\ q(k) = ReceiveAll(p, SubSeq(v, 1, k))
  <2>1. k \in 0 .. Len(v) + Len(w) /\ k <= Len(v)
    BY <1>0
  <2>2. SubSeq(vw, 1, k) = SubSeq(v, 1, k)
    BY <2>1, PrefixOfConcat
  <2> QED BY <1>0, <2>1, <2>2
<1>2. ASSUME NEW k \in 0 .. Len(w)
      PROVE  Len(v) + k \in 0 .. Len(vw) /\ q(Len(v) + k) = ReceiveAll(ReceiveAll(p, v), SubSeq(w, 1, k))
  <2> DEFINE j == Len(v) + k
  <2>1. j \in 0 .. Len(v) + Len(w) /\ j >= Len(v) /\ j - Len(v) = k
    BY <1>0
  <2> HIDE DEF j
  <2>2. SubSeq(vw, 1, j) = v \o SubSeq(w, 1, k)
    BY <2>1, PrefixOfConcat
  <2>3. SubSeq(w, 1, k) \in Seq(Bytes)
    OBVIOUS
  <2> DEFINE u == SubSeq(w, 1, k)
  <2> HIDE DEF u
  <2>4. ReceiveAll(p, v \o u) = ReceiveAll(ReceiveAll(p, v), u)
    <3>1. u \in Seq(Bytes)
      BY <2>3 DEF u
    <3> QED BY <3>1, ReceiveConcat
  <2> QED BY <1>0, <2>1, <2>2, <2>4 DEF j, u
<1> HIDE DEF q, vw
<1>3. Heard(p, vw, n, a) <=> \A k \in 0 .. Len(vw) : Good(q(k), n, a)
  BY Zenon DEF Heard, q
<1>4. ASSUME \A k \in 0 .. Len(vw) : Good(q(k), n, a) PROVE Heard(p, v, n, a) /\ Heard(ReceiveAll(p, v), w, n, a)
  BY <1>1, <1>2, <1>4, Zenon DEF Heard
<1>5. ASSUME Heard(p, v, n, a), Heard(ReceiveAll(p, v), w, n, a), NEW k \in 0 .. Len(vw) PROVE Good(q(k), n, a)
  <2>1. CASE k <= Len(v)
    <3>1. k \in 0 .. Len(v)
      BY <1>0, <2>1
    <3> QED BY <1>1, <1>5, <3>1, Zenon DEF Heard
  <2>2. CASE ~(k <= Len(v))
    <3>1. k - Len(v) \in 0 .. Len(w) /\ Len(v) + (k - Len(v)) = k
      BY <1>0, <2>2
    <3>2. q(Len(v) + (k - Len(v))) = ReceiveAll(ReceiveAll(p, v), SubSeq(w, 1, k - Len(v)))
      BY <1>2, <3>1
    <3> QED BY <1>5, <3>1, <3>2 DEF Heard
  <2> QED BY <2>1, <2>2
<1> QED BY <1>3, <1>4, <1>5 DEF vw

(* The three kinds of records a stream is flushed as.                       *)
Padding(n) == AlignInt8(n) - n
Record(s, g, n) ==
  IF n = 0 THEN <<>>
  ELSE Header(s, n, Padding(n)) \o Tokens(s, g, n) \o Repeat(Padding(n), <<"pad">>)

LEMMA PaddingTyped == \A n \in Nat : Padding(n) \in Nat /\ AlignInt8(n) = n + Padding(n)
<1> SUFFICES ASSUME NEW n \in Nat PROVE AlignInt8(n) \in Nat /\ AlignInt8(n) >= n
  BY DEF Padding
<1> DEFINE h == HeaderLen
           q == (n + h - 1) \div h
<1>1. h \in Nat /\ h > 0
  BY LengthsAssumption
<1>2. AlignInt8(n) = q * h
  BY DEF AlignInt8
<1>3. q \in Nat /\ n <= h * q
  BY <1>1
<1> HIDE DEF h, q
<1>4. q * h = h * q /\ h * q \in Nat
  BY <1>1, <1>3
<1> QED BY <1>2, <1>3, <1>4

LEMMA ThreeParts ==
  ASSUME NEW a \in Seq(Bytes), NEW b \in Seq(Bytes), NEW d \in Seq(Bytes)
  PROVE  /\ a \o b \o d \in Seq(Bytes) /\ Len(a \o b \o d) = Len(a) + Len(b) + Len(d)
         /\ \A i \in 1 .. Len(a) : (a \o b \o d)[i] = a[i]
         /\ \A i \in 1 .. Len(b) : (a \o b \o d)[Len(a) + i] = b[i]
<1> DEFINE ab == a \o b
           w == ab \o d
<1>1. /\ ab \in Seq(Bytes) /\ Len(ab) = Len(a) + Len(b) /\ Len(a) \in Nat /\ Len(b) \in Nat /\ Len(d) \in Nat
      /\ \A i \in 1 .. Len(a) + Len(b) : ab[i] = IF i <= Len(a) THEN a[i] ELSE b[i - Len(a)]
  BY ConcatProperties
<1> HIDE DEF ab
<1>a. ab \in Seq(Bytes)
  BY <1>1
<1> HIDE DEF w
<1>2. /\ w \in Seq(Bytes) /\ Len(w) = Len(ab) + Len(d)
      /\ \A i \in 1 .. Len(ab) + Len(d) : w[i] = IF i <= Len(ab) THEN ab[i] ELSE d[i - Len(ab)]
  BY <1>a, ConcatProperties, Zenon DEF w
<1>3. ASSUME NEW i \in 1 .. Len(a) PROVE w[i] = a[i]
  <2>1. i \in 1 .. Len(ab) + Len(d) /\ i <= Len(ab) /\ i \in 1 .. Len(a) + Len(b) /\ i <= Len(a)
    BY <1>1
  <2> QED BY <1>1, <1>2, <2>1, Zenon
<1>4. ASSUME NEW i \in 1 .. Len(b) PROVE w[Len(a) + i] = b[i]
  <2> DEFINE j == Len(a) + i
  <2>1. j \in 1 .. Len(ab) + Len(d) /\ j <= Len(ab) /\ j \in 1 .. Len(a) + Len(b) /\ ~(j <= Len(a)) /\ j - Len(a) = i
    BY <1>1
  <2> HIDE DEF j
  <2>2. w[j] = ab[j] /\ ab[j] = b[j - Len(a)]
    BY <1>1, <1>2, <2>1, Zenon
  <2> QED BY <2>1, <2>2 DEF j
<1>5. a \o b \o d = w
  BY DEF ab, w
<1> QED BY <1>1, <1>2, <1>3, <1>4, <1>5

LEMMA StreamRecord ==
  ASSUME NEW s \in Streams, NEW g \in Nat, NEW n \in Nat
  PROVE  Record(s, g, n) \in Seq(Bytes) /\ (n # 0 => IsRecord(Record(s, g, n), s, n, Padding(n), g, 0))
<1>1. CASE n = 0
  <2>1. Record(s, g, n) = <<>>
    BY <1>1 DEF Record
  <2>2. <<>> \in Seq(Bytes)
    OBVIOUS
  <2> QED BY <1>1, <2>1, <2>2, Zenon
<1>2. CASE n # 0
  <2> DEFINE a == Header(s, n, Padding(n))
             b == Tokens(s, g, n)
             d == Repeat(Padding(n), <<"pad">>)
  <2>1. Record(s, g, n) = a \o b \o d
    BY <1>2 DEF Record
  <2>2. Padding(n) \in Nat
    BY PaddingTyped
  <2>3. a \in Seq(Bytes) /\ Len(a) = HeaderLen /\ \A i \in 1 .. HeaderLen : a[i] = <<"header", s, n, Padding(n)>>
    <3>1. \A i \in 1 .. HeaderLen : a[i] = <<"header", s, n, Padding(n)>>
      BY Zenon DEF Header, Repeat
    <3> QED BY <2>2, <3>1, BytesTyped
  <2>4. b \in Seq(Bytes) /\ Len(b) = n /\ \A i \in 1 .. n : b[i] = <<s, g + i>>
    BY TokensTyped
  <2>5. d \in Seq(Bytes) /\ Len(d) = Padding(n)
    <3>1. <<"pad">> \in Bytes
      BY DEF Bytes
    <3> QED BY <2>2, <3>1, BytesTyped
  <2> HIDE DEF a, b, d
  <2>6. s # "end"
    BY DEF Streams
  <2>7. /\ a \o b \o d \in Seq(Bytes) /\ Len(a \o b \o d) = HeaderLen + n + Padding(n)
        /\ \A i \in 1 .. HeaderLen : (a \o b \o d)[i] = a[i]
        /\ \A i \in 1 .. n : (a \o b \o d)[HeaderLen + i] = b[i]
    <3>1. /\ a \o b \o d \in Seq(Bytes) /\ Len(a \o b \o d) = Len(a) + Len(b) + Len(d)
          /\ \A i \in 1 .. Len(a) : (a \o b \o d)[i] = a[i]
          /\ \A i \in 1 .. Len(b) : (a \o b \o d)[Len(a) + i] = b[i]
      BY <2>3, <2>4, <2>5, ThreeParts, Zenon
    <3> QED BY <2>3, <2>4, <2>5, <3>1, Zenon
  <2> DEFINE w == a \o b \o d
  <2> HIDE DEF w
  <2>8. /\ w \in Seq(Bytes) /\ Len(w) = HeaderLen + n + Padding(n)
        /\ \A i \in 1 .. HeaderLen : w[i] = <<"header", s, n, Padding(n)>>
        /\ \A i \in 1 .. n : w[HeaderLen + i] = <<s, g + i>>
    BY <2>3, <2>4, <2>7 DEF w
  <2>9. Record(s, g, n) = w
    BY <2>1 DEF w
  <2> QED BY <2>6, <2>8, <2>9, Zenon DEF IsRecord
<1> QED BY <1>1, <1>2

LEMMA CloseRecord ==
  ASSUME NEW s \in Streams, NEW g
  PROVE  Header(s, 0, 0) \in Seq(Bytes) /\ IsRecord(Header(s, 0, 0), s, 0, 0, g, 0)
<1>1. Header(s, 0, 0) \in Seq(Bytes) /\ Len(Header(s, 0, 0)) = HeaderLen
  BY BytesTyped
<1>2. \A i \in 1 .. HeaderLen : Header(s, 0, 0)[i] = <<"header", s, 0, 0>>
  BY Zenon DEF Header, Repeat
<1>3. HeaderLen \in Nat
  BY LengthsAssumption
<1> QED BY <1>1, <1>2, <1>3 DEF IsRecord

LEMMA EndRecord ==
  ASSUME NEW a \in Statuses \cup {0}
  PROVE  EndRequest(a) \in Seq(Bytes) /\ IsRecord(EndRequest(a), "end", HeaderLen, 0, 0, a)
<1> DEFINE h == Header("end", HeaderLen, 0)
           b == Repeat(HeaderLen, <<"status", a>>)
           n == <<>>
<1>1. HeaderLen \in Nat
  BY LengthsAssumption
<1>2. h \in Seq(Bytes) /\ Len(h) = HeaderLen /\ \A i \in 1 .. HeaderLen : h[i] = <<"header", "end", HeaderLen, 0>>
  <2>1. \A i \in 1 .. HeaderLen : h[i] = <<"header", "end", HeaderLen, 0>>
    BY Zenon DEF Header, Repeat
  <2> QED BY <1>1, <2>1, BytesTyped
<1>3. b \in Seq(Bytes) /\ Len(b) = HeaderLen /\ \A i \in 1 .. HeaderLen : b[i] = <<"status", a>>
  <2>1. \A i \in 1 .. HeaderLen : b[i] = <<"status", a>>
    BY Zenon DEF Repeat
  <2>2. <<"status", a>> \in Bytes
    BY DEF Bytes
  <2> QED BY <1>1, <2>1, <2>2, BytesTyped
<1>4. EndRequest(a) = h \o b
  BY DEF EndRequest
<1> HIDE DEF h, b
<1>5. n \in Seq(Bytes) /\ Len(n) = 0 /\ h \o b \in Seq(Bytes) /\ (h \o b) \o n = h \o b
  BY <1>2, <1>3
<1> HIDE DEF n
<1>6. /\ Len(h \o b) = HeaderLen + HeaderLen + 0
      /\ \A i \in 1 .. HeaderLen : (h \o b)[i] = h[i]
      /\ \A i \in 1 .. HeaderLen : (h \o b)[HeaderLen + i] = b[i]
  <2>0. h \in Seq(Bytes) /\ b \in Seq(Bytes) /\ n \in Seq(Bytes)
    BY <1>2, <1>3, <1>5
  <2>1. /\ Len(h \o b \o n) = Len(h) + Len(b) + Len(n)
        /\ \A i \in 1 .. Len(h) : (h \o b \o n)[i] = h[i]
        /\ \A i \in 1 .. Len(b) : (h \o b \o n)[Len(h) + i] = b[i]
    BY <2>0, ThreeParts
  <2>2. /\ Len(h \o b \o n) = HeaderLen + HeaderLen + 0
        /\ \A i \in 1 .. HeaderLen : (h \o b \o n)[i] = h[i]
        /\ \A i \in 1 .. HeaderLen : (h \o b \o n)[HeaderLen + i] = b[i]
    BY <1>2, <1>3, <1>5, <2>1, Zenon
  <2> QED BY <1>5, <2>2, Zenon
<1> QED BY <1>2, <1>3, <1>4, <1>5, <1>6 DEF IsRecord

(* The parser of a response that has not ended, between two records.       *)
Fresh(q, n) ==
  /\ q \in Peers /\ AtRest(q) /\ q.ended = <<>>
  /\ \A s \in Streams : /\ Len(q.got[s]) <= n[s] /\ q.got[s] = Tokens(s, 0, Len(q.got[s]))
                        /\ s \in q.eof => Len(q.got[s]) = n[s]

(* What it has become, r, at the end of a record.                          *)
HasRead(q, r, n, s, m) ==
  /\ Fresh(r, n) /\ r.eof = q.eof
  /\ \A t \in Streams : Len(r.got[t]) = IF t = s THEN Len(q.got[s]) + m ELSE Len(q.got[t])
HasClosed(q, r, n, s) == Fresh(r, n) /\ r.eof = q.eof \cup {s} /\ \A t \in Streams : Len(r.got[t]) = Len(q.got[t])
HasEnded(q, r, a) ==
  r \in Peers /\ AtRest(r) /\ r.ended = <<a>> /\ r.eof = q.eof /\ \A t \in Streams : r.got[t] = q.got[t]

LEMMA RecordHeard ==
  ASSUME NEW n \in [Streams -> Nat], NEW a, NEW q, Fresh(q, n), NEW s \in Streams, NEW m \in Nat,
         Len(q.got[s]) + m <= n[s], s \notin q.eof
  PROVE  /\ Heard(q, Record(s, Len(q.got[s]), m), n, a)
         /\ HasRead(q, ReceiveAll(q, Record(s, Len(q.got[s]), m)), n, s, m)
<1> DEFINE g == Len(q.got[s])
           w == Record(s, g, m)
           r(k) == ReceiveAll(q, SubSeq(w, 1, k))
<1>0. /\ q \in Peers /\ AtRest(q) /\ q.ended = <<>> /\ g \in Nat /\ HeaderLen \in Nat \ {0}
      /\ \A t \in Streams : /\ Len(q.got[t]) <= n[t] /\ q.got[t] = Tokens(t, 0, Len(q.got[t]))
                            /\ (t \in q.eof => Len(q.got[t]) = n[t]) /\ Len(q.got[t]) \in Nat
  BY PeersTyped, LengthsAssumption DEF Fresh
<1>1. CASE m = 0
  <2>1. w = <<>> /\ Len(w) = 0 /\ SubSeq(w, 1, 0) = <<>>
    BY <1>1 DEF Record
  <2>2. ReceiveAll(q, <<>>) = q
    BY ReceiveNone
  <2>3. Good(q, n, a)
    BY <1>0 DEF Good
  <2>4. Heard(q, w, n, a)
    <3>1. \A k \in 0 .. Len(w) : k = 0
      BY <2>1
    <3>2. ReceiveAll(q, SubSeq(w, 1, 0)) = q
      BY <2>1, <2>2
    <3> HIDE DEF w
    <3> QED BY <2>3, <3>1, <3>2, Zenon DEF Heard
  <2>5. HasRead(q, q, n, s, m)
    BY <1>0, <1>1 DEF HasRead
  <2> QED BY <2>1, <2>2, <2>4, <2>5, Zenon
<1>2. CASE m # 0
  <2>1. w \in Seq(Bytes) /\ IsRecord(w, s, m, Padding(m), g, 0) /\ Padding(m) \in Nat /\ s # "end"
    BY <1>0, <1>2, StreamRecord, PaddingTyped DEF Streams
  <2>2. Len(w) = HeaderLen + m + Padding(m) /\ Len(w) \in Nat /\ SubSeq(w, 1, Len(w)) = w
    BY <2>1, SubSeqFull DEF IsRecord
  <2> HIDE DEF w
  <2>3. \A k \in 0 .. Len(w) : After(ReceiveAll(q, SubSeq(w, 1, k)), q, s, m, Padding(m), 0, k)
    BY <1>0, <1>2, <2>1, RecordRead
  <2>4. ASSUME NEW k \in 0 .. Len(w)
        PROVE  /\ r(k) \in Peers /\ r(k).ended = <<>> /\ r(k).eof = q.eof
               /\ \A t \in Streams : /\ r(k).got[t] = Tokens(t, 0, Len(r(k).got[t])) /\ Len(r(k).got[t]) <= n[t]
                                     /\ Len(r(k).got[t]) = IF t = s THEN g + ReadOf(k, m) ELSE Len(q.got[t])
               /\ k = Len(w) => AtRest(r(k))
    <3>1. After(r(k), q, s, m, Padding(m), 0, k)
      BY <2>3
    <3> HIDE DEF r, g
    <3>2. r(k) \in Peers /\ r(k).ended = <<>> /\ r(k).eof = q.eof
      BY <1>0, <1>2, <2>1, <3>1 DEF After, EndedAt, EofAt
    <3>3. k = Len(w) => AtRest(r(k))
      BY <2>2, <3>1 DEF After, PlaceAt
    <3>4. ReadOf(k, m) \in Nat /\ ReadOf(k, m) <= m
      BY <1>0 DEF ReadOf
    <3>5. ASSUME NEW t \in Streams
          PROVE  /\ r(k).got[t] = Tokens(t, 0, Len(r(k).got[t])) /\ Len(r(k).got[t]) <= n[t]
                 /\ Len(r(k).got[t]) = IF t = s THEN g + ReadOf(k, m) ELSE Len(q.got[t])
      <4>1. CASE t = s
        <5>1. r(k).got[t] = Tokens(t, 0, g + ReadOf(k, m))
          BY <3>1, <4>1 DEF After, GotAt, g
        <5>2. g + ReadOf(k, m) \in Nat /\ g + ReadOf(k, m) <= n[t]
          BY <1>0, <3>4, <4>1 DEF g
        <5>3. Len(Tokens(t, 0, g + ReadOf(k, m))) = g + ReadOf(k, m)
          BY <5>2, TokensTyped
        <5> QED BY <4>1, <5>1, <5>2, <5>3
      <4>2. CASE t # s
        <5>1. r(k).got[t] = q.got[t]
          BY <3>1, <4>2 DEF After, GotAt
        <5> QED BY <1>0, <4>2, <5>1
      <4> QED BY <4>1, <4>2
    <3> QED BY <3>2, <3>3, <3>5
  <2>5. r(Len(w)) = ReceiveAll(q, w)
    BY <2>2
  <2> HIDE DEF r, g
  <2>6. \A k \in 0 .. Len(w) : Good(r(k), n, a)
    <3> SUFFICES ASSUME NEW k \in 0 .. Len(w) PROVE Good(r(k), n, a)
      OBVIOUS
    <3>1. r(k).ended = <<>> /\ r(k).eof = q.eof
      BY <2>4
    <3>2. ASSUME NEW t \in Streams, t \in q.eof PROVE Len(r(k).got[t]) = n[t]
      BY <1>0, <2>4, <3>2
    <3> QED BY <2>4, <3>1, <3>2 DEF Good
  <2>7. Heard(q, w, n, a)
    BY <2>6 DEF Heard, r
  <2>8. ReadOf(Len(w), m) = m
    BY <1>0, <2>1, <2>2 DEF ReadOf
  <2>9. Len(w) \in 0 .. Len(w)
    BY <2>2
  <2> DEFINE z == r(Len(w))
  <2>10. /\ z \in Peers /\ z.ended = <<>> /\ z.eof = q.eof /\ AtRest(z)
         /\ \A t \in Streams : /\ z.got[t] = Tokens(t, 0, Len(z.got[t])) /\ Len(z.got[t]) <= n[t]
                               /\ Len(z.got[t]) = IF t = s THEN g + m ELSE Len(q.got[t])
    BY <2>4, <2>8, <2>9
  <2> HIDE DEF z
  <2>11. Fresh(z, n)
    <3>1. ASSUME NEW t \in Streams, t \in q.eof PROVE Len(z.got[t]) = n[t]
      BY <1>0, <2>10, <3>1
    <3> QED BY <2>10, <3>1 DEF Fresh
  <2>12. HasRead(q, z, n, s, m)
    BY <2>10, <2>11 DEF HasRead, g
  <2> QED BY <2>5, <2>7, <2>12, Zenon DEF z, w, g
<1> QED BY <1>1, <1>2

LEMMA CloseHeard ==
  ASSUME NEW n \in [Streams -> Nat], NEW a, NEW q, Fresh(q, n), NEW s \in Streams, Len(q.got[s]) = n[s]
  PROVE  Heard(q, Header(s, 0, 0), n, a) /\ HasClosed(q, ReceiveAll(q, Header(s, 0, 0)), n, s)
<1> DEFINE g == Len(q.got[s])
           w == Header(s, 0, 0)
           r(k) == ReceiveAll(q, SubSeq(w, 1, k))
<1>0. /\ q \in Peers /\ AtRest(q) /\ q.ended = <<>> /\ HeaderLen \in Nat \ {0}
      /\ \A t \in Streams : /\ Len(q.got[t]) <= n[t] /\ q.got[t] = Tokens(t, 0, Len(q.got[t]))
                            /\ (t \in q.eof => Len(q.got[t]) = n[t]) /\ Len(q.got[t]) \in Nat
  BY PeersTyped, LengthsAssumption DEF Fresh
<1>1. w \in Seq(Bytes) /\ IsRecord(w, s, 0, 0, g, 0) /\ s # "end"
  BY CloseRecord DEF Streams
<1>2. Len(w) = HeaderLen /\ Len(w) \in Nat /\ SubSeq(w, 1, Len(w)) = w
  BY <1>0, <1>1, SubSeqFull DEF IsRecord
<1> HIDE DEF w
<1>3. \A k \in 0 .. Len(w) : After(ReceiveAll(q, SubSeq(w, 1, k)), q, s, 0, 0, 0, k)
  BY <1>0, <1>1, RecordRead
<1>4. ASSUME NEW k \in 0 .. Len(w)
      PROVE  /\ r(k) \in Peers /\ r(k).ended = <<>> /\ r(k).eof \subseteq q.eof \cup {s}
             /\ \A t \in Streams : r(k).got[t] = q.got[t]
             /\ k = Len(w) => AtRest(r(k)) /\ r(k).eof = q.eof \cup {s}
  <2>1. After(r(k), q, s, 0, 0, 0, k)
    BY <1>3
  <2> HIDE DEF r
  <2>2. r(k) \in Peers /\ r(k).ended = <<>>
    BY <1>0, <1>1, <2>1 DEF After, EndedAt
  <2>3. r(k).eof \subseteq q.eof \cup {s} /\ (k = Len(w) => r(k).eof = q.eof \cup {s})
    BY <1>2, <2>1 DEF After, EofAt
  <2>4. k = Len(w) => AtRest(r(k))
    BY <1>2, <2>1 DEF After, PlaceAt
  <2>5. ReadOf(k, 0) = 0
    BY <1>0, <1>2 DEF ReadOf
  <2>6. ASSUME NEW t \in Streams PROVE r(k).got[t] = q.got[t]
    <3>1. r(k).got[t] = IF t = s THEN Tokens(t, 0, Len(q.got[t]) + 0) ELSE q.got[t]
      BY <2>1, <2>5 DEF After, GotAt
    <3> QED BY <1>0, <3>1
  <2> QED BY <2>2, <2>3, <2>4, <2>6
<1>5. r(Len(w)) = ReceiveAll(q, w) /\ Len(w) \in 0 .. Len(w)
  <2>1. Len(w) \in 0 .. Len(w)
    BY <1>2
  <2> QED BY <1>2, <2>1, Zenon
<1> HIDE DEF r
<1>6. Heard(q, w, n, a)
  <2> SUFFICES ASSUME NEW k \in 0 .. Len(w) PROVE Good(r(k), n, a)
    BY DEF Heard, r
  <2>1. ASSUME NEW t \in Streams, t \in r(k).eof PROVE Len(r(k).got[t]) = n[t]
    BY <1>0, <1>4, <2>1
  <2> QED BY <1>0, <1>4, <2>1 DEF Good
<1> DEFINE z == r(Len(w))
<1>7. /\ z \in Peers /\ z.ended = <<>> /\ z.eof = q.eof \cup {s} /\ AtRest(z) /\ \A t \in Streams : z.got[t] = q.got[t]
  BY <1>4, <1>5
<1> HIDE DEF z
<1>8. Fresh(z, n)
  BY <1>0, <1>7 DEF Fresh
<1>9. HasClosed(q, z, n, s)
  BY <1>7, <1>8 DEF HasClosed
<1> QED BY <1>5, <1>6, <1>9, Zenon DEF z, w

LEMMA EndHeard ==
  ASSUME NEW n \in [Streams -> Nat], NEW a \in Statuses \cup {0}, NEW q, Fresh(q, n), "out" \in q.eof,
         \A s \in Streams : n[s] > 0 => s \in q.eof
  PROVE  Heard(q, EndRequest(a), n, a) /\ HasEnded(q, ReceiveAll(q, EndRequest(a)), a)
<1> DEFINE w == EndRequest(a)
           r(k) == ReceiveAll(q, SubSeq(w, 1, k))
<1>0. /\ q \in Peers /\ AtRest(q) /\ q.ended = <<>> /\ HeaderLen \in Nat \ {0}
      /\ \A t \in Streams : /\ Len(q.got[t]) <= n[t] /\ q.got[t] = Tokens(t, 0, Len(q.got[t]))
                            /\ (t \in q.eof => Len(q.got[t]) = n[t]) /\ Len(q.got[t]) \in Nat
  BY PeersTyped, LengthsAssumption DEF Fresh
<1>1. w \in Seq(Bytes) /\ IsRecord(w, "end", HeaderLen, 0, 0, a) /\ \A t \in Streams : t # "end"
  BY EndRecord DEF Streams
<1>2. Len(w) = HeaderLen + HeaderLen /\ Len(w) \in Nat /\ SubSeq(w, 1, Len(w)) = w
  BY <1>0, <1>1, SubSeqFull DEF IsRecord
<1> HIDE DEF w
<1>3. \A k \in 0 .. Len(w) : After(ReceiveAll(q, SubSeq(w, 1, k)), q, "end", HeaderLen, 0, a, k)
  <2>1. 0 \in Nat /\ HeaderLen # 0 /\ HeaderLen \in Nat /\ "end" \in Streams \cup {"end"}
    BY <1>0
  <2> QED BY <1>0, <1>1, <2>1, RecordRead
<1>4. ASSUME NEW k \in 0 .. Len(w)
      PROVE  /\ r(k) \in Peers /\ r(k).ended \in {<<>>, <<a>>} /\ r(k).eof = q.eof
             /\ \A t \in Streams : r(k).got[t] = q.got[t]
             /\ k = Len(w) => AtRest(r(k)) /\ r(k).ended = <<a>>
  <2>1. After(r(k), q, "end", HeaderLen, 0, a, k)
    BY <1>3
  <2> HIDE DEF r
  <2>2. r(k) \in Peers /\ r(k).ended \in {<<>>, <<a>>} /\ (k = Len(w) => r(k).ended = <<a>>)
    BY <1>0, <1>2, <2>1 DEF After, EndedAt
  <2>3. r(k).eof = q.eof
    BY <1>0, <2>1 DEF After, EofAt
  <2>4. k = Len(w) => AtRest(r(k))
    <3>1. HeaderLen + HeaderLen + 0 = HeaderLen + HeaderLen
      BY <1>0
    <3> QED BY <1>2, <2>1, <3>1 DEF After, PlaceAt
  <2>5. ASSUME NEW t \in Streams PROVE r(k).got[t] = q.got[t]
    BY <1>1, <2>1 DEF After, GotAt
  <2> QED BY <2>2, <2>3, <2>4, <2>5
<1>5. r(Len(w)) = ReceiveAll(q, w) /\ Len(w) \in 0 .. Len(w)
  <2>1. Len(w) \in 0 .. Len(w)
    BY <1>2
  <2> QED BY <1>2, <2>1, Zenon
<1> HIDE DEF r
<1>6. Heard(q, w, n, a)
  <2> SUFFICES ASSUME NEW k \in 0 .. Len(w) PROVE Good(r(k), n, a)
    BY DEF Heard, r
  <2> QED BY <1>0, <1>4 DEF Good
<1> DEFINE z == r(Len(w))
<1>7. /\ z \in Peers /\ AtRest(z) /\ z.ended = <<a>> /\ z.eof = q.eof /\ \A t \in Streams : z.got[t] = q.got[t]
  BY <1>4, <1>5
<1> HIDE DEF z
<1>8. HasEnded(q, z, a)
  BY <1>7, Zenon DEF HasEnded
<1> QED BY <1>5, <1>6, <1>8, Zenon DEF z, w

-----------------------------------------------------------------------------
(* The calls in progress, t, from the innermost one to FCGX_Finish_r.       *)

Calling(t, op, s) == t # <<>> /\ Head(t).op = op /\ Head(t).s = s
AllBase(t) == \A i \in DOMAIN t : t[i].op \in Base

(* What is left of FCGX_FClose(s): nothing but to mark the stream closed,  *)
(* the last write, the close records' bytes b, or f, to be put, or all.    *)
AtClosed(s, t) == Calling(t, "closed", s) /\ AllBase(Tail(t))
LastWrite(s, t) == Calling(t, "write", s) /\ AtClosed(s, Tail(t))
OneLeft(s, t, f) ==
  \/ LastWrite(s, t) /\ f = <<>>
  \/ Calling(t, "put", s) /\ LastWrite(s, Tail(t)) /\ f = Head(t).bytes
PutsLeft(s, t, f) ==
  \/ OneLeft(s, t, f)
  \/ Calling(t, "put", s) /\ \E g \in Seq(Bytes) : OneLeft(s, Tail(t), g) /\ f = Head(t).bytes \o g
Closes(s, t) == Calling(t, "closeRecords", s) /\ LastWrite(s, Tail(t))

(* The application's own write to a stream, n having been written to each, *)
(* if there is more of it.                                                 *)
Rest(s, t, raw, n) ==
  \/ t = <<>>
  \/ /\ Calling(t, "put", s) /\ Tail(t) = <<>>
     /\ s \notin raw => Head(t).bytes = Tokens(s, n[s], Len(Head(t).bytes))
Flushes(s, t, raw, n) == Calling(t, "write", s) /\ Rest(s, Tail(t), raw, n)

(* No stream has got to its close records without being closed; or s has,  *)
(* with f still to be put into its buffer.                                 *)
Between(t, raw, closed, n) ==
  /\ raw \subseteq closed
  /\ \/ AllBase(t)
     \/ \E s \in Streams : Rest(s, t, raw, n)
     \/ \E s \in Streams \ raw :
          \/ Flushes(s, t, raw, n) \/ Closes(s, t)
          \/ Calling(t, "encapsulate", s) /\ (Flushes(s, Tail(t), raw, n) \/ Closes(s, Tail(t)))
Ending(s, f, t, raw, closed, b) ==
  /\ s \in raw \ closed /\ raw \ {s} \subseteq closed
  /\ \/ PutsLeft(s, t, f)
     \/ Calling(t, "write", s) /\ PutsLeft(s, Tail(t), f)
     \/ Calling(t, "encapsulate", s) /\ Calling(Tail(t), "write", s) /\ PutsLeft(s, Tail(Tail(t)), f)
     \/ AtClosed(s, t) /\ f = <<>> /\ b[s] = <<>>

(* The streams whose buffers, b, hold a record; what they hold, if the     *)
(* parser has become q with all that was flushed.                          *)
Encapsulated(t) == {s \in Streams : Calling(t, "write", s) \/ Calling(t, "closeRecords", s)}
RawAt(s, q, n) == Len(q.got[s]) = n[s] /\ (s = "out" \/ n[s] > 0 => s \in q.eof)
BufferAt(s, q, n, written, b, full1) ==
  /\ s \notin q.eof /\ (s \notin written => Len(q.got[s]) = 0)
  /\ b[s] = IF s \in full1 THEN Record(s, Len(q.got[s]), n[s] - Len(q.got[s]))
            ELSE Unset \o Tokens(s, Len(q.got[s]), n[s] - Len(q.got[s]))
StreamAt(s, q, n, raw, written, b, full1) ==
  /\ Len(q.got[s]) <= n[s] /\ q.got[s] = Tokens(s, 0, Len(q.got[s]))
  /\ IF s \in raw THEN RawAt(s, q, n) ELSE BufferAt(s, q, n, written, b, full1)
Settled(q, n, raw, written, b, full1, left) ==
  /\ q \in Peers /\ AtRest(q) /\ (q.ended = <<>> <=> left > 0)
  /\ \A s \in Streams : StreamAt(s, q, n, raw, written, b, full1)

SettledNow(q) == Settled(q, accepted, rawWrite, isAnythingWritten, buf, Encapsulated(todo), nWriters)
BetweenNow == Between(todo, rawWrite, wasFCloseCalled, accepted) /\ SettledNow(peer)
EndingNow(s, f) ==
  /\ Ending(s, f, todo, rawWrite, wasFCloseCalled, buf)
  /\ SettledNow(ReceiveAll(peer, buf[s] \o f)) /\ Heard(peer, buf[s] \o f, accepted, appStatus)
Sound ==
  /\ isClosed = wasFCloseCalled /\ wasFCloseCalled \subseteq rawWrite
  /\ BetweenNow \/ \E s \in Streams : \E f \in Seq(Bytes) : EndingNow(s, f)

(* FCGX_Finish_r frees the request when it has closed both streams.        *)
Freed(t, closed) ==
  \A i \in DOMAIN t : t[i].op = "free" =>
    \A s \in Streams : s \in closed \/ \E j \in DOMAIN t : t[j].s = s /\ t[j].op \in {"fclose", "closed"}

ResponseInv ==
  /\ Sensible(peer) /\ (todo # <<>> => conn = "open") /\ Freed(todo, wasFCloseCalled)
  /\ FCGI_errno = {} => Sound

LEMMA Pushed ==
  ASSUME NEW c \in Calls, NEW t \in Seq(Calls)
  PROVE  <<c>> \o t \in Seq(Calls) /\ <<c>> \o t # <<>> /\ Head(<<c>> \o t) = c /\ Tail(<<c>> \o t) = t
<1> DEFINE u == <<c>> \o t
<1>1. <<c>> \in Seq(Calls) /\ Len(<<c>>) = 1 /\ <<c>>[1] = c /\ Len(t) \in Nat
  OBVIOUS
<1>2. /\ u \in Seq(Calls) /\ Len(u) = 1 + Len(t)
      /\ \A i \in 1 .. 1 + Len(t) : u[i] = IF i <= 1 THEN <<c>>[i] ELSE t[i - 1]
  BY <1>1, ConcatProperties
<1> HIDE DEF u
<1>3. u # <<>> /\ Head(u) = u[1] /\ u[1] = c
  BY <1>1, <1>2
<1>4. Tail(u) \in Seq(Calls) /\ Len(Tail(u)) = Len(t) /\ \A i \in 1 .. Len(t) : Tail(u)[i] = u[i + 1]
  BY <1>1, <1>2, <1>3, HeadTailProperties
<1>5. \A i \in 1 .. Len(t) : Tail(u)[i] = t[i]
  <2> SUFFICES ASSUME NEW i \in 1 .. Len(t) PROVE Tail(u)[i] = t[i]
    OBVIOUS
  <2>1. i + 1 \in 1 .. 1 + Len(t) /\ ~(i + 1 <= 1) /\ (i + 1) - 1 = i
    BY <1>1
  <2> QED BY <1>2, <1>4, <2>1
<1>6. Tail(u) = t
  BY <1>4, <1>5, SeqEqual
<1> QED BY <1>2, <1>3, <1>6 DEF u

LEMMA PushedMore ==
  ASSUME NEW c \in Calls, NEW d \in Seq(Calls), NEW t \in Seq(Calls)
  PROVE  (<<c>> \o d) \o t = <<c>> \o (d \o t) /\ d \o t \in Seq(Calls)
<1>1. <<c>> \in Seq(Calls)
  OBVIOUS
<1>2. (<<c>> \o d) \o t = <<c>> \o (d \o t)
  BY <1>1, ConcatAssociative
<1> QED BY <1>2, ConcatProperties

(* The pieces of a call stack that the calls of this file push.            *)
LEMMA PushedCalls ==
  ASSUME NEW t \in Seq(Calls), NEW s \in Streams
  PROVE  /\ <<>> \o t = t
         /\ \A b \in Seq(Bytes) :
              LET u == PutStr(s, b) \o t
              IN  u \in Seq(Calls) /\ Calling(u, "put", s) /\ Head(u).bytes = b /\ Tail(u) = t
         /\ LET u == EmptyBuffProc(s) \o t
            IN  /\ u \in Seq(Calls) /\ Calling(u, "encapsulate", s)
                /\ Calling(Tail(u), "write", s) /\ Tail(Tail(u)) = t
         /\ LET u == (EmptyAndClose(s) \o <<Call("closed", s, <<>>)>>) \o t
            IN  /\ u \in Seq(Calls) /\ Calling(u, "encapsulate", s) /\ Calling(Tail(u), "closeRecords", s)
                /\ Calling(Tail(Tail(u)), "write", s) /\ Calling(Tail(Tail(Tail(u))), "closed", s)
                /\ Tail(Tail(Tail(Tail(u)))) = t
<1> DEFINE e == Call("encapsulate", s, <<>>)
           r == Call("closeRecords", s, <<>>)
           w == Call("write", s, <<>>)
           d == Call("closed", s, <<>>)
<1>1. /\ e \in Calls /\ e.op = "encapsulate" /\ e.s = s /\ r \in Calls /\ r.op = "closeRecords" /\ r.s = s
      /\ w \in Calls /\ w.op = "write" /\ w.s = s /\ d \in Calls /\ d.op = "closed" /\ d.s = s
  <2>1. {"encapsulate", "closeRecords", "write", "closed"} \subseteq Ops
    BY DEF Ops
  <2> QED BY <2>1, CallsTyped, Zenon
<1>2. <<>> \o t = t
  BY ConcatEmptySeq
<1>3. ASSUME NEW b \in Seq(Bytes)
      PROVE  LET u == PutStr(s, b) \o t
             IN  u \in Seq(Calls) /\ Calling(u, "put", s) /\ Head(u).bytes = b /\ Tail(u) = t
  <2> DEFINE c == Call("put", s, b)
  <2>1. c \in Calls /\ c.op = "put" /\ c.s = s /\ c.bytes = b
    BY DEF Call, Calls, Ops
  <2>2. PutStr(s, b) = <<c>>
    BY Zenon DEF PutStr
  <2> HIDE DEF c
  <2> QED BY <2>1, <2>2, Pushed DEF Calling
<1>4. LET u == EmptyBuffProc(s) \o t
      IN  u \in Seq(Calls) /\ Calling(u, "encapsulate", s) /\ Calling(Tail(u), "write", s) /\ Tail(Tail(u)) = t
  <2>1. EmptyBuffProc(s) = <<e>> \o <<w>>
    BY DEF EmptyBuffProc
  <2> HIDE DEF e, w
  <2>2. <<w>> \in Seq(Calls)
    BY <1>1
  <2>3. EmptyBuffProc(s) \o t = <<e>> \o (<<w>> \o t) /\ <<w>> \o t \in Seq(Calls)
    BY <1>1, <2>1, <2>2, PushedMore
  <2> QED BY <1>1, <2>3, Pushed DEF Calling
<1>5. LET u == (EmptyAndClose(s) \o <<Call("closed", s, <<>>)>>) \o t
      IN  /\ u \in Seq(Calls) /\ Calling(u, "encapsulate", s) /\ Calling(Tail(u), "closeRecords", s)
          /\ Calling(Tail(Tail(u)), "write", s) /\ Calling(Tail(Tail(Tail(u))), "closed", s)
          /\ Tail(Tail(Tail(Tail(u)))) = t
  <2> DEFINE rwd == <<r, w, d>>
             wd == <<w, d>>
  <2>1. EmptyAndClose(s) \o <<d>> = <<e>> \o rwd /\ rwd = <<r>> \o wd /\ wd = <<w>> \o <<d>>
    BY DEF EmptyAndClose
  <2> HIDE DEF e, r, w, d
  <2>2. rwd \in Seq(Calls) /\ wd \in Seq(Calls) /\ <<d>> \in Seq(Calls)
    BY <1>1
  <2> HIDE DEF rwd, wd
  <2>3. (<<e>> \o rwd) \o t = <<e>> \o (rwd \o t) /\ rwd \o t \in Seq(Calls)
    BY <1>1, <2>2, PushedMore
  <2>4. rwd \o t = <<r>> \o (wd \o t) /\ wd \o t \in Seq(Calls)
    <3>1. (<<r>> \o wd) \o t = <<r>> \o (wd \o t) /\ wd \o t \in Seq(Calls)
      BY <1>1, <2>2, PushedMore
    <3> QED BY <2>1, <3>1, Zenon
  <2>5. wd \o t = <<w>> \o (<<d>> \o t) /\ <<d>> \o t \in Seq(Calls)
    <3>1. (<<w>> \o <<d>>) \o t = <<w>> \o (<<d>> \o t) /\ <<d>> \o t \in Seq(Calls)
      BY <1>1, <2>2, PushedMore
    <3> QED BY <2>1, <3>1, Zenon
  <2> DEFINE a4 == <<d>> \o t
             a3 == wd \o t
             a2 == rwd \o t
             a1 == (EmptyAndClose(s) \o <<d>>) \o t
  <2>6. a4 \in Seq(Calls) /\ Calling(a4, "closed", s) /\ Tail(a4) = t
    BY <1>1, Pushed DEF Calling
  <2>7. a3 \in Seq(Calls) /\ Calling(a3, "write", s) /\ Tail(a3) = a4
    BY <1>1, <2>5, Pushed DEF Calling
  <2>8. a2 \in Seq(Calls) /\ Calling(a2, "closeRecords", s) /\ Tail(a2) = a3
    BY <1>1, <2>4, Pushed DEF Calling
  <2>9. a1 \in Seq(Calls) /\ Calling(a1, "encapsulate", s) /\ Tail(a1) = a2
    <3>1. a1 = <<e>> \o a2
      BY <2>1, <2>3, Zenon
    <3> QED BY <1>1, <2>3, <3>1, Pushed DEF Calling
  <2> HIDE DEF a1, a2, a3, a4
  <2>10. Tail(Tail(a1)) = a3 /\ Tail(Tail(Tail(a1))) = a4 /\ Tail(Tail(Tail(Tail(a1)))) = t
    BY <2>6, <2>7, <2>8, <2>9
  <2>11. /\ a1 \in Seq(Calls) /\ Calling(a1, "encapsulate", s) /\ Calling(Tail(a1), "closeRecords", s)
         /\ Calling(Tail(Tail(a1)), "write", s) /\ Calling(Tail(Tail(Tail(a1))), "closed", s)
         /\ Tail(Tail(Tail(Tail(a1)))) = t
    BY <2>6, <2>7, <2>8, <2>9, <2>10, Zenon
  <2> QED BY <2>11 DEF a1, d
<1> QED BY <1>2, <1>3, <1>4, <1>5, Zenon

(* Which call may be the innermost one.                                    *)
LEMMA BetweenTop ==
  ASSUME NEW t \in Seq(Calls), NEW raw, NEW closed, NEW n, Between(t, raw, closed, n), t # <<>>
  PROVE  \/ AllBase(t) /\ Head(t).op \in Base
         \/ \E s \in Streams :
              \/ /\ Calling(t, "put", s) /\ Tail(t) = <<>>
                 /\ s \notin raw => Head(t).bytes = Tokens(s, n[s], Len(Head(t).bytes))
              \/ /\ s \notin raw
                 /\ \/ Flushes(s, t, raw, n) \/ Closes(s, t)
                    \/ Calling(t, "encapsulate", s) /\ (Flushes(s, Tail(t), raw, n) \/ Closes(s, Tail(t)))
<1>1. CASE AllBase(t)
  <2>1. Head(t) = t[1] /\ 1 \in DOMAIN t
    OBVIOUS
  <2> QED BY <1>1, <2>1 DEF AllBase
<1>2. CASE ~AllBase(t)
  <2>1. \/ \E s \in Streams : Rest(s, t, raw, n)
        \/ \E s \in Streams \ raw :
             \/ Flushes(s, t, raw, n) \/ Closes(s, t)
             \/ Calling(t, "encapsulate", s) /\ (Flushes(s, Tail(t), raw, n) \/ Closes(s, Tail(t)))
    BY <1>2, Zenon DEF Between
  <2> QED BY <2>1, Zenon DEF Rest
<1> QED BY <1>1, <1>2

LEMMA EndingTop ==
  ASSUME NEW s \in Streams, NEW f \in Seq(Bytes), NEW t, NEW raw, NEW closed, NEW b, Ending(s, f, t, raw, closed, b)
  PROVE  /\ t # <<>> /\ Head(t).s = s /\ Head(t).op \in {"put", "write", "encapsulate", "closed"}
         /\ Head(t).op = "put" => PutsLeft(s, t, f)
         /\ Head(t).op = "write" => PutsLeft(s, Tail(t), f) \/ (AtClosed(s, Tail(t)) /\ f = <<>>)
         /\ Head(t).op = "encapsulate" => Calling(Tail(t), "write", s) /\ PutsLeft(s, Tail(Tail(t)), f)
         /\ Head(t).op = "closed" => AllBase(Tail(t)) /\ f = <<>> /\ b[s] = <<>>
<1>1. ASSUME PutsLeft(s, t, f)
      PROVE  t # <<>> /\ Head(t).s = s /\ (Head(t).op = "put" \/ (Head(t).op = "write" /\ AtClosed(s, Tail(t)) /\ f = <<>>))
  <2>1. CASE OneLeft(s, t, f)
    BY <2>1, Zenon DEF OneLeft, LastWrite, Calling
  <2>2. CASE ~OneLeft(s, t, f)
    <3>1. Calling(t, "put", s)
      BY <1>1, <2>2, Zenon DEF PutsLeft
    <3> QED BY <3>1, Zenon DEF Calling
  <2> QED BY <2>1, <2>2
<1>2. CASE PutsLeft(s, t, f)
  BY <1>1, <1>2
<1>3. CASE Calling(t, "write", s) /\ PutsLeft(s, Tail(t), f)
  BY <1>3 DEF Calling
<1>4. CASE Calling(t, "encapsulate", s) /\ Calling(Tail(t), "write", s) /\ PutsLeft(s, Tail(Tail(t)), f)
  BY <1>4 DEF Calling
<1>5. CASE AtClosed(s, t) /\ f = <<>> /\ b[s] = <<>>
  BY <1>5 DEF AtClosed, Calling
<1> QED BY <1>2, <1>3, <1>4, <1>5, Zenon DEF Ending

LEMMA PutsLeftAre ==
  ASSUME NEW s \in Streams, NEW t \in Seq(Calls), NEW f \in Seq(Bytes), PutsLeft(s, t, f), Calling(t, "put", s)
  PROVE  \E g \in Seq(Bytes) : PutsLeft(s, Tail(t), g) /\ OneLeft(s, Tail(t), g) /\ f = Head(t).bytes \o g
<1>0. Head(t).bytes \in Seq(Bytes)
  <2>1. t # <<>>
    BY DEF Calling
  <2>2. Head(t) \in Calls
    BY <2>1, HeadTailProperties
  <2> QED BY <2>2 DEF Calls
<1>1. CASE OneLeft(s, t, f)
  <2>1. LastWrite(s, Tail(t)) /\ f = Head(t).bytes
    BY <1>1 DEF OneLeft, LastWrite, Calling
  <2>2. f = Head(t).bytes \o <<>> /\ <<>> \in Seq(Bytes)
    BY <1>0, <2>1, ConcatEmptySeq
  <2> QED BY <2>1, <2>2 DEF OneLeft, PutsLeft
<1>2. CASE \E g \in Seq(Bytes) : OneLeft(s, Tail(t), g) /\ f = Head(t).bytes \o g
  BY <1>2 DEF PutsLeft
<1> QED BY <1>1, <1>2 DEF PutsLeft

LEMMA OpsDiffer ==
  ASSUME NEW t, t = <<>> \/ Head(t).op \notin {"write", "closeRecords"}
  PROVE  Encapsulated(t) = {}
BY DEF Encapsulated, Calling

LEMMA EncapsulatedOne ==
  ASSUME NEW t, NEW s \in Streams, Calling(t, "write", s) \/ Calling(t, "closeRecords", s)
  PROVE  Encapsulated(t) = {s}
BY DEF Encapsulated, Calling

(* What a step leaves as it was, for the streams that may still be         *)
(* written to.                                                             *)
LEMMA SettledOn ==
  ASSUME NEW q, NEW n, NEW raw, NEW w, NEW b, NEW f, NEW left, Settled(q, n, raw, w, b, f, left),
         NEW w2, NEW b2, NEW f2,
         \A s \in Streams \ raw : b2[s] = b[s] /\ (s \in w2 <=> s \in w) /\ (s \in f2 <=> s \in f)
  PROVE  Settled(q, n, raw, w2, b2, f2, left)
<1>1. \A s \in Streams : StreamAt(s, q, n, raw, w2, b2, f2)
  <2> SUFFICES ASSUME NEW s \in Streams PROVE StreamAt(s, q, n, raw, w2, b2, f2)
    OBVIOUS
  <2>1. StreamAt(s, q, n, raw, w, b, f)
    BY DEF Settled
  <2>2. CASE s \in raw
    BY <2>1, <2>2 DEF StreamAt
  <2>3. CASE s \notin raw
    <3>1. BufferAt(s, q, n, w, b, f)
      BY <2>1, <2>3 DEF StreamAt
    <3>2. BufferAt(s, q, n, w2, b2, f2)
      BY <2>3, <3>1, Zenon DEF BufferAt
    <3> QED BY <2>1, <2>3, <3>2 DEF StreamAt
  <2> QED BY <2>2, <2>3
<1> QED BY <1>1 DEF Settled

LEMMA SettledIsFresh ==
  ASSUME NEW q, NEW n \in [Streams -> Nat], NEW raw, NEW w, NEW b, NEW f, NEW left \in Nat,
         Settled(q, n, raw, w, b, f, left), left > 0
  PROVE  Fresh(q, n)
<1>1. q \in Peers /\ AtRest(q) /\ q.ended = <<>> /\ \A s \in Streams : StreamAt(s, q, n, raw, w, b, f)
  BY DEF Settled
<1>2. ASSUME NEW s \in Streams
      PROVE  /\ Len(q.got[s]) <= n[s] /\ q.got[s] = Tokens(s, 0, Len(q.got[s]))
             /\ s \in q.eof => Len(q.got[s]) = n[s]
  BY <1>1 DEF StreamAt, RawAt, BufferAt
<1> QED BY <1>1, <1>2 DEF Fresh

(* nWriters counts the streams that have not written their close records.  *)
LEMMA WritersLeft ==
  ASSUME StreamInv
  PROVE  /\ \A s \in Streams : s \notin rawWrite => nWriters \in {1, 2}
         /\ nWriters = 1 => \A s, t \in Streams : s \notin rawWrite /\ t # s => t \in rawWrite
<1>1. rawWrite \subseteq Streams /\ nWriters + Cardinality(rawWrite) = 2 /\ nWriters \in Nat
  BY DEF StreamInv, StreamType
<1>2. IsFiniteSet(rawWrite) /\ Cardinality(rawWrite) \in Nat
  BY <1>1, TwoStreams, FS_Subset, FS_CardinalityType, Zenon
<1>3. ASSUME NEW s \in Streams, s \notin rawWrite PROVE nWriters \in {1, 2}
  <2>1. Cardinality(rawWrite) # 2
    BY <1>1, <1>3, TwoStreams, FS_Subset, Zenon
  <2> QED BY <1>1, <1>2, <2>1
<1>4. ASSUME nWriters = 1, NEW s \in Streams, NEW t \in Streams, s \notin rawWrite, t # s PROVE t \in rawWrite
  <2>1. Cardinality(rawWrite) # 0
    BY <1>1, <1>2, <1>4
  <2>2. rawWrite # {}
    BY <2>1, FS_EmptySet
  <2> QED BY <1>1, <1>4, <2>2 DEF Streams
<1> QED BY <1>3, <1>4

(* The bytes of the application that are in a buffer, and those that       *)
(* follow.                                                                 *)
LEMMA TokensSplit ==
  ASSUME NEW s \in Streams, NEW g \in Nat, NEW k \in Nat, NEW n \in Nat
  PROVE  /\ Tokens(s, g, k) \o Tokens(s, g + k, n) = Tokens(s, g, k + n)
         /\ \A m \in 0 .. n : /\ SubSeq(Tokens(s, g, n), 1, m) = Tokens(s, g, m)
                              /\ SubSeq(Tokens(s, g, n), m + 1, n) = Tokens(s, g + m, n - m)
<1> DEFINE a == Tokens(s, g, k)
           b == Tokens(s, g + k, n)
           c == Tokens(s, g, k + n)
<1>1. /\ a \in Seq(Bytes) /\ Len(a) = k /\ \A i \in 1 .. k : a[i] = <<s, g + i>>
      /\ b \in Seq(Bytes) /\ Len(b) = n /\ \A i \in 1 .. n : b[i] = <<s, (g + k) + i>>
      /\ c \in Seq(Bytes) /\ Len(c) = k + n /\ \A i \in 1 .. k + n : c[i] = <<s, g + i>>
  <2>1. g + k \in Nat /\ k + n \in Nat
    OBVIOUS
  <2> QED BY <2>1, TokensTyped, Zenon
<1>2. a \o b = c
  <2> HIDE DEF a, b, c
  <2>1. /\ a \o b \in Seq(Bytes) /\ Len(a \o b) = k + n
        /\ \A i \in 1 .. k + n : (a \o b)[i] = IF i <= k THEN a[i] ELSE b[i - k]
    BY <1>1, ConcatProperties
  <2>2. ASSUME NEW i \in 1 .. k + n PROVE (a \o b)[i] = c[i]
    <3>1. CASE i <= k
      <4>1. i \in 1 .. k /\ i \in 1 .. k + n
        BY <3>1
      <4> QED BY <1>1, <2>1, <3>1, <4>1
    <3>2. CASE ~(i <= k)
      <4>1. i - k \in 1 .. n /\ (g + k) + (i - k) = g + i
        BY <3>2
      <4> QED BY <1>1, <2>1, <3>2, <4>1
    <3> QED BY <3>1, <3>2
  <2> QED BY <1>1, <2>1, <2>2, SeqEqual
<1>3. ASSUME NEW m \in 0 .. n
      PROVE  /\ SubSeq(Tokens(s, g, n), 1, m) = Tokens(s, g, m)
             /\ SubSeq(Tokens(s, g, n), m + 1, n) = Tokens(s, g + m, n - m)
  <2> DEFINE w == Tokens(s, g, n)
             u == Tokens(s, g, m)
             v == Tokens(s, g + m, n - m)
  <2>1. /\ w \in Seq(Bytes) /\ Len(w) = n /\ \A i \in 1 .. n : w[i] = <<s, g + i>>
        /\ u \in Seq(Bytes) /\ Len(u) = m /\ \A i \in 1 .. m : u[i] = <<s, g + i>>
        /\ v \in Seq(Bytes) /\ Len(v) = n - m /\ \A i \in 1 .. n - m : v[i] = <<s, (g + m) + i>>
    <3>1. m \in Nat /\ g + m \in Nat /\ n - m \in Nat
      OBVIOUS
    <3> QED BY <3>1, TokensTyped, Zenon
  <2> HIDE DEF w, u, v
  <2>2. /\ SubSeq(w, 1, m) \in Seq(Bytes) /\ Len(SubSeq(w, 1, m)) = m /\ \A i \in 1 .. m : SubSeq(w, 1, m)[i] = w[i]
        /\ SubSeq(w, m + 1, n) \in Seq(Bytes) /\ Len(SubSeq(w, m + 1, n)) = n - m
        /\ \A i \in 1 .. n - m : SubSeq(w, m + 1, n)[i] = w[m + i]
    <3>1. (\A i \in 1 .. m : w[i] \in Bytes) /\ (\A i \in m + 1 .. n : w[i] \in Bytes)
      BY <2>1
    <3>2. /\ SubSeq(w, 1, m) \in Seq(Bytes) /\ Len(SubSeq(w, 1, m)) = (IF 1 <= m THEN m - 1 + 1 ELSE 0)
          /\ \A i \in 1 .. m - 1 + 1 : SubSeq(w, 1, m)[i] = w[1 + i - 1]
      BY <3>1, SubSeqProperties
    <3>3. /\ SubSeq(w, m + 1, n) \in Seq(Bytes)
          /\ Len(SubSeq(w, m + 1, n)) = (IF m + 1 <= n THEN n - (m + 1) + 1 ELSE 0)
          /\ \A i \in 1 .. n - (m + 1) + 1 : SubSeq(w, m + 1, n)[i] = w[(m + 1) + i - 1]
      <4>1. m + 1 \in Int /\ n \in Int
        OBVIOUS
      <4> QED BY <3>1, <4>1, SubSeqProperties
    <3>4. m - 1 + 1 = m /\ n - (m + 1) + 1 = n - m /\ \A i \in Int : 1 + i - 1 = i /\ (m + 1) + i - 1 = m + i
      OBVIOUS
    <3> QED BY <3>2, <3>3, <3>4
  <2>3. SubSeq(w, 1, m) = u
    <3>1. ASSUME NEW i \in 1 .. m PROVE w[i] = u[i]
      <4>1. i \in 1 .. n
        OBVIOUS
      <4> QED BY <2>1, <4>1
    <3>2. ASSUME NEW i \in 1 .. Len(SubSeq(w, 1, m)) PROVE SubSeq(w, 1, m)[i] = u[i]
      BY <2>2, <3>1
    <3> QED BY <2>1, <2>2, <3>2, SeqEqual
  <2>4. \A i \in 1 .. n - m : w[m + i] = v[i]
    <3> SUFFICES ASSUME NEW i \in 1 .. n - m PROVE w[m + i] = v[i]
      OBVIOUS
    <3>1. m + i \in 1 .. n /\ g + (m + i) = (g + m) + i
      OBVIOUS
    <3> QED BY <2>1, <3>1
  <2>5. SubSeq(w, m + 1, n) = v
    BY <2>1, <2>2, <2>4, SeqEqual
  <2> QED BY <2>3, <2>5 DEF w, u, v
<1> QED BY <1>2, <1>3

-----------------------------------------------------------------------------
(* Each step keeps ResponseInv.                                             *)

LEMMA SoundAtRest ==
  ASSUME Sound, todo = <<>>
  PROVE  BetweenNow
<1> SUFFICES ASSUME NEW s \in Streams, NEW f \in Seq(Bytes), EndingNow(s, f) PROVE FALSE
  BY DEF Sound
<1> QED BY EndingTop DEF EndingNow

LEMMA StaysBetween ==
  ASSUME Sound, BetweenNow, Encapsulated(todo') = Encapsulated(todo),
         Between(todo', rawWrite, wasFCloseCalled, accepted),
         UNCHANGED <<buf, isClosed, wasFCloseCalled, rawWrite, isAnythingWritten, nWriters, accepted, peer>>
  PROVE  Sound'
<1>1. Settled(peer, accepted, rawWrite, isAnythingWritten, buf, Encapsulated(todo), nWriters)
  BY DEF BetweenNow, SettledNow
<1>2. Settled(peer', accepted', rawWrite', isAnythingWritten', buf', Encapsulated(todo'), nWriters')
  BY <1>1
<1>3. BetweenNow'
  BY <1>2 DEF BetweenNow, SettledNow
<1>4. (isClosed = wasFCloseCalled /\ wasFCloseCalled \subseteq rawWrite)'
  BY DEF Sound
<1> QED BY <1>3, <1>4, Zenon DEF Sound

LEMMA FlushBegins ==
  ASSUME NEW s \in Streams
  PROVE  LET u == EmptyBuffProc(s)
         IN  u \in Seq(Calls) /\ Calling(u, "encapsulate", s) /\ Calling(Tail(u), "write", s) /\ Tail(Tail(u)) = <<>>
<1>1. EmptyBuffProc(s) \in Seq(Calls)
  BY FlushCalls
<1>2. EmptyBuffProc(s) \o <<>> = EmptyBuffProc(s)
  BY <1>1, ConcatEmptySeq
<1>3. <<>> \in Seq(Calls)
  OBVIOUS
<1>4. LET u == EmptyBuffProc(s) \o <<>>
      IN  u \in Seq(Calls) /\ Calling(u, "encapsulate", s) /\ Calling(Tail(u), "write", s) /\ Tail(Tail(u)) = <<>>
  BY <1>3, PushedCalls
<1> QED BY <1>2, <1>4, Zenon

LEMMA FinishCalls ==
  ASSUME CallFinish
  PROVE  /\ todo' \in Seq(Calls) /\ Len(todo') = 3
         /\ todo'[1].op = "fclose" /\ todo'[2].op = "fclose" /\ todo'[3].op = "free"
         /\ todo'[1].s = "err" /\ todo'[2].s = "out"
<1> DEFINE e == Call("fclose", "err", <<>>)
           o == Call("fclose", "out", <<>>)
           f == Call("free", "out", <<>>)
<1>1. todo' = <<e>> \o <<o>> \o <<f>>
  BY Zenon DEF CallFinish, Start, FClose, Free
<1>2. /\ e \in Calls /\ e.op = "fclose" /\ e.s = "err" /\ o \in Calls /\ o.op = "fclose" /\ o.s = "out"
      /\ f \in Calls /\ f.op = "free"
  <2>1. "fclose" \in Ops /\ "free" \in Ops /\ "err" \in Streams /\ "out" \in Streams
    BY DEF Ops, Streams
  <2> QED BY <2>1, CallsTyped, Zenon
<1> HIDE DEF e, o, f
<1>3. /\ todo' \in Seq(Calls) /\ Len(todo') = 3 /\ todo'[1] = e /\ todo'[2] = o /\ todo'[3] = f
  <2> DEFINE u == <<e>> \o <<o>>
             v == u \o <<f>>
  <2>1. /\ <<e>> \in Seq(Calls) /\ <<o>> \in Seq(Calls) /\ <<f>> \in Seq(Calls)
        /\ Len(<<e>>) = 1 /\ Len(<<o>>) = 1 /\ Len(<<f>>) = 1 /\ <<e>>[1] = e /\ <<o>>[1] = o /\ <<f>>[1] = f
    BY <1>2
  <2>2. /\ u \in Seq(Calls) /\ Len(u) = Len(<<e>>) + Len(<<o>>)
        /\ \A i \in 1 .. Len(<<e>>) + Len(<<o>>) : u[i] = IF i <= Len(<<e>>) THEN <<e>>[i] ELSE <<o>>[i - Len(<<e>>)]
    BY <2>1, ConcatProperties
  <2> HIDE DEF u
  <2>3. u \in Seq(Calls) /\ Len(u) = 2 /\ u[1] = e /\ u[2] = o
    BY <2>1, <2>2
  <2>4. /\ v \in Seq(Calls) /\ Len(v) = Len(u) + Len(<<f>>)
        /\ \A i \in 1 .. Len(u) + Len(<<f>>) : v[i] = IF i <= Len(u) THEN u[i] ELSE <<f>>[i - Len(u)]
    BY <2>1, <2>3, ConcatProperties
  <2>5. todo' = v
    BY <1>1, Zenon DEF u
  <2> HIDE DEF v
  <2>6. v \in Seq(Calls) /\ Len(v) = 3 /\ v[1] = e /\ v[2] = o /\ v[3] = f
    BY <2>1, <2>3, <2>4
  <2> QED BY <2>5, <2>6, Zenon
<1> QED BY <1>2, <1>3

LEMMA ApplicationSound ==
  ASSUME StreamInv, Sound, Application \/ CallFinish
  PROVE  Sound'
<1>0. /\ accepted \in [Streams -> Nat] /\ isClosed = wasFCloseCalled /\ todo = <<>> /\ BetweenNow
      /\ rawWrite \subseteq wasFCloseCalled /\ Encapsulated(todo) = {}
  <2>1. todo = <<>>
    BY DEF Application, CallFinish, CallPutStr, CallFFlush, CallFClose, SetExitStatus, Idle
  <2>2. BetweenNow
    BY <2>1, SoundAtRest
  <2> QED BY <2>1, <2>2, OpsDiffer DEF StreamInv, StreamType, Sound, BetweenNow, Between
<1>1. ASSUME NEW s \in Streams, NEW n \in PutSizes, CallPutStr(s, n) PROVE Sound'
  <2> DEFINE b == [i \in 1 .. n |-> <<s, accepted[s] + i>>]
  <2>1. n \in Nat /\ accepted[s] \in Nat
    BY <1>0, LengthsAssumption
  <2>2. b = Tokens(s, accepted[s], n)
    BY Zenon DEF Tokens
  <2>3. b \in Seq(Bytes) /\ Len(b) = n
    <3> HIDE DEF b
    <3>1. Tokens(s, accepted[s], n) \in Seq(Bytes) /\ Len(Tokens(s, accepted[s], n)) = n
      BY <2>1, TokensTyped
    <3> QED BY <2>2, <3>1, Zenon
  <2>4. todo' = PutStr(s, b) /\ UNCHANGED <<buf, stream, request, accepted, peer, conn>>
    BY <1>1, Zenon DEF CallPutStr, Start
  <2> HIDE DEF b
  <2>5. PutStr(s, b) \o <<>> = PutStr(s, b)
    BY <2>3, Puts, ConcatEmptySeq
  <2>6. Calling(todo', "put", s) /\ Head(todo').bytes = b /\ Tail(todo') = <<>>
    <3>1. <<>> \in Seq(Calls)
      OBVIOUS
    <3>2. LET u == PutStr(s, b) \o <<>>
          IN  u \in Seq(Calls) /\ Calling(u, "put", s) /\ Head(u).bytes = b /\ Tail(u) = <<>>
      BY <2>3, <3>1, PushedCalls
    <3> QED BY <2>4, <2>5, <3>2, Zenon
  <2>7. Rest(s, todo', rawWrite, accepted)
    BY <2>2, <2>3, <2>6 DEF Rest
  <2>8. Between(todo', rawWrite, wasFCloseCalled, accepted)
    BY <1>0, <2>7 DEF Between
  <2>9. Encapsulated(todo') = {}
    BY <2>6, OpsDiffer DEF Calling
  <2> QED BY <1>0, <2>4, <2>8, <2>9, StaysBetween DEF stream, request
<1>2. ASSUME NEW s \in Streams, CallFFlush(s) PROVE Sound'
  <2>1. todo' = EmptyBuffProc(s) /\ UNCHANGED <<buf, stream, request, accepted, peer, conn>> /\ s \notin isClosed
    BY <1>2 DEF CallFFlush, Start
  <2>2. Calling(todo', "encapsulate", s) /\ Calling(Tail(todo'), "write", s) /\ Tail(Tail(todo')) = <<>>
    BY <2>1, FlushBegins
  <2>3. Flushes(s, Tail(todo'), rawWrite, accepted) /\ s \in Streams \ rawWrite
    BY <1>0, <2>1, <2>2 DEF Flushes, Rest
  <2>4. Between(todo', rawWrite, wasFCloseCalled, accepted)
    BY <1>0, <2>2, <2>3 DEF Between
  <2>5. Encapsulated(todo') = {}
    BY <2>2, OpsDiffer DEF Calling
  <2> QED BY <1>0, <2>1, <2>4, <2>5, StaysBetween DEF stream, request
<1>3. ASSUME NEW s \in Streams, CallFClose(s) PROVE Sound'
  <2> DEFINE c == Call("fclose", s, <<>>)
  <2>1. todo' = <<c>> /\ UNCHANGED <<buf, stream, request, accepted, peer, conn>>
    BY <1>3, Zenon DEF CallFClose, Start, FClose
  <2>2. c.op = "fclose"
    BY DEF Call
  <2> HIDE DEF c
  <2>3. AllBase(todo')
    BY <2>1, <2>2 DEF AllBase, Base
  <2>4. Between(todo', rawWrite, wasFCloseCalled, accepted)
    BY <1>0, <2>3 DEF Between
  <2>5. Head(todo').op \notin {"write", "closeRecords"}
    BY <2>1, <2>2
  <2>6. Encapsulated(todo') = {}
    BY <2>5, OpsDiffer
  <2> QED BY <1>0, <2>1, <2>4, <2>6, StaysBetween DEF stream, request
<1>4. ASSUME NEW a \in Statuses, SetExitStatus(a) PROVE Sound'
  <2>1. UNCHANGED <<buf, stream, nWriters, keepConnection, todo, accepted, peer, conn>>
    BY <1>4 DEF SetExitStatus
  <2>2. Between(todo', rawWrite, wasFCloseCalled, accepted)
    BY <1>0, <2>1 DEF BetweenNow
  <2> QED BY <1>0, <2>1, <2>2, StaysBetween DEF stream
<1>5. CASE CallFinish
  <2>1. UNCHANGED <<buf, stream, request, accepted, peer, conn>>
    BY <1>5 DEF CallFinish
  <2>2. todo' # <<>> /\ Head(todo') = todo'[1] /\ Head(todo').op \notin {"write", "closeRecords"}
    <3>1. todo' \in Seq(Calls) /\ todo' # <<>> /\ todo'[1].op = "fclose"
      BY <1>5, FinishCalls
    <3>2. Head(todo') = todo'[1]
      BY <3>1, HeadTailProperties
    <3> QED BY <3>1, <3>2
  <2>4. AllBase(todo')
    BY <1>5, FinishCalls DEF AllBase, Base
  <2>5. Between(todo', rawWrite, wasFCloseCalled, accepted)
    BY <1>0, <2>4 DEF Between
  <2>6. Encapsulated(todo') = {}
    BY <2>2, OpsDiffer
  <2> QED BY <1>0, <2>1, <2>5, <2>6, StaysBetween DEF stream, request
<1> QED BY <1>1, <1>2, <1>3, <1>4, <1>5 DEF Application

LEMMA IsBetween ==
  ASSUME Between(todo', rawWrite', wasFCloseCalled', accepted'),
         Settled(peer', accepted', rawWrite', isAnythingWritten', buf', Encapsulated(todo'), nWriters'),
         isClosed' = wasFCloseCalled', wasFCloseCalled' \subseteq rawWrite'
  PROVE  Sound'
BY DEF Sound, BetweenNow, SettledNow

LEMMA IsEnding ==
  ASSUME NEW s \in Streams, NEW f \in Seq(Bytes), Ending(s, f, todo', rawWrite', wasFCloseCalled', buf'),
         Settled(ReceiveAll(peer', buf'[s] \o f), accepted', rawWrite', isAnythingWritten', buf', Encapsulated(todo'),
                 nWriters'),
         Heard(peer', buf'[s] \o f, accepted', appStatus'),
         isClosed' = wasFCloseCalled', wasFCloseCalled' \subseteq rawWrite'
  PROVE  Sound'
<1>1. EndingNow(s, f)'
  BY DEF EndingNow, SettledNow
<1>2. (\E t \in Streams : \E g \in Seq(Bytes) : EndingNow(t, g))'
  BY <1>1, Zenon
<1> QED BY <1>2, Zenon DEF Sound

LEMMA StreamAtSame ==
  ASSUME NEW t, NEW q, NEW n, NEW raw, NEW w, NEW b, NEW f, StreamAt(t, q, n, raw, w, b, f),
         NEW q2, NEW n2, NEW raw2, NEW w2, NEW b2, NEW f2,
         q2.got[t] = q.got[t], t \in q2.eof <=> t \in q.eof, n2[t] = n[t], t \in raw2 <=> t \in raw,
         t \in w2 <=> t \in w, b2[t] = b[t], t \in f2 <=> t \in f
  PROVE  StreamAt(t, q2, n2, raw2, w2, b2, f2)
<1>1. CASE t \in raw
  <2>1. RawAt(t, q, n)
    BY <1>1 DEF StreamAt
  <2>2. RawAt(t, q2, n2)
    BY <2>1, Zenon DEF RawAt
  <2> QED BY <1>1, <2>2 DEF StreamAt
<1>2. CASE t \notin raw
  <2>1. BufferAt(t, q, n, w, b, f)
    BY <1>2 DEF StreamAt
  <2>2. BufferAt(t, q2, n2, w2, b2, f2)
    BY <2>1, Zenon DEF BufferAt
  <2> QED BY <1>2, <2>2 DEF StreamAt
<1> QED BY <1>1, <1>2

LEMMA Concats ==
  /\ \A a, b, c \in Seq(Bytes) : (a \o b) \o c = a \o (b \o c) /\ a \o b \in Seq(Bytes)
  /\ \A a, b, c \in Seq(Calls) : (a \o b) \o c = a \o (b \o c) /\ a \o b \in Seq(Calls)
<1>1. ASSUME NEW S, NEW a \in Seq(S), NEW b \in Seq(S), NEW c \in Seq(S)
      PROVE  (a \o b) \o c = a \o (b \o c) /\ a \o b \in Seq(S)
  <2>1. (a \o b) \o c = a \o (b \o c)
    BY ConcatAssociative
  <2> QED BY <2>1, ConcatProperties
<1> QED BY <1>1, Zenon

LEMMA BufferGrows ==
  ASSUME NEW s \in Streams, NEW g \in Nat, NEW k \in Nat, NEW m \in Nat
  PROVE  (Unset \o Tokens(s, g, k)) \o Tokens(s, g + k, m) = Unset \o Tokens(s, g, k + m)
<1>1. Unset \in Seq(Bytes) /\ Tokens(s, g, k) \in Seq(Bytes)
  BY BytesTyped, TokensTyped
<1>2. Tokens(s, g + k, m) \in Seq(Bytes)
  <2>1. g + k \in Nat
    OBVIOUS
  <2> QED BY <2>1, TokensTyped
<1>3. (Unset \o Tokens(s, g, k)) \o Tokens(s, g + k, m) = Unset \o (Tokens(s, g, k) \o Tokens(s, g + k, m))
  BY <1>1, <1>2, Concats, Zenon
<1> QED BY <1>3, TokensSplit, Zenon

LEMMA PutSound ==
  ASSUME StreamInv, Sound, NEW s \in Streams, Put(s)
  PROVE  Sound'
<1> DEFINE bytes == Head(todo).bytes
           m     == IF Len(bytes) <= Room(s) THEN Len(bytes) ELSE Room(s)
           rest  == SubSeq(bytes, m + 1, Len(bytes))
<1>0. /\ buf \in [Streams -> Seq(Bytes)] /\ accepted \in [Streams -> Nat] /\ full \in [Streams -> Nat]
      /\ Len(buf[s]) <= full[s] /\ isClosed = wasFCloseCalled /\ wasFCloseCalled \subseteq rawWrite
  BY DEF StreamInv, StreamType, Whole, Sound
<1>1. /\ todo \in Seq(Calls) /\ todo # <<>> /\ Head(todo) \in Calls /\ Head(todo).op = "put" /\ Head(todo).s = s
      /\ Tail(todo) \in Seq(Calls)
  BY TopCall, HeadTailProperties DEF Put
<1>2. bytes \in Seq(Bytes) /\ Len(bytes) \in Nat
  BY <1>1 DEF Calls
<1>3. m \in Nat /\ m <= Len(bytes)
  <2>1. Len(buf[s]) \in Nat /\ full[s] \in Nat
    BY <1>0
  <2> QED BY <1>0, <1>2, <2>1 DEF Room
<1>4. /\ buf' = [buf EXCEPT ![s] = buf[s] \o SubSeq(bytes, 1, m)]
      /\ accepted' = (IF s \in rawWrite THEN accepted ELSE [accepted EXCEPT ![s] = accepted[s] + m])
      /\ UNCHANGED <<isClosed, FCGI_errno, wasFCloseCalled, rawWrite, isAnythingWritten, nWriters, appStatus, peer>>
  BY DEF Put, stream, request
<1>5. IF m = Len(bytes) \/ s \in isClosed THEN Then(<<>>) ELSE Then(EmptyBuffProc(s) \o PutStr(s, rest))
  BY Zenon DEF Put
<1> HIDE DEF m, bytes
<1>6. rest \in Seq(Bytes) /\ SubSeq(bytes, 1, m) \in Seq(Bytes) /\ SubSeq(bytes, 1, m) \o rest = bytes
  <2>1. SubSeq(bytes, 1, m) \o SubSeq(bytes, m + 1, Len(bytes)) = SubSeq(bytes, 1, Len(bytes))
    <3>1. 1 \in 1 .. Len(bytes) + 1 /\ m \in 1 - 1 .. Len(bytes) /\ Len(bytes) \in m .. Len(bytes)
      BY <1>2, <1>3
    <3> QED BY <1>2, <3>1, ConcatAdjacentSubSeq
  <2>2. SubSeq(bytes, 1, Len(bytes)) = bytes
    BY <1>2, SubSeqFull
  <2>3. rest \in Seq(Bytes) /\ SubSeq(bytes, 1, m) \in Seq(Bytes)
    BY <1>2, <1>3
  <2> QED BY <2>1, <2>2, <2>3
<1> HIDE DEF rest
<1>7. m = Len(bytes) \/ s \in isClosed => todo' = Tail(todo)
  BY <1>1, <1>5, PushedCalls DEF Then
<1>8. ASSUME ~(m = Len(bytes) \/ s \in isClosed)
      PROVE  /\ Calling(todo', "encapsulate", s) /\ Calling(Tail(todo'), "write", s)
             /\ Calling(Tail(Tail(todo')), "put", s) /\ Head(Tail(Tail(todo'))).bytes = rest
             /\ Tail(Tail(Tail(todo'))) = Tail(todo)
  <2> DEFINE p == PutStr(s, rest)
             t == Tail(todo)
  <2>1. p \in Seq(Calls) /\ EmptyBuffProc(s) \in Seq(Calls)
    BY <1>6, Puts, FlushCalls
  <2>2. p \o t \in Seq(Calls) /\ Calling(p \o t, "put", s) /\ Head(p \o t).bytes = rest /\ Tail(p \o t) = t
    BY <1>1, <1>6, PushedCalls
  <2>3. todo' = (EmptyBuffProc(s) \o p) \o t
    BY <1>5, <1>8 DEF Then
  <2> HIDE DEF p, t
  <2>4. todo' = EmptyBuffProc(s) \o (p \o t)
    <3>1. t \in Seq(Calls)
      BY <1>1 DEF t
    <3> QED BY <2>1, <2>3, <3>1, Concats, Zenon
  <2>5. Calling(todo', "encapsulate", s) /\ Calling(Tail(todo'), "write", s) /\ Tail(Tail(todo')) = p \o t
    BY <2>2, <2>4, PushedCalls
  <2> QED BY <2>2, <2>5, Zenon DEF t
<1>9. Encapsulated(todo) = {}
  BY <1>1, OpsDiffer
<1>a. ASSUME BetweenNow PROVE Sound'
  <2>1. /\ Between(todo, rawWrite, wasFCloseCalled, accepted) /\ rawWrite \subseteq wasFCloseCalled
        /\ Settled(peer, accepted, rawWrite, isAnythingWritten, buf, {}, nWriters)
    BY <1>9, <1>a DEF BetweenNow, SettledNow, Between
  <2>2. Tail(todo) = <<>> /\ (s \notin rawWrite => bytes = Tokens(s, accepted[s], Len(bytes)))
    BY <1>1, <2>1, BetweenTop DEF Calling, Flushes, Closes, Base, bytes
  <2>3. Encapsulated(todo') = {}
    BY <1>7, <1>8, <2>2, OpsDiffer DEF Calling
  <2>4. CASE s \in rawWrite
    <3>1. todo' = <<>> /\ accepted' = accepted
      BY <1>4, <1>7, <2>1, <2>2, <2>4, <1>0
    <3>2. Between(todo', rawWrite', wasFCloseCalled', accepted')
      BY <1>4, <2>1, <3>1 DEF Between, Rest
    <3>3. \A t \in Streams \ rawWrite : buf'[t] = buf[t]
      BY <1>0, <1>4, <2>4
    <3>4. Settled(peer, accepted, rawWrite, isAnythingWritten, buf', {}, nWriters)
      BY <2>1, <3>3, SettledOn
    <3> QED BY <1>0, <1>4, <2>3, <3>1, <3>2, <3>4, IsBetween
  <2>5. CASE s \notin rawWrite
    <3> DEFINE n == accepted[s]
               g == Len(peer.got[s])
    <3>1. n \in Nat /\ g \in Nat /\ accepted'[s] = n + m /\ peer \in Peers
      BY <1>0, <1>4, <2>1, <2>5, PeersTyped DEF Settled
    <3>2. /\ g <= n /\ peer.got[s] = Tokens(s, 0, g) /\ s \notin peer.eof /\ (s \notin isAnythingWritten => g = 0)
          /\ buf[s] = Unset \o Tokens(s, g, n - g)
      BY <2>1, <2>5 DEF Settled, StreamAt, BufferAt
    <3>3. /\ SubSeq(bytes, 1, m) = Tokens(s, n, m)
          /\ rest = Tokens(s, n + m, Len(bytes) - m)
      <4>1. bytes = Tokens(s, n, Len(bytes)) /\ m \in 0 .. Len(bytes)
        BY <1>2, <1>3, <2>2, <2>5
      <4> HIDE DEF n
      <4>2. /\ SubSeq(Tokens(s, n, Len(bytes)), 1, m) = Tokens(s, n, m)
            /\ SubSeq(Tokens(s, n, Len(bytes)), m + 1, Len(bytes)) = Tokens(s, n + m, Len(bytes) - m)
        BY <1>2, <3>1, <4>1, TokensSplit, Zenon
      <4> QED BY <4>1, <4>2, Zenon DEF rest
    <3>4. buf'[s] = Unset \o Tokens(s, g, accepted'[s] - g)
      <4>1. n - g \in Nat /\ g + (n - g) = n /\ (n - g) + m = (n + m) - g
        BY <1>3, <3>1, <3>2
      <4>2. (Unset \o Tokens(s, g, n - g)) \o Tokens(s, g + (n - g), m) = Unset \o Tokens(s, g, (n - g) + m)
        BY <1>3, <3>1, <4>1, BufferGrows
      <4>3. buf'[s] = buf[s] \o SubSeq(bytes, 1, m)
        BY <1>0, <1>4
      <4> QED BY <3>1, <3>2, <3>3, <4>1, <4>2, <4>3
    <3> HIDE DEF n, g
    <3>5. StreamAt(s, peer, accepted', rawWrite, isAnythingWritten, buf', {})
      <4>1. g <= accepted'[s]
        BY <1>3, <3>1, <3>2
      <4> QED BY <2>5, <3>2, <3>4, <4>1 DEF StreamAt, BufferAt, g
    <3>6. \A t \in Streams : StreamAt(t, peer, accepted', rawWrite, isAnythingWritten, buf', {})
      <4> SUFFICES ASSUME NEW t \in Streams, t # s PROVE StreamAt(t, peer, accepted', rawWrite, isAnythingWritten, buf', {})
        BY <3>5
      <4>1. StreamAt(t, peer, accepted, rawWrite, isAnythingWritten, buf, {})
        BY <2>1 DEF Settled
      <4>2. accepted'[t] = accepted[t] /\ buf'[t] = buf[t]
        BY <1>0, <1>4
      <4> QED BY <4>1, <4>2, StreamAtSame
    <3>7. Settled(peer, accepted', rawWrite, isAnythingWritten, buf', {}, nWriters)
      BY <2>1, <3>6 DEF Settled
    <3>8. Between(todo', rawWrite, wasFCloseCalled, accepted')
      <4>1. CASE m = Len(bytes) \/ s \in isClosed
        BY <1>7, <2>1, <2>2, <4>1 DEF Between, Rest
      <4>2. CASE ~(m = Len(bytes) \/ s \in isClosed)
        <5>1. Len(bytes) - m \in Nat /\ n + m \in Nat
          BY <1>2, <1>3, <3>1
        <5>2. Len(rest) = Len(bytes) - m
          BY <3>3, <5>1, TokensTyped
        <5>3. Rest(s, Tail(Tail(todo')), rawWrite, accepted')
          BY <1>8, <2>2, <3>1, <3>3, <4>2, <5>2 DEF Rest
        <5>4. Calling(todo', "encapsulate", s) /\ Flushes(s, Tail(todo'), rawWrite, accepted')
          BY <1>8, <4>2, <5>3 DEF Flushes
        <5> QED BY <2>1, <2>5, <5>4, Zenon DEF Between
      <4> QED BY <4>1, <4>2
    <3> QED BY <1>0, <1>4, <2>3, <3>7, <3>8, IsBetween
  <2> QED BY <2>4, <2>5
<1>b. ASSUME NEW z \in Streams, NEW f \in Seq(Bytes), EndingNow(z, f) PROVE Sound'
  <2>1. /\ Ending(z, f, todo, rawWrite, wasFCloseCalled, buf) /\ Heard(peer, buf[z] \o f, accepted, appStatus)
        /\ Settled(ReceiveAll(peer, buf[z] \o f), accepted, rawWrite, isAnythingWritten, buf, {}, nWriters)
    BY <1>9, <1>b DEF EndingNow, SettledNow
  <2>2. z = s /\ PutsLeft(s, todo, f) /\ s \in rawWrite \ wasFCloseCalled /\ rawWrite \ {s} \subseteq wasFCloseCalled
    <3>1. s \in Streams /\ todo # <<>> /\ Head(todo).s = z /\ PutsLeft(z, todo, f)
      BY <1>1, <2>1, EndingTop
    <3> QED BY <1>1, <2>1, <3>1, Zenon DEF Ending
  <2>3. PICK g \in Seq(Bytes) : PutsLeft(s, Tail(todo), g) /\ OneLeft(s, Tail(todo), g) /\ f = bytes \o g
    BY <1>1, <2>2, PutsLeftAre DEF Calling, bytes
  <2> DEFINE h == rest \o g
  <2>4. h \in Seq(Bytes) /\ buf'[s] \o h = buf[s] \o f
    <3> DEFINE a == buf[s]
               b == SubSeq(bytes, 1, m)
    <3>1. a \in Seq(Bytes) /\ b \in Seq(Bytes) /\ buf'[s] = a \o b /\ b \o rest = bytes /\ rest \in Seq(Bytes)
      BY <1>0, <1>4, <1>6
    <3> HIDE DEF a, b
    <3>2. h \in Seq(Bytes)
      BY <3>1, ConcatProperties
    <3>3. b \o h = (b \o rest) \o g
      <4>1. b \in Seq(Bytes) /\ rest \in Seq(Bytes) /\ g \in Seq(Bytes)
        BY <3>1
      <4>2. (b \o rest) \o g = b \o (rest \o g)
        BY <4>1, Concats, Zenon
      <4> QED BY <4>2
    <3> HIDE DEF h
    <3>4. (a \o b) \o h = a \o (b \o h)
      BY <3>1, <3>2, Concats, Zenon
    <3> QED BY <2>3, <3>1, <3>2, <3>3, <3>4 DEF a
  <2>5. Ending(s, h, todo', rawWrite, wasFCloseCalled, buf')
    <3>1. CASE m = Len(bytes)
      <4>1. rest = <<>>
        BY <1>2, <1>3, <3>1, SubSeqEmpty DEF rest
      <4>2. h = g
        BY <4>1, ConcatEmptySeq
      <4>3. PutsLeft(s, todo', h)
        BY <1>7, <2>3, <3>1, <4>2
      <4> QED BY <2>2, <4>3, Zenon DEF Ending
    <3>2. CASE m # Len(bytes)
      <4>1. ~(m = Len(bytes) \/ s \in isClosed)
        BY <1>0, <2>2, <3>2
      <4>2. PutsLeft(s, Tail(Tail(todo')), h)
        <5>1. OneLeft(s, Tail(Tail(Tail(todo'))), g)
          BY <1>8, <2>3, <4>1
        <5>2. Calling(Tail(Tail(todo')), "put", s) /\ h = Head(Tail(Tail(todo'))).bytes \o g
          BY <1>8, <4>1
        <5> QED BY <5>1, <5>2, Zenon DEF PutsLeft
      <4> QED BY <1>8, <2>2, <4>1, <4>2, Zenon DEF Ending
    <3> QED BY <3>1, <3>2
  <2>6. accepted' = accepted
    BY <1>4, <2>2
  <2>7. Settled(ReceiveAll(peer, buf[s] \o f), accepted, rawWrite, isAnythingWritten, buf', Encapsulated(todo'), nWriters)
    <3>1. \A t \in Streams \ rawWrite : buf'[t] = buf[t]
      BY <1>0, <1>4, <2>2
    <3>2. Encapsulated(todo') \subseteq {s}
      <4>1. Head(todo').s = s
        BY <2>4, <2>5, EndingTop
      <4> QED BY <4>1 DEF Encapsulated, Calling
    <3>3. \A t \in Streams \ rawWrite : t \in Encapsulated(todo') <=> t \in {}
      BY <2>2, <3>2
    <3> QED BY <2>1, <2>2, <3>1, <3>3, SettledOn
  <2> HIDE DEF h
  <2>8. /\ Ending(s, h, todo', rawWrite', wasFCloseCalled', buf')
        /\ Settled(ReceiveAll(peer', buf'[s] \o h), accepted', rawWrite', isAnythingWritten', buf', Encapsulated(todo'),
                   nWriters')
        /\ Heard(peer', buf'[s] \o h, accepted', appStatus')
    BY <1>4, <2>1, <2>2, <2>4, <2>5, <2>6, <2>7
  <2> QED BY <1>0, <1>4, <2>4, <2>8, IsEnding
<1> QED BY <1>a, <1>b DEF Sound

LEMMA Encapsulation ==
  ASSUME NEW s \in Streams, NEW g \in Nat, NEW k \in Nat, buf[s] = Unset \o Tokens(s, g, k)
  PROVE  Encapsulate(s) = Record(s, g, k)
<1> DEFINE b == Unset \o Tokens(s, g, k)
           w == Tokens(s, g, k)
<1>1. HeaderLen \in Nat /\ Unset \in Seq(Bytes) /\ Len(Unset) = HeaderLen /\ w \in Seq(Bytes) /\ Len(w) = k
  BY LengthsAssumption, BytesTyped, TokensTyped
<1> HIDE DEF w
<1>2. /\ b \in Seq(Bytes) /\ Len(b) = HeaderLen + k
      /\ \A i \in 1 .. HeaderLen + k : b[i] = IF i <= HeaderLen THEN Unset[i] ELSE w[i - HeaderLen]
  <2>1. /\ Unset \o w \in Seq(Bytes) /\ Len(Unset \o w) = Len(Unset) + Len(w)
        /\ \A i \in 1 .. Len(Unset) + Len(w) : (Unset \o w)[i] = IF i <= Len(Unset) THEN Unset[i] ELSE w[i - Len(Unset)]
    BY <1>1, ConcatProperties, Zenon
  <2>2. b = Unset \o w
    BY DEF w
  <2> HIDE DEF b
  <2> QED BY <1>1, <2>1, <2>2
<1> HIDE DEF b
<1>3. Len(b) - HeaderLen = k
  BY <1>1, <1>2
<1>4. CASE k > 0
  <2> DEFINE u == SubSeq(b, HeaderLen + 1, Len(b))
  <2>1. u \in Seq(Bytes) /\ Len(u) = k /\ \A i \in 1 .. k : u[i] = b[HeaderLen + i]
    <3>1. \A i \in HeaderLen + 1 .. Len(b) : b[i] \in Bytes
      BY <1>1, <1>2
    <3>2. /\ u \in Seq(Bytes) /\ Len(u) = (IF HeaderLen + 1 <= Len(b) THEN Len(b) - (HeaderLen + 1) + 1 ELSE 0)
          /\ \A i \in 1 .. Len(b) - (HeaderLen + 1) + 1 : u[i] = b[(HeaderLen + 1) + i - 1]
      <4>1. HeaderLen + 1 \in Int /\ Len(b) \in Int
        BY <1>1, <1>2
      <4> QED BY <3>1, <4>1, SubSeqProperties
    <3>3. /\ Len(b) - (HeaderLen + 1) + 1 = k /\ HeaderLen + 1 <= Len(b)
      BY <1>1, <1>2, <1>4
    <3>4. ASSUME NEW i \in 1 .. k PROVE u[i] = b[HeaderLen + i]
      <4>1. (HeaderLen + 1) + i - 1 = HeaderLen + i
        BY <1>1
      <4> QED BY <3>2, <3>3, <4>1
    <3> QED BY <3>2, <3>3, <3>4
  <2> HIDE DEF u
  <2>2. ASSUME NEW i \in 1 .. Len(u) PROVE u[i] = w[i]
    <3>1. HeaderLen + i \in 1 .. HeaderLen + k /\ ~(HeaderLen + i <= HeaderLen) /\ (HeaderLen + i) - HeaderLen = i
      BY <1>1, <2>1
    <3> QED BY <1>2, <2>1, <3>1
  <2>3. u = w
    BY <1>1, <2>1, <2>2, SeqEqual
  <2>4. Encapsulate(s) = Header(s, k, AlignInt8(k) - k) \o u \o Repeat(AlignInt8(k) - k, <<"pad">>)
    <3>1. buf[s] = b
      BY DEF b
    <3>2. Encapsulate(s) = IF Len(b) - HeaderLen > 0
                           THEN Header(s, Len(b) - HeaderLen, AlignInt8(Len(b) - HeaderLen) - (Len(b) - HeaderLen))
                                  \o u \o Repeat(AlignInt8(Len(b) - HeaderLen) - (Len(b) - HeaderLen), <<"pad">>)
                           ELSE <<>>
      BY <3>1, Zenon DEF Encapsulate, u
    <3> QED BY <1>3, <1>4, <3>2
  <2>5. k # 0
    BY <1>4
  <2> QED BY <2>3, <2>4, <2>5, Zenon DEF Record, Padding, w
<1>5. CASE k = 0
  <2>1. buf[s] = b /\ ~(Len(b) - HeaderLen > 0)
    BY <1>3, <1>5 DEF b
  <2>2. Encapsulate(s) = <<>>
    BY <2>1, Zenon DEF Encapsulate
  <2> QED BY <1>5, <2>2, Zenon DEF Record
<1> QED BY <1>4, <1>5

(* What is common to the steps of EmptyBuffProc.                           *)
LEMMA Popped ==
  ASSUME StreamInv, Sound, NEW op, NEW s \in Streams, Top(op, s)
  PROVE  /\ buf \in [Streams -> Seq(Bytes)] /\ accepted \in [Streams -> Nat] /\ isClosed = wasFCloseCalled
         /\ wasFCloseCalled \subseteq rawWrite /\ nWriters \in Nat
         /\ todo \in Seq(Calls) /\ todo # <<>> /\ Calling(todo, op, s) /\ Tail(todo) \in Seq(Calls)
         /\ Then(<<>>) => todo' = Tail(todo)
         /\ \A z \in Streams : \A f \in Seq(Bytes) : EndingNow(z, f) => z = s /\ s \in rawWrite \ wasFCloseCalled
<1>1. /\ todo \in Seq(Calls) /\ todo # <<>> /\ Calling(todo, op, s) /\ Tail(todo) \in Seq(Calls)
  BY TopCall, HeadTailProperties DEF Calling, Top
<1>2. Then(<<>>) => todo' = Tail(todo)
  BY <1>1, PushedCalls DEF Then
<1>3. ASSUME NEW z \in Streams, NEW f \in Seq(Bytes), EndingNow(z, f) PROVE z = s /\ s \in rawWrite \ wasFCloseCalled
  <2>1. Ending(z, f, todo, rawWrite, wasFCloseCalled, buf)
    BY <1>3 DEF EndingNow
  <2>2. z = s
    BY <1>1, <2>1, EndingTop DEF Calling
  <2> QED BY <2>1, <2>2, Zenon DEF Ending
<1> QED BY <1>1, <1>2, <1>3 DEF StreamInv, StreamType, Sound

LEMMA EncapsulateSound ==
  ASSUME StreamInv, Sound, NEW s \in Streams, EncapsulateRecord(s)
  PROVE  Sound'
<1>1. /\ Calling(todo, "encapsulate", s) /\ todo \in Seq(Calls) /\ todo # <<>> /\ todo' = Tail(todo)
      /\ buf' = (IF s \in rawWrite THEN buf ELSE [buf EXCEPT ![s] = Encapsulate(s)])
      /\ UNCHANGED <<isClosed, FCGI_errno, wasFCloseCalled, rawWrite, isAnythingWritten, nWriters, appStatus, accepted, peer>>
  BY Popped DEF EncapsulateRecord, stream, request
<1>2. /\ buf \in [Streams -> Seq(Bytes)] /\ accepted \in [Streams -> Nat] /\ isClosed = wasFCloseCalled
      /\ wasFCloseCalled \subseteq rawWrite
      /\ \A z \in Streams : \A f \in Seq(Bytes) : EndingNow(z, f) => z = s /\ s \in rawWrite \ wasFCloseCalled
  BY Popped DEF EncapsulateRecord
<1>3. Encapsulated(todo) = {}
  BY <1>1, OpsDiffer DEF Calling
<1>a. ASSUME BetweenNow PROVE Sound'
  <2>1. /\ Between(todo, rawWrite, wasFCloseCalled, accepted) /\ rawWrite \subseteq wasFCloseCalled
        /\ Settled(peer, accepted, rawWrite, isAnythingWritten, buf, {}, nWriters)
    BY <1>3, <1>a DEF BetweenNow, SettledNow, Between
  <2>2. s \notin rawWrite /\ (Flushes(s, todo', rawWrite, accepted) \/ Closes(s, todo'))
    <3>1. ~(Head(todo).op \in Base) /\ Head(todo).op = "encapsulate" /\ Head(todo).s = s
      BY <1>1 DEF Base, Calling
    <3>2. \E z \in Streams :
              \/ /\ Calling(todo, "put", z) /\ Tail(todo) = <<>>
                 /\ z \notin rawWrite => Head(todo).bytes = Tokens(z, accepted[z], Len(Head(todo).bytes))
              \/ /\ z \notin rawWrite
                 /\ \/ Flushes(z, todo, rawWrite, accepted) \/ Closes(z, todo)
                    \/ /\ Calling(todo, "encapsulate", z)
                       /\ Flushes(z, Tail(todo), rawWrite, accepted) \/ Closes(z, Tail(todo))
      BY <1>1, <2>1, <3>1, BetweenTop, Zenon
    <3> QED BY <1>1, <3>1, <3>2 DEF Calling, Flushes, Closes
  <2>3. Between(todo', rawWrite, wasFCloseCalled, accepted)
    BY <2>1, <2>2 DEF Between
  <2>4. Encapsulated(todo') = {s}
    BY <2>2, EncapsulatedOne DEF Flushes, Closes
  <2> DEFINE g == Len(peer.got[s])
             k == accepted[s] - g
  <2>5. /\ g \in Nat /\ k \in Nat /\ peer.got[s] = Tokens(s, 0, g) /\ s \notin peer.eof
        /\ (s \notin isAnythingWritten => g = 0) /\ buf[s] = Unset \o Tokens(s, g, k) /\ g <= accepted[s]
    <3>1. StreamAt(s, peer, accepted, rawWrite, isAnythingWritten, buf, {}) /\ peer \in Peers
      BY <2>1 DEF Settled
    <3>2. g <= accepted[s] /\ peer.got[s] = Tokens(s, 0, g) /\ BufferAt(s, peer, accepted, isAnythingWritten, buf, {})
      BY <2>2, <3>1 DEF StreamAt
    <3>3. g \in Nat /\ accepted[s] \in Nat
      BY <1>2, <3>1, PeersTyped
    <3> QED BY <3>2, <3>3 DEF BufferAt
  <2> HIDE DEF g, k
  <2>6. buf'[s] = Record(s, g, k) /\ \A t \in Streams : t # s => buf'[t] = buf[t]
    BY <1>1, <1>2, <2>2, <2>5, Encapsulation
  <2>7. \A t \in Streams : StreamAt(t, peer, accepted, rawWrite, isAnythingWritten, buf', {s})
    <3>1. StreamAt(s, peer, accepted, rawWrite, isAnythingWritten, buf', {s})
      BY <2>2, <2>5, <2>6 DEF StreamAt, BufferAt, g, k
    <3>2. ASSUME NEW t \in Streams, t # s PROVE StreamAt(t, peer, accepted, rawWrite, isAnythingWritten, buf', {s})
      <4>1. StreamAt(t, peer, accepted, rawWrite, isAnythingWritten, buf, {}) /\ buf'[t] = buf[t]
        BY <2>1, <2>6, <3>2 DEF Settled
      <4> QED BY <3>2, <4>1, StreamAtSame
    <3> QED BY <3>1, <3>2
  <2>8. Settled(peer, accepted, rawWrite, isAnythingWritten, buf', {s}, nWriters)
    BY <2>1, <2>7 DEF Settled
  <2> QED BY <1>1, <1>2, <2>3, <2>4, <2>8, IsBetween
<1>b. ASSUME NEW z \in Streams, NEW f \in Seq(Bytes), EndingNow(z, f) PROVE Sound'
  <2>1. z = s /\ s \in rawWrite \ wasFCloseCalled /\ buf' = buf
    BY <1>1, <1>2, <1>b
  <2>2. /\ Ending(s, f, todo, rawWrite, wasFCloseCalled, buf) /\ Heard(peer, buf[s] \o f, accepted, appStatus)
        /\ Settled(ReceiveAll(peer, buf[s] \o f), accepted, rawWrite, isAnythingWritten, buf, {}, nWriters)
    BY <1>3, <1>b, <2>1 DEF EndingNow, SettledNow
  <2>3. Calling(todo', "write", s) /\ PutsLeft(s, Tail(todo'), f)
    <3>1. Head(todo).op = "encapsulate"
      BY <1>1 DEF Calling
    <3>2. Calling(Tail(todo), "write", s) /\ PutsLeft(s, Tail(Tail(todo)), f)
      BY <2>2, <3>1, EndingTop
    <3> QED BY <1>1, <3>2
  <2>4. Ending(s, f, todo', rawWrite, wasFCloseCalled, buf)
    BY <2>2, <2>3, Zenon DEF Ending
  <2>5. Encapsulated(todo') = {s}
    BY <2>3, EncapsulatedOne
  <2>6. Settled(ReceiveAll(peer, buf[s] \o f), accepted, rawWrite, isAnythingWritten, buf, {s}, nWriters)
    BY <2>1, <2>2, SettledOn
  <2> QED BY <1>1, <1>2, <2>1, <2>2, <2>4, <2>5, <2>6, IsEnding
<1> QED BY <1>a, <1>b DEF Sound

LEMMA WriteSound ==
  ASSUME StreamInv, Sound, NEW s \in Streams, Write(s)
  PROVE  Sound'
<1>1. /\ Calling(todo, "write", s) /\ todo \in Seq(Calls) /\ todo # <<>> /\ Tail(todo) \in Seq(Calls) /\ todo' = Tail(todo)
      /\ isAnythingWritten' = (IF buf[s] = <<>> THEN isAnythingWritten ELSE isAnythingWritten \cup {s})
      /\ peer' = ReceiveAll(peer, buf[s]) /\ buf' = [buf EXCEPT ![s] = IF s \in rawWrite THEN <<>> ELSE Unset]
      /\ UNCHANGED <<isClosed, FCGI_errno, wasFCloseCalled, rawWrite, nWriters, appStatus, accepted>>
  BY Popped DEF Write, request, Emptied
<1>2. /\ buf \in [Streams -> Seq(Bytes)] /\ accepted \in [Streams -> Nat] /\ isClosed = wasFCloseCalled
      /\ wasFCloseCalled \subseteq rawWrite /\ nWriters \in Nat
      /\ \A z \in Streams : \A f \in Seq(Bytes) : EndingNow(z, f) => z = s /\ s \in rawWrite \ wasFCloseCalled
  BY Popped DEF Write
<1>3. Encapsulated(todo) = {s}
  BY <1>1, EncapsulatedOne
<1>a. ASSUME BetweenNow PROVE Sound'
  <2>1. /\ Between(todo, rawWrite, wasFCloseCalled, accepted) /\ rawWrite \subseteq wasFCloseCalled
        /\ Settled(peer, accepted, rawWrite, isAnythingWritten, buf, {s}, nWriters)
    BY <1>3, <1>a DEF BetweenNow, SettledNow, Between
  <2>2. s \notin rawWrite /\ Rest(s, todo', rawWrite, accepted)
    <3>1. ~(Head(todo).op \in Base) /\ Head(todo).op = "write" /\ Head(todo).s = s
      BY <1>1 DEF Base, Calling
    <3>2. \E z \in Streams :
              \/ /\ Calling(todo, "put", z) /\ Tail(todo) = <<>>
                 /\ z \notin rawWrite => Head(todo).bytes = Tokens(z, accepted[z], Len(Head(todo).bytes))
              \/ /\ z \notin rawWrite
                 /\ \/ Flushes(z, todo, rawWrite, accepted) \/ Closes(z, todo)
                    \/ /\ Calling(todo, "encapsulate", z)
                       /\ Flushes(z, Tail(todo), rawWrite, accepted) \/ Closes(z, Tail(todo))
      BY <1>1, <2>1, <3>1, BetweenTop, Zenon
    <3> QED BY <1>1, <3>1, <3>2 DEF Calling, Flushes, Closes
  <2>3. Between(todo', rawWrite, wasFCloseCalled, accepted)
    BY <2>1, <2>2 DEF Between
  <2>4. Encapsulated(todo') = {}
    <3>1. todo' = <<>> \/ Head(todo').op = "put"
      BY <2>2 DEF Rest, Calling
    <3> QED BY <3>1, OpsDiffer
  <2> DEFINE g == Len(peer.got[s])
             k == accepted[s] - g
             r == ReceiveAll(peer, buf[s])
  <2>5. /\ g \in Nat /\ k \in Nat /\ s \notin peer.eof /\ accepted[s] \in Nat /\ g + k = accepted[s]
        /\ (s \notin isAnythingWritten => g = 0) /\ buf[s] = Record(s, g, k)
    <3>1. StreamAt(s, peer, accepted, rawWrite, isAnythingWritten, buf, {s}) /\ peer \in Peers
      BY <2>1 DEF Settled
    <3>2. g <= accepted[s] /\ BufferAt(s, peer, accepted, isAnythingWritten, buf, {s})
      BY <2>2, <3>1 DEF StreamAt
    <3>3. g \in Nat /\ accepted[s] \in Nat
      BY <1>2, <3>1, PeersTyped
    <3> QED BY <3>2, <3>3 DEF BufferAt
  <2>6. nWriters > 0
    BY <2>2, WritersLeft
  <2>7. Fresh(peer, accepted)
    BY <1>2, <2>1, <2>6, SettledIsFresh
  <2>8. /\ Fresh(r, accepted) /\ r.eof = peer.eof
        /\ \A t \in Streams : Len(r.got[t]) = IF t = s THEN accepted[s] ELSE Len(peer.got[t])
    <3>1. g + k <= accepted[s]
      BY <2>5
    <3> HIDE DEF g, k
    <3>2. Len(peer.got[s]) + k <= accepted[s] /\ k \in Nat /\ s \notin peer.eof /\ accepted \in [Streams -> Nat]
      BY <1>2, <2>5, <3>1 DEF g
    <3>3. buf[s] = Record(s, Len(peer.got[s]), k) /\ Len(peer.got[s]) + k = accepted[s]
      BY <2>5 DEF g
    <3>4. /\ Heard(peer, Record(s, Len(peer.got[s]), k), accepted, appStatus)
          /\ HasRead(peer, ReceiveAll(peer, Record(s, Len(peer.got[s]), k)), accepted, s, k)
      BY <2>7, <3>2, RecordHeard
    <3> QED BY <3>3, <3>4 DEF HasRead
  <2> HIDE DEF r
  <2>9. buf[s] = <<>> => k = 0
    <3> SUFFICES ASSUME k # 0 PROVE buf[s] # <<>>
      OBVIOUS
    <3> HIDE DEF g, k
    <3>1. IsRecord(Record(s, g, k), s, k, Padding(k), g, 0) /\ Padding(k) \in Nat
      BY <2>5, StreamRecord, PaddingTyped
    <3>2. Len(Record(s, g, k)) > 0
      BY <2>5, <3>1, LengthsAssumption DEF IsRecord
    <3> QED BY <2>5, <3>2
  <2>10. s \notin isAnythingWritten' => Len(r.got[s]) = 0
    <3> HIDE DEF g, k
    <3> SUFFICES ASSUME s \notin isAnythingWritten' PROVE Len(r.got[s]) = 0
      OBVIOUS
    <3>1. buf[s] = <<>> /\ s \notin isAnythingWritten
      BY <1>1
    <3>2. g = 0 /\ k = 0
      BY <2>5, <2>9, <3>1
    <3> QED BY <2>5, <2>8, <3>2
  <2>11. \A t \in Streams : StreamAt(t, r, accepted, rawWrite, isAnythingWritten', buf', {})
    <3>1. ASSUME NEW t \in Streams PROVE Len(r.got[t]) <= accepted[t] /\ r.got[t] = Tokens(t, 0, Len(r.got[t]))
      BY <2>8 DEF Fresh
    <3>2. buf'[s] = Unset \o Tokens(s, Len(r.got[s]), accepted[s] - Len(r.got[s]))
      <4>1. buf'[s] = Unset /\ Len(r.got[s]) = accepted[s] /\ accepted[s] - accepted[s] = 0
        BY <1>1, <1>2, <2>2, <2>5, <2>8
      <4>2. Tokens(s, accepted[s], 0) = <<>>
        <5>1. Tokens(s, accepted[s], 0) \in Seq(Bytes) /\ Len(Tokens(s, accepted[s], 0)) = 0
          BY <2>5, TokensTyped
        <5> QED BY <5>1
      <4>3. Unset \o <<>> = Unset
        BY BytesTyped, ConcatEmptySeq
      <4> QED BY <4>1, <4>2, <4>3
    <3>3. StreamAt(s, r, accepted, rawWrite, isAnythingWritten', buf', {})
      BY <2>2, <2>5, <2>8, <2>10, <3>1, <3>2 DEF StreamAt, BufferAt
    <3>4. ASSUME NEW t \in Streams, t # s PROVE StreamAt(t, r, accepted, rawWrite, isAnythingWritten', buf', {})
      <4>1. StreamAt(t, peer, accepted, rawWrite, isAnythingWritten, buf, {s}) /\ peer \in Peers
        BY <2>1 DEF Settled
      <4>2. /\ Len(r.got[t]) = Len(peer.got[t]) /\ peer.got[t] = Tokens(t, 0, Len(peer.got[t]))
        BY <2>8, <3>4, <4>1 DEF StreamAt
      <4>3. r.got[t] = peer.got[t]
        BY <3>1, <4>2
      <4>4. buf'[t] = buf[t] /\ (t \in isAnythingWritten' <=> t \in isAnythingWritten)
        BY <1>1, <1>2, <3>4
      <4> QED BY <2>8, <3>4, <4>1, <4>3, <4>4, StreamAtSame
    <3> QED BY <3>3, <3>4
  <2>12. Settled(r, accepted, rawWrite, isAnythingWritten', buf', {}, nWriters)
    BY <2>6, <2>8, <2>11 DEF Settled, Fresh
  <2>13. peer' = r
    BY <1>1 DEF r
  <2> QED BY <1>1, <1>2, <2>3, <2>4, <2>12, <2>13, IsBetween
<1>b. ASSUME NEW z \in Streams, NEW f \in Seq(Bytes), EndingNow(z, f) PROVE Sound'
  <2>1. z = s /\ s \in rawWrite \ wasFCloseCalled /\ rawWrite \ {s} \subseteq wasFCloseCalled
    BY <1>2, <1>b DEF EndingNow, Ending
  <2>2. /\ Ending(s, f, todo, rawWrite, wasFCloseCalled, buf) /\ Heard(peer, buf[s] \o f, accepted, appStatus)
        /\ Settled(ReceiveAll(peer, buf[s] \o f), accepted, rawWrite, isAnythingWritten, buf, {s}, nWriters)
    BY <1>3, <1>b, <2>1 DEF EndingNow, SettledNow
  <2>3. PutsLeft(s, todo', f) \/ (AtClosed(s, todo') /\ f = <<>>)
    <3>1. Head(todo).op = "write"
      BY <1>1 DEF Calling
    <3> QED BY <1>1, <2>2, <3>1, EndingTop
  <2>4. buf'[s] = <<>> /\ buf[s] \in Seq(Bytes)
    BY <1>1, <1>2, <2>1
  <2>5. Ending(s, f, todo', rawWrite, wasFCloseCalled, buf')
    BY <2>1, <2>3, <2>4, Zenon DEF Ending
  <2>6. buf'[s] \o f = f
    BY <2>4, ConcatEmptySeq
  <2>7. /\ ReceiveAll(peer, buf[s] \o f) = ReceiveAll(peer', f) /\ Heard(peer', f, accepted, appStatus)
    BY <1>1, <2>2, <2>4, ReceiveConcat, HeardConcat
  <2>8. Settled(ReceiveAll(peer', f), accepted, rawWrite, isAnythingWritten', buf', Encapsulated(todo'), nWriters)
    <3>1. \A t \in Streams \ rawWrite : t # s
      BY <2>1
    <3>2. Encapsulated(todo') \subseteq {s}
      <4>1. Head(todo').s = s
        BY <2>5, EndingTop
      <4> QED BY <4>1 DEF Encapsulated, Calling
    <3>3. \A t \in Streams \ rawWrite :
             buf'[t] = buf[t] /\ (t \in isAnythingWritten' <=> t \in isAnythingWritten) /\ (t \in Encapsulated(todo') <=> t \in {s})
      BY <1>1, <1>2, <3>1, <3>2
    <3> QED BY <2>2, <2>7, <3>3, SettledOn
  <2> QED BY <1>1, <1>2, <2>5, <2>6, <2>7, <2>8, IsEnding
<1> QED BY <1>a, <1>b DEF Sound

LEMMA NothingHeard ==
  ASSUME NEW n, NEW a, NEW q, Fresh(q, n)
  PROVE  Heard(q, <<>>, n, a) /\ ReceiveAll(q, <<>>) = q
<1>1. Good(q, n, a)
  BY DEF Fresh, Good
<1>2. ReceiveAll(q, <<>>) = q
  BY ReceiveNone
<1>3. Len(<<>>) = 0 /\ SubSeq(<<>>, 1, 0) = <<>>
  OBVIOUS
<1>4. \A k \in 0 .. Len(<<>>) : k = 0
  BY <1>3
<1> QED BY <1>1, <1>2, <1>3, <1>4, Zenon DEF Heard

(* The calls WriteCloseRecords pushes put a \o b.                           *)
LEMMA CloseCalls ==
  ASSUME NEW s \in Streams, NEW t \in Seq(Calls), LastWrite(s, t), NEW a \in Seq(Bytes), NEW b \in Seq(Bytes),
         NEW x, x = PutStr(s, a) \/ (x = <<>> /\ a = <<>>), NEW y, y = PutStr(s, b) \/ (y = <<>> /\ b = <<>>)
  PROVE  PutsLeft(s, (x \o y) \o t, a \o b)
<1>1. x \in Seq(Calls) /\ y \in Seq(Calls)
  <2>1. <<>> \in Seq(Calls)
    OBVIOUS
  <2> QED BY <2>1, Puts
<1>2. (x \o y) \o t = x \o (y \o t) /\ y \o t \in Seq(Calls)
  BY <1>1, Concats, Zenon
<1>3. OneLeft(s, y \o t, b)
  <2>1. CASE y = PutStr(s, b)
    <3>1. Calling(y \o t, "put", s) /\ Head(y \o t).bytes = b /\ Tail(y \o t) = t
      BY <2>1, PushedCalls
    <3> QED BY <3>1, Zenon DEF OneLeft
  <2>2. CASE y = <<>> /\ b = <<>>
    <3>1. y \o t = t
      BY <2>2, PushedCalls
    <3> QED BY <2>2, <3>1, Zenon DEF OneLeft
  <2> QED BY <2>1, <2>2
<1>4. PutsLeft(s, x \o (y \o t), a \o b)
  <2> DEFINE u == y \o t
  <2>0. u \in Seq(Calls) /\ OneLeft(s, u, b)
    BY <1>2, <1>3
  <2> HIDE DEF u
  <2>1. CASE x = PutStr(s, a)
    <3>1. Calling(x \o u, "put", s) /\ Head(x \o u).bytes = a /\ Tail(x \o u) = u
      BY <2>0, <2>1, PushedCalls
    <3>2. PutsLeft(s, x \o u, a \o b)
      BY <2>0, <3>1, Zenon DEF PutsLeft
    <3> QED BY <3>2 DEF u
  <2>2. CASE x = <<>> /\ a = <<>>
    <3>1. x \o u = u /\ a \o b = b
      BY <2>0, <2>2, PushedCalls, ConcatEmptySeq
    <3>2. PutsLeft(s, x \o u, a \o b)
      BY <2>0, <3>1, Zenon DEF PutsLeft
    <3> QED BY <3>2 DEF u
  <2> QED BY <2>1, <2>2
<1> QED BY <1>2, <1>4

LEMMA WriteCloseRecordsSound ==
  ASSUME StreamInv, Sound, NEW s \in Streams, WriteCloseRecords(s)
  PROVE  Sound'
<1> DEFINE skip == s = "err" /\ buf[s] = <<>> /\ s \notin isAnythingWritten
           a == IF skip THEN <<>> ELSE Header(s, 0, 0)
           b == IF nWriters = 1 THEN EndRequest(appStatus) ELSE <<>>
           x == IF skip THEN <<>> ELSE PutStr(s, Header(s, 0, 0))
           y == IF nWriters = 1 THEN PutStr(s, EndRequest(appStatus)) ELSE <<>>
           n == accepted
<1>1. /\ Calling(todo, "closeRecords", s) /\ todo \in Seq(Calls) /\ todo # <<>> /\ Tail(todo) \in Seq(Calls)
      /\ rawWrite' = rawWrite \cup {s} /\ nWriters' = nWriters - 1
      /\ UNCHANGED <<buf, isClosed, FCGI_errno, wasFCloseCalled, isAnythingWritten, appStatus, accepted, peer>>
  BY Popped DEF WriteCloseRecords
<1>2. /\ buf \in [Streams -> Seq(Bytes)] /\ n \in [Streams -> Nat] /\ isClosed = wasFCloseCalled
      /\ wasFCloseCalled \subseteq rawWrite /\ nWriters \in Nat /\ appStatus \in Statuses \cup {0}
  BY Popped DEF WriteCloseRecords, StreamInv, StreamType
<1>3. todo' = (x \o y) \o Tail(todo)
  BY Zenon DEF WriteCloseRecords, Then
<1>4. Encapsulated(todo) = {s}
  BY <1>1, EncapsulatedOne
<1>5. BetweenNow
  <2> SUFFICES ASSUME NEW z \in Streams, NEW f \in Seq(Bytes), EndingNow(z, f) PROVE FALSE
    BY DEF Sound
  <2>1. Head(todo).op \in {"put", "write", "encapsulate", "closed"}
    BY EndingTop DEF EndingNow
  <2> QED BY <1>1, <2>1 DEF Calling
<1>6. /\ Between(todo, rawWrite, wasFCloseCalled, n) /\ rawWrite \subseteq wasFCloseCalled
      /\ Settled(peer, n, rawWrite, isAnythingWritten, buf, {s}, nWriters)
  BY <1>4, <1>5 DEF BetweenNow, SettledNow, Between
<1>7. s \notin rawWrite /\ LastWrite(s, Tail(todo))
  <2>1. ~(Head(todo).op \in Base) /\ Head(todo).op = "closeRecords" /\ Head(todo).s = s
    BY <1>1 DEF Base, Calling
  <2>2. \E z \in Streams :
            \/ /\ Calling(todo, "put", z) /\ Tail(todo) = <<>>
               /\ z \notin rawWrite => Head(todo).bytes = Tokens(z, n[z], Len(Head(todo).bytes))
            \/ /\ z \notin rawWrite
               /\ \/ Flushes(z, todo, rawWrite, n) \/ Closes(z, todo)
                  \/ /\ Calling(todo, "encapsulate", z)
                     /\ Flushes(z, Tail(todo), rawWrite, n) \/ Closes(z, Tail(todo))
    BY <1>1, <1>6, <2>1, BetweenTop, Zenon
  <2> QED BY <2>1, <2>2 DEF Calling, Flushes, Closes
<1> DEFINE g == Len(peer.got[s])
           k == n[s] - g
           q1 == ReceiveAll(peer, buf[s])
           q2 == ReceiveAll(q1, a)
           q3 == ReceiveAll(q2, b)
<1>8. /\ g \in Nat /\ k \in Nat /\ s \notin peer.eof /\ n[s] \in Nat /\ g + k = n[s]
      /\ (s \notin isAnythingWritten => g = 0) /\ buf[s] = Record(s, g, k)
  <2>1. StreamAt(s, peer, n, rawWrite, isAnythingWritten, buf, {s}) /\ peer \in Peers
    BY <1>6 DEF Settled
  <2>2. g <= n[s] /\ BufferAt(s, peer, n, isAnythingWritten, buf, {s})
    BY <1>7, <2>1 DEF StreamAt
  <2>3. g \in Nat /\ n[s] \in Nat
    BY <1>2, <2>1, PeersTyped
  <2> QED BY <2>2, <2>3 DEF BufferAt
<1>9. nWriters \in {1, 2} /\ Fresh(peer, n)
  <2>1. nWriters \in {1, 2}
    BY <1>7, WritersLeft
  <2>2. nWriters \in Nat /\ nWriters > 0
    BY <2>1
  <2> QED BY <1>2, <1>6, <2>1, <2>2, SettledIsFresh
<1>10. a \in Seq(Bytes) /\ b \in Seq(Bytes) /\ buf[s] \in Seq(Bytes) /\ a \o b \in Seq(Bytes)
  <2>1. Header(s, 0, 0) \in Seq(Bytes) /\ EndRequest(appStatus) \in Seq(Bytes) /\ <<>> \in Seq(Bytes)
    BY <1>2, BytesTyped
  <2>2. a \in Seq(Bytes) /\ b \in Seq(Bytes)
    BY <2>1, Zenon
  <2> HIDE DEF a, b
  <2> QED BY <1>2, <2>2, Concats
<1> HIDE DEF q1
<1>11. Heard(peer, buf[s], n, appStatus) /\ HasRead(peer, q1, n, s, k)
  <2>1. Len(peer.got[s]) + k <= n[s] /\ k \in Nat /\ s \notin peer.eof /\ buf[s] = Record(s, Len(peer.got[s]), k)
    BY <1>8
  <2> HIDE DEF k
  <2>2. /\ Heard(peer, Record(s, Len(peer.got[s]), k), n, appStatus)
        /\ HasRead(peer, ReceiveAll(peer, Record(s, Len(peer.got[s]), k)), n, s, k)
    BY <1>2, <1>9, <2>1, RecordHeard
  <2> QED BY <2>1, <2>2 DEF q1
<1>12. skip => n[s] = 0
  <2> SUFFICES ASSUME skip PROVE n[s] = 0
    OBVIOUS
  <2> HIDE DEF g, k
  <2>1. g = 0 /\ buf[s] = <<>>
    BY <1>8
  <2>2. k # 0 => IsRecord(Record(s, g, k), s, k, Padding(k), g, 0) /\ Padding(k) \in Nat
    BY <1>8, StreamRecord, PaddingTyped
  <2>3. k # 0 => Len(Record(s, g, k)) > 0
    BY <1>8, <2>2, LengthsAssumption DEF IsRecord
  <2> QED BY <1>8, <2>1, <2>3
<1>13. /\ Fresh(q1, n) /\ q1.eof = peer.eof /\ Len(q1.got[s]) = n[s]
       /\ \A t \in Streams : t # s => Len(q1.got[t]) = Len(peer.got[t])
  BY <1>8, <1>11 DEF HasRead
<1> HIDE DEF g, k, q2
<1>14. /\ Heard(q1, a, n, appStatus) /\ Fresh(q2, n) /\ q2.eof = (IF skip THEN peer.eof ELSE peer.eof \cup {s})
       /\ \A t \in Streams : Len(q2.got[t]) = Len(q1.got[t])
  <2>1. CASE skip
    <3>1. a = <<>>
      BY <2>1
    <3>2. q2 = q1 /\ Heard(q1, a, n, appStatus)
      BY <1>13, <3>1, NothingHeard DEF q2
    <3> QED BY <1>13, <2>1, <3>2
  <2>2. CASE ~skip
    <3>1. a = Header(s, 0, 0)
      BY <2>2
    <3>2. Heard(q1, Header(s, 0, 0), n, appStatus) /\ HasClosed(q1, ReceiveAll(q1, Header(s, 0, 0)), n, s)
      BY <1>2, <1>13, CloseHeard
    <3>3. Heard(q1, a, n, appStatus) /\ HasClosed(q1, q2, n, s)
      BY <3>1, <3>2 DEF q2
    <3> QED BY <1>13, <2>2, <3>3 DEF HasClosed
  <2> QED BY <2>1, <2>2
<1> HIDE DEF q3
<1>15. /\ Heard(q2, b, n, appStatus) /\ q3 \in Peers /\ AtRest(q3) /\ (q3.ended = <<>> <=> nWriters' > 0)
       /\ q3.eof = q2.eof /\ \A t \in Streams : q3.got[t] = q2.got[t]
  <2>1. CASE nWriters = 1
    <3>1. b = EndRequest(appStatus)
      BY <2>1
    <3>2. ASSUME NEW t \in Streams PROVE (t = "out" \/ n[t] > 0) => t \in q2.eof
      <4>1. CASE t = s
        <5>1. t = "out" \/ n[t] > 0 => ~skip
          BY <1>12, <4>1
        <5> QED BY <1>14, <4>1, <5>1
      <4>2. CASE t # s
        <5>1. t \in rawWrite
          BY <1>7, <2>1, <4>2, WritersLeft
        <5>2. StreamAt(t, peer, n, rawWrite, isAnythingWritten, buf, {s})
          BY <1>6 DEF Settled
        <5>3. (t = "out" \/ n[t] > 0) => t \in peer.eof
          BY <5>1, <5>2 DEF StreamAt, RawAt
        <5>4. peer.eof \subseteq q2.eof
          BY <1>14
        <5> QED BY <5>3, <5>4
      <4> QED BY <4>1, <4>2
    <3>3. "out" \in q2.eof /\ \A t \in Streams : n[t] > 0 => t \in q2.eof
      BY <3>2 DEF Streams
    <3>4. Heard(q2, EndRequest(appStatus), n, appStatus) /\ HasEnded(q2, ReceiveAll(q2, EndRequest(appStatus)), appStatus)
      BY <1>2, <1>14, <3>3, EndHeard
    <3>5. Heard(q2, b, n, appStatus) /\ HasEnded(q2, q3, appStatus)
      BY <3>1, <3>4 DEF q3
    <3>6. q3.ended # <<>> /\ ~(nWriters' > 0)
      BY <1>1, <2>1, <3>5 DEF HasEnded
    <3> QED BY <3>5, <3>6 DEF HasEnded
  <2>2. CASE nWriters # 1
    <3>1. b = <<>> /\ nWriters' > 0
      BY <1>1, <1>9, <2>2
    <3>2. q3 = q2 /\ Heard(q2, b, n, appStatus)
      BY <1>14, <3>1, NothingHeard DEF q3
    <3> QED BY <1>14, <3>1, <3>2 DEF Fresh
  <2> QED BY <2>1, <2>2
<1>16. Ending(s, a \o b, todo', rawWrite', wasFCloseCalled, buf)
  <2>1. x = PutStr(s, a) \/ (x = <<>> /\ a = <<>>)
    BY Zenon
  <2>2. y = PutStr(s, b) \/ (y = <<>> /\ b = <<>>)
    BY Zenon
  <2> HIDE DEF a, b, x, y
  <2>3. PutsLeft(s, todo', a \o b)
    BY <1>1, <1>3, <1>7, <1>10, <2>1, <2>2, CloseCalls
  <2>4. s \in rawWrite' \ wasFCloseCalled /\ rawWrite' \ {s} \subseteq wasFCloseCalled
    BY <1>1, <1>2, <1>6, <1>7
  <2> QED BY <2>3, <2>4, Zenon DEF Ending
<1> HIDE DEF a, b, x, y, skip
<1>17. ReceiveAll(peer, buf[s] \o (a \o b)) = q3
  <2>1. ReceiveAll(peer, buf[s] \o (a \o b)) = ReceiveAll(q1, a \o b)
    <3> DEFINE c == a \o b
    <3>1. c \in Seq(Bytes)
      BY <1>10
    <3> HIDE DEF c
    <3>2. ReceiveAll(peer, buf[s] \o c) = ReceiveAll(ReceiveAll(peer, buf[s]), c)
      BY <1>10, <3>1, ReceiveConcat
    <3> QED BY <3>2 DEF q1, c
  <2>2. ReceiveAll(q1, a \o b) = q3
    BY <1>10, ReceiveConcat DEF q2, q3
  <2> QED BY <2>1, <2>2
<1>18. Heard(peer, buf[s] \o (a \o b), n, appStatus)
  <2>1. Heard(q1, a \o b, n, appStatus)
    BY <1>10, <1>14, <1>15, HeardConcat DEF q2
  <2> QED BY <1>10, <1>11, <2>1, HeardConcat DEF q1
<1>19. \A t \in Streams : StreamAt(t, q3, n, rawWrite', isAnythingWritten, buf, Encapsulated(todo'))
  <2>1. ASSUME NEW t \in Streams
        PROVE  Len(q3.got[t]) <= n[t] /\ q3.got[t] = Tokens(t, 0, Len(q3.got[t])) /\ Len(q3.got[t]) = Len(q1.got[t])
    BY <1>14, <1>15 DEF Fresh
  <2>2. StreamAt(s, q3, n, rawWrite', isAnythingWritten, buf, Encapsulated(todo'))
    <3>1. s = "out" \/ n[s] > 0 => s \in q3.eof
      <4>1. s = "out" \/ n[s] > 0 => ~skip
        BY <1>12 DEF skip
      <4> QED BY <1>14, <1>15, <4>1
    <3>2. RawAt(s, q3, n)
      BY <1>13, <2>1, <3>1 DEF RawAt
    <3> QED BY <1>1, <2>1, <3>2 DEF StreamAt
  <2>3. ASSUME NEW t \in Streams, t # s PROVE StreamAt(t, q3, n, rawWrite', isAnythingWritten, buf, Encapsulated(todo'))
    <3>1. StreamAt(t, peer, n, rawWrite, isAnythingWritten, buf, {s})
      BY <1>6 DEF Settled
    <3>2. Len(q3.got[t]) = Len(peer.got[t]) /\ peer.got[t] = Tokens(t, 0, Len(peer.got[t]))
      BY <1>13, <2>1, <2>3, <3>1 DEF StreamAt
    <3>3. q3.got[t] = peer.got[t]
      BY <2>1, <3>2
    <3>4. t \in q3.eof <=> t \in peer.eof
      BY <1>14, <1>15, <2>3
    <3>5. t \notin Encapsulated(todo')
      <4>1. Head(todo').s = s
        BY <1>10, <1>16, EndingTop
      <4> QED BY <2>3, <4>1 DEF Encapsulated, Calling
    <3>6. (t \in rawWrite' <=> t \in rawWrite) /\ (t \in Encapsulated(todo') <=> t \in {s})
      BY <1>1, <2>3, <3>5
    <3> QED BY <3>1, <3>3, <3>4, <3>6, StreamAtSame
  <2> QED BY <2>2, <2>3
<1>20. Settled(q3, n, rawWrite', isAnythingWritten, buf, Encapsulated(todo'), nWriters')
  BY <1>15, <1>19 DEF Settled
<1>21. /\ Ending(s, a \o b, todo', rawWrite', wasFCloseCalled', buf')
       /\ Settled(ReceiveAll(peer', buf'[s] \o (a \o b)), accepted', rawWrite', isAnythingWritten', buf',
                  Encapsulated(todo'), nWriters')
       /\ Heard(peer', buf'[s] \o (a \o b), accepted', appStatus')
  BY <1>1, <1>16, <1>17, <1>18, <1>20
<1>22. isClosed' = wasFCloseCalled' /\ wasFCloseCalled' \subseteq rawWrite'
  BY <1>1, <1>2
<1> QED BY <1>10, <1>21, <1>22, IsEnding

LEMMA BeginFCloseSound ==
  ASSUME StreamInv, Sound, NEW s \in Streams, BeginFClose(s)
  PROVE  Sound'
<1>1. /\ Calling(todo, "fclose", s) /\ todo \in Seq(Calls) /\ todo # <<>> /\ Tail(todo) \in Seq(Calls)
      /\ Then(<<>>) => todo' = Tail(todo)
      /\ UNCHANGED <<buf, isClosed, wasFCloseCalled, rawWrite, isAnythingWritten, nWriters, accepted, peer>>
  BY Popped DEF BeginFClose, stream, request
<1>2. BetweenNow
  <2> SUFFICES ASSUME NEW z \in Streams, NEW f \in Seq(Bytes), EndingNow(z, f) PROVE FALSE
    BY DEF Sound
  <2>1. Head(todo).op \in {"put", "write", "encapsulate", "closed"}
    BY EndingTop DEF EndingNow
  <2> QED BY <1>1, <2>1 DEF Calling
<1>3. AllBase(todo) /\ rawWrite \subseteq wasFCloseCalled
  <2>1. Between(todo, rawWrite, wasFCloseCalled, accepted)
    BY <1>2 DEF BetweenNow
  <2>2. \/ AllBase(todo)
        \/ \E z \in Streams : Calling(todo, "put", z) \/ Calling(todo, "write", z) \/ Calling(todo, "closeRecords", z)
                              \/ Calling(todo, "encapsulate", z)
    BY <1>1, <2>1, BetweenTop, Zenon DEF Flushes, Closes
  <2> QED BY <1>1, <2>1, <2>2 DEF Between, Calling
<1>4. AllBase(Tail(todo))
  <2>1. \A i \in DOMAIN Tail(todo) : Tail(todo)[i] = todo[i + 1] /\ i + 1 \in DOMAIN todo
    BY <1>1
  <2> QED BY <1>3, <2>1 DEF AllBase
<1>5. Encapsulated(todo) = {}
  BY <1>1, OpsDiffer DEF Calling
<1>6. CASE s \in wasFCloseCalled
  <2>1. todo' = Tail(todo)
    BY <1>1, <1>6 DEF BeginFClose
  <2>2. Between(todo', rawWrite, wasFCloseCalled, accepted)
    BY <1>3, <1>4, <2>1 DEF Between
  <2>3. todo' = <<>> \/ Head(todo').op \notin {"write", "closeRecords"}
    <3>1. todo' # <<>> => Head(todo') = todo'[1] /\ 1 \in DOMAIN todo'
      BY <1>1, <2>1
    <3> QED BY <1>4, <2>1, <3>1 DEF AllBase, Base
  <2>4. Encapsulated(todo') = {}
    BY <2>3, OpsDiffer
  <2> QED BY <1>1, <1>2, <1>5, <2>2, <2>4, StaysBetween
<1>7. CASE s \notin wasFCloseCalled
  <2>1. todo' = (EmptyAndClose(s) \o <<Call("closed", s, <<>>)>>) \o Tail(todo)
    BY <1>7, Zenon DEF BeginFClose, Then
  <2>2. /\ Calling(todo', "encapsulate", s) /\ Calling(Tail(todo'), "closeRecords", s)
        /\ Calling(Tail(Tail(todo')), "write", s) /\ Calling(Tail(Tail(Tail(todo'))), "closed", s)
        /\ Tail(Tail(Tail(Tail(todo')))) = Tail(todo)
    BY <1>1, <2>1, PushedCalls, Zenon
  <2>3. Closes(s, Tail(todo'))
    BY <1>4, <2>2 DEF Closes, LastWrite, AtClosed
  <2>4. Between(todo', rawWrite, wasFCloseCalled, accepted)
    BY <1>3, <1>7, <2>2, <2>3 DEF Between
  <2>5. Encapsulated(todo') = {}
    BY <2>2, OpsDiffer DEF Calling
  <2> QED BY <1>1, <1>2, <1>5, <2>4, <2>5, StaysBetween
<1> QED BY <1>6, <1>7

LEMMA EndFCloseSound ==
  ASSUME StreamInv, Sound, NEW s \in Streams, EndFClose(s)
  PROVE  Sound'
<1>1. /\ Calling(todo, "closed", s) /\ todo \in Seq(Calls) /\ todo # <<>> /\ Tail(todo) \in Seq(Calls)
      /\ todo' = Tail(todo) /\ wasFCloseCalled' = wasFCloseCalled \cup {s} /\ isClosed' = isClosed \cup {s}
      /\ UNCHANGED <<buf, rawWrite, isAnythingWritten, nWriters, accepted, peer>>
  BY Popped DEF EndFClose, request
<1>2. isClosed = wasFCloseCalled /\ wasFCloseCalled \subseteq rawWrite
  BY DEF Sound
<1>3. ~BetweenNow
  <2> SUFFICES ASSUME Between(todo, rawWrite, wasFCloseCalled, accepted) PROVE FALSE
    BY DEF BetweenNow
  <2>1. Head(todo).op = "closed" /\ ~(Head(todo).op \in Base)
    BY <1>1 DEF Calling, Base
  <2>2. \E z \in Streams : Calling(todo, "put", z) \/ Calling(todo, "write", z) \/ Calling(todo, "closeRecords", z)
                           \/ Calling(todo, "encapsulate", z)
    BY <1>1, <2>1, BetweenTop, Zenon DEF Flushes, Closes
  <2> QED BY <2>1, <2>2 DEF Calling
<1>4. PICK z \in Streams : \E f \in Seq(Bytes) : EndingNow(z, f)
  BY <1>3 DEF Sound
<1>5. PICK f \in Seq(Bytes) : EndingNow(z, f)
  BY <1>4
<1>6. /\ Ending(z, f, todo, rawWrite, wasFCloseCalled, buf)
      /\ Settled(ReceiveAll(peer, buf[z] \o f), accepted, rawWrite, isAnythingWritten, buf, Encapsulated(todo), nWriters)
  BY <1>5 DEF EndingNow, SettledNow
<1>7. z = s /\ AllBase(Tail(todo)) /\ f = <<>> /\ buf[z] = <<>>
  BY <1>1, <1>6, EndingTop DEF Calling
<1>8. s \in rawWrite /\ rawWrite \ {s} \subseteq wasFCloseCalled
  BY <1>6, <1>7, Zenon DEF Ending
<1>9. ReceiveAll(peer, buf[z] \o f) = peer
  <2>1. <<>> \o <<>> = <<>>
    BY ConcatEmptySeq
  <2> QED BY <1>7, <2>1, ReceiveNone
<1>10. Encapsulated(todo) = {}
  BY <1>1, OpsDiffer DEF Calling
<1>11. Encapsulated(todo') = {}
  <2>1. todo' # <<>> => Head(todo') = todo'[1] /\ 1 \in DOMAIN todo'
    BY <1>1
  <2>2. todo' = <<>> \/ Head(todo').op \notin {"write", "closeRecords"}
    BY <1>1, <1>7, <2>1 DEF AllBase, Base
  <2> QED BY <2>2, OpsDiffer
<1>12. Between(todo', rawWrite', wasFCloseCalled', accepted')
  BY <1>1, <1>7, <1>8 DEF Between
<1>13. Settled(peer', accepted', rawWrite', isAnythingWritten', buf', Encapsulated(todo'), nWriters')
  BY <1>1, <1>6, <1>9, <1>10, <1>11
<1>14. isClosed' = wasFCloseCalled' /\ wasFCloseCalled' \subseteq rawWrite'
  BY <1>1, <1>2, <1>8
<1> QED BY <1>12, <1>13, <1>14, IsBetween

LEMMA FreeRequestSound ==
  ASSUME StreamInv, Sound, FreeRequest
  PROVE  Sound' /\ BetweenNow
<1> DEFINE c == Call("free", "out", <<>>)
<1>1. c \in Calls /\ c.op = "free"
  BY CallsTyped DEF Ops, Streams
<1>2. todo = <<c>> /\ todo' = <<>> \o Tail(todo)
  BY Zenon DEF FreeRequest, Free, Then
<1> HIDE DEF c
<1>3. todo' = <<>> /\ todo # <<>> /\ Head(todo).op = "free"
  BY <1>1, <1>2
<1>4. UNCHANGED <<buf, isClosed, wasFCloseCalled, rawWrite, isAnythingWritten, nWriters, accepted, peer>>
  BY DEF FreeRequest, stream, request
<1>5. BetweenNow
  <2> SUFFICES ASSUME NEW z \in Streams, NEW f \in Seq(Bytes), EndingNow(z, f) PROVE FALSE
    BY DEF Sound
  <2>1. Head(todo).op \in {"put", "write", "encapsulate", "closed"}
    BY EndingTop DEF EndingNow
  <2> QED BY <1>3, <2>1
<1>6. Between(todo', rawWrite, wasFCloseCalled, accepted)
  BY <1>3, <1>5 DEF BetweenNow, Between, Rest, Streams
<1>7. Encapsulated(todo) = {} /\ Encapsulated(todo') = {}
  BY <1>3, OpsDiffer
<1> QED BY <1>4, <1>5, <1>6, <1>7, StaysBetween

LEMMA SoundStarts ==
  ASSUME Init
  PROVE  Sound
<1>1. /\ buf = [s \in Streams |-> Unset] /\ isClosed = {} /\ wasFCloseCalled = {} /\ rawWrite = {}
      /\ isAnythingWritten = {} /\ nWriters = 2 /\ todo = <<>> /\ accepted = [s \in Streams |-> 0] /\ peer = NoPeer
  BY DEF Init
<1>2. Encapsulated(todo) = {}
  BY <1>1, OpsDiffer
<1>3. peer \in Peers /\ AtRest(peer) /\ peer.ended = <<>> /\ peer.eof = {} /\ \A s \in Streams : peer.got[s] = <<>>
  <2>1. 0 \in 0 .. HeaderLen
    BY LengthsAssumption
  <2> QED BY <1>1, <2>1 DEF NoPeer, Peers, AtRest
<1>4. ASSUME NEW s \in Streams PROVE StreamAt(s, peer, accepted, rawWrite, isAnythingWritten, buf, {})
  <2>1. Len(peer.got[s]) = 0 /\ accepted[s] = 0 /\ 0 - 0 = 0
    BY <1>1, <1>3
  <2>2. Tokens(s, 0, 0) = <<>>
    <3>1. Tokens(s, 0, 0) \in Seq(Bytes) /\ Len(Tokens(s, 0, 0)) = 0
      BY TokensTyped
    <3> QED BY <3>1
  <2>3. Unset \o <<>> = Unset
    BY BytesTyped, ConcatEmptySeq
  <2>4. BufferAt(s, peer, accepted, isAnythingWritten, buf, {})
    BY <1>1, <1>3, <2>1, <2>2, <2>3 DEF BufferAt
  <2> QED BY <1>1, <1>3, <2>1, <2>2, <2>4 DEF StreamAt
<1>5. Settled(peer, accepted, rawWrite, isAnythingWritten, buf, Encapsulated(todo), nWriters)
  <2>1. peer.ended = <<>> <=> nWriters > 0
    BY <1>1, <1>3
  <2> QED BY <1>2, <1>3, <1>4, <2>1, Zenon DEF Settled
<1>6. Between(todo, rawWrite, wasFCloseCalled, accepted)
  BY <1>1 DEF Between, Rest, Streams
<1> QED BY <1>1, <1>5, <1>6 DEF Sound, BetweenNow, SettledNow

LEMMA FreedKept ==
  ASSUME todo \in Seq(Calls), todo # <<>>, NEW calls \in Seq(Calls), Then(calls), Freed(todo, wasFCloseCalled),
         \A i \in DOMAIN calls : calls[i].op # "free", wasFCloseCalled \subseteq wasFCloseCalled',
         todo[1].op \in {"fclose", "closed"} =>
           todo[1].s \in wasFCloseCalled' \/ \E j \in DOMAIN calls : calls[j].s = todo[1].s /\ calls[j].op = "closed"
  PROVE  Freed(todo', wasFCloseCalled')
<1> SUFFICES ASSUME NEW i \in DOMAIN todo', todo'[i].op = "free", NEW s \in Streams, s \notin wasFCloseCalled'
             PROVE  \E j \in DOMAIN todo' : todo'[j].s = s /\ todo'[j].op \in {"fclose", "closed"}
  BY Zenon DEF Freed
<1>1. PICK k \in DOMAIN todo : todo'[i] = todo[k]
  BY ThenCalls
<1>2. PICK j \in DOMAIN todo : todo[j].s = s /\ todo[j].op \in {"fclose", "closed"}
  BY <1>1 DEF Freed
<1>3. CASE j > 1
  BY <1>2, <1>3, ThenCalls
<1>4. CASE ~(j > 1)
  <2>1. j = 1
    BY <1>4
  <2>2. PICK h \in DOMAIN calls : calls[h].s = s /\ calls[h].op = "closed"
    BY <1>2, <2>1
  <2> QED BY <2>2, ThenCalls
<1> QED BY <1>3, <1>4

LEMMA FreedStep ==
  ASSUME StreamInv, Freed(todo, wasFCloseCalled), [Next]_vars
  PROVE  Freed(todo', wasFCloseCalled')
<1>1. ASSUME \A i \in DOMAIN todo' : todo'[i].op # "free" PROVE Freed(todo', wasFCloseCalled')
  BY <1>1 DEF Freed
<1>2. ASSUME NEW s \in Streams, NEW n \in PutSizes, CallPutStr(s, n) PROVE Freed(todo', wasFCloseCalled')
  <2> DEFINE b == [i \in 1 .. n |-> <<s, accepted[s] + i>>]
  <2>1. n \in Nat /\ accepted[s] \in Nat
    BY LengthsAssumption DEF StreamInv, StreamType
  <2>2. b = Tokens(s, accepted[s], n)
    BY Zenon DEF Tokens
  <2>3. todo' = PutStr(s, b)
    BY <1>2, Zenon DEF CallPutStr, Start
  <2> HIDE DEF b
  <2>4. b \in Seq(Bytes)
    BY <2>1, <2>2, TokensTyped
  <2> QED BY <1>1, <2>3, <2>4, Puts
<1>3. ASSUME NEW s \in Streams, CallFFlush(s) PROVE Freed(todo', wasFCloseCalled')
  BY <1>1, <1>3, FlushCalls DEF CallFFlush, Start, Moving
<1>4. ASSUME NEW s \in Streams, CallFClose(s) PROVE Freed(todo', wasFCloseCalled')
  <2> DEFINE c == Call("fclose", s, <<>>)
  <2>1. todo' = <<c>>
    BY <1>4, Zenon DEF CallFClose, Start, FClose
  <2>2. c.op = "fclose"
    BY DEF Call
  <2> HIDE DEF c
  <2> QED BY <1>1, <2>1, <2>2
<1>5. CASE CallFinish
  <2>1. \A s \in Streams : \E j \in DOMAIN todo' : todo'[j].s = s /\ todo'[j].op \in {"fclose", "closed"}
    BY <1>5, FinishCalls DEF Streams
  <2> QED BY <2>1 DEF Freed
<1>6. ASSUME NEW a \in Statuses, SetExitStatus(a) PROVE Freed(todo', wasFCloseCalled')
  BY <1>6 DEF SetExitStatus, stream
<1>7. ASSUME NEW op, NEW s \in Streams, Top(op, s)
      PROVE  todo \in Seq(Calls) /\ todo # <<>> /\ todo[1].op = op /\ todo[1].s = s
  BY <1>7, TopCall
<1>17. ASSUME NEW op, NEW s \in Streams, Top(op, s), op \notin {"fclose", "closed"}, NEW calls \in Seq(Calls),
              Then(calls), \A i \in DOMAIN calls : calls[i].op # "free", UNCHANGED wasFCloseCalled
       PROVE  Freed(todo', wasFCloseCalled')
  <2>1. todo \in Seq(Calls) /\ todo # <<>> /\ todo[1].op = op /\ todo[1].s = s
    BY <1>7, <1>17
  <2> QED BY <1>17, <2>1, FreedKept
<1>8. <<>> \in Seq(Calls) /\ \A i \in DOMAIN <<>> : <<>>[i].op # "free"
  OBVIOUS
<1>9. ASSUME NEW s \in Streams, Put(s) PROVE Freed(todo', wasFCloseCalled')
  <2> DEFINE bytes == Head(todo).bytes
             m     == IF Len(bytes) <= Room(s) THEN Len(bytes) ELSE Room(s)
             rest  == SubSeq(bytes, m + 1, Len(bytes))
  <2>1. Top("put", s) /\ UNCHANGED wasFCloseCalled /\ (Then(<<>>) \/ Then(EmptyBuffProc(s) \o PutStr(s, rest)))
    BY <1>9, Zenon DEF Put, stream
  <2>2. bytes \in Seq(Bytes) /\ m \in Nat /\ m <= Len(bytes)
    <3>1. Head(todo) \in Calls /\ buf \in [Streams -> Seq(Bytes)] /\ full \in [Streams -> Nat] /\ Len(buf[s]) <= full[s]
      BY <2>1, TopCall DEF StreamInv, StreamType, Whole
    <3>2. bytes \in Seq(Bytes) /\ Len(bytes) \in Nat
      BY <3>1 DEF Calls
    <3>3. Len(buf[s]) \in Nat /\ full[s] \in Nat
      BY <3>1
    <3> QED BY <3>1, <3>2, <3>3 DEF Room
  <2> HIDE DEF bytes, m
  <2>3. rest \in Seq(Bytes)
    BY <2>2
  <2> DEFINE e == EmptyBuffProc(s)
             p == PutStr(s, rest)
  <2>4. /\ e \in Seq(Calls) /\ p \in Seq(Calls) /\ \A i \in DOMAIN e : e[i].op # "free"
        /\ \A i \in DOMAIN p : p[i].op # "free"
    <3>1. e \in Seq(Calls) /\ \A i \in DOMAIN e : e[i].op # "free"
      BY FlushCalls DEF Moving
    <3> HIDE DEF rest
    <3>2. p \in Seq(Calls) /\ \A i \in DOMAIN p : p[i].op = "put"
      BY <2>3, Puts, Zenon
    <3> HIDE DEF e, p
    <3> QED BY <3>1, <3>2
  <2> HIDE DEF e, p
  <2>5. e \o p \in Seq(Calls) /\ \A i \in DOMAIN (e \o p) : (e \o p)[i].op # "free"
    <3>1. /\ e \o p \in Seq(Calls) /\ Len(e \o p) = Len(e) + Len(p)
          /\ \A i \in 1 .. Len(e) + Len(p) : (e \o p)[i] = IF i <= Len(e) THEN e[i] ELSE p[i - Len(e)]
      BY <2>4, ConcatProperties
    <3> QED BY <2>4, <3>1
  <2> QED BY <1>17, <1>8, <2>1, <2>5 DEF e, p
<1>10. ASSUME NEW s \in Streams, EncapsulateRecord(s) PROVE Freed(todo', wasFCloseCalled')
  BY <1>17, <1>8, <1>10 DEF EncapsulateRecord, stream
<1>11. ASSUME NEW s \in Streams, Write(s) \/ WriteFails(s) PROVE Freed(todo', wasFCloseCalled')
  BY <1>17, <1>8, <1>11 DEF Write, WriteFails
<1>12. ASSUME NEW s \in Streams, WriteCloseRecords(s) PROVE Freed(todo', wasFCloseCalled')
  <2> DEFINE x == IF s = "err" /\ buf[s] = <<>> /\ s \notin isAnythingWritten THEN <<>> ELSE PutStr(s, Header(s, 0, 0))
             y == IF nWriters = 1 THEN PutStr(s, EndRequest(appStatus)) ELSE <<>>
  <2>1. Top("closeRecords", s) /\ UNCHANGED wasFCloseCalled /\ Then(x \o y)
    BY <1>12, Zenon DEF WriteCloseRecords
  <2>2. Header(s, 0, 0) \in Seq(Bytes) /\ EndRequest(appStatus) \in Seq(Bytes)
    BY BytesTyped DEF StreamInv, StreamType
  <2>3. <<>> \in Seq(Calls) /\ \A i \in DOMAIN <<>> : <<>>[i].op = "put"
    OBVIOUS
  <2>4. /\ x \in Seq(Calls) /\ \A i \in DOMAIN x : x[i].op = "put"
        /\ y \in Seq(Calls) /\ \A i \in DOMAIN y : y[i].op = "put"
    BY <2>2, <2>3, Puts, Zenon
  <2> HIDE DEF x, y
  <2>5. x \o y \in Seq(Calls) /\ \A i \in DOMAIN (x \o y) : (x \o y)[i].op = "put"
    BY <2>4, Puts, Zenon
  <2> QED BY <1>17, <2>1, <2>5
<1>13. ASSUME NEW s \in Streams, BeginFClose(s) PROVE Freed(todo', wasFCloseCalled')
  <2> DEFINE e == Call("encapsulate", s, <<>>)
             r == Call("closeRecords", s, <<>>)
             w == Call("write", s, <<>>)
             d == Call("closed", s, <<>>)
  <2>1. Top("fclose", s) /\ UNCHANGED wasFCloseCalled
    BY <1>13 DEF BeginFClose, stream
  <2>2. todo \in Seq(Calls) /\ todo # <<>> /\ todo[1].op = "fclose" /\ todo[1].s = s
    BY <1>7, <2>1
  <2>3. CASE s \in wasFCloseCalled
    <3>1. Then(<<>>)
      BY <1>13, <2>3 DEF BeginFClose
    <3> QED BY <1>8, <2>1, <2>2, <2>3, <3>1, FreedKept
  <2>4. CASE s \notin wasFCloseCalled
    <3>1. Then(EmptyAndClose(s) \o <<d>>)
      BY <1>13, <2>4, Zenon DEF BeginFClose
    <3>2. {"encapsulate", "closeRecords", "write", "closed"} \subseteq Ops
      BY DEF Ops
    <3>3. /\ e \in Calls /\ r \in Calls /\ w \in Calls /\ d \in Calls /\ d.op = "closed" /\ d.s = s
          /\ e.op = "encapsulate" /\ r.op = "closeRecords" /\ w.op = "write"
      BY <3>2, CallsTyped, Zenon
    <3> DEFINE a == EmptyAndClose(s)
    <3>4. a = <<e, r, w>>
      BY Zenon DEF EmptyAndClose
    <3> HIDE DEF e, r, w, d, a
    <3>5. a \in Seq(Calls) /\ Len(a) = 3 /\ \A i \in DOMAIN a : a[i].op # "free"
      BY <3>3, <3>4
    <3>6. <<d>> \in Seq(Calls) /\ Len(<<d>>) = 1 /\ <<d>>[1] = d
      BY <3>3
    <3>7. /\ a \o <<d>> \in Seq(Calls) /\ Len(a \o <<d>>) = Len(a) + Len(<<d>>)
          /\ \A i \in 1 .. Len(a) + Len(<<d>>) : (a \o <<d>>)[i] = IF i <= Len(a) THEN a[i] ELSE <<d>>[i - Len(a)]
      BY <3>5, <3>6, ConcatProperties
    <3> DEFINE calls == a \o <<d>>
    <3> HIDE DEF calls
    <3>8. calls \in Seq(Calls) /\ Len(calls) = 4 /\ calls[4] = d /\ \A i \in 1 .. 3 : calls[i] = a[i]
      BY <3>5, <3>6, <3>7 DEF calls
    <3>9. /\ \A i \in DOMAIN calls : calls[i].op # "free"
          /\ \E j \in DOMAIN calls : calls[j].s = s /\ calls[j].op = "closed"
      BY <3>3, <3>5, <3>8
    <3>10. Then(calls)
      BY <3>1 DEF calls, a
    <3> QED BY <2>1, <2>2, <3>8, <3>9, <3>10, FreedKept
  <2> QED BY <2>3, <2>4
<1>14. ASSUME NEW s \in Streams, EndFClose(s) PROVE Freed(todo', wasFCloseCalled')
  <2>1. Top("closed", s) /\ wasFCloseCalled' = wasFCloseCalled \cup {s} /\ Then(<<>>)
    BY <1>14 DEF EndFClose
  <2>2. todo \in Seq(Calls) /\ todo # <<>> /\ todo[1].op = "closed" /\ todo[1].s = s
    BY <1>7, <2>1
  <2> QED BY <1>8, <2>1, <2>2, FreedKept
<1>15. CASE FreeRequest
  <2> DEFINE c == Call("free", "out", <<>>)
  <2>1. todo = <<c>> /\ todo' = <<>> \o Tail(todo)
    BY <1>15, Zenon DEF FreeRequest, Free, Then
  <2>2. c \in Calls
    BY CallsTyped DEF Ops, Streams
  <2> HIDE DEF c
  <2>3. todo' = <<>>
    BY <2>1, <2>2
  <2> QED BY <1>1, <2>3
<1>16. CASE UNCHANGED vars
  BY <1>16 DEF vars, stream
<1> QED BY <1>2, <1>3, <1>4, <1>5, <1>6, <1>9, <1>10, <1>11, <1>12, <1>13, <1>14, <1>15, <1>16
        DEF Next, Application, Library, Finished

LEMMA GrowsSelf ==
  ASSUME NEW p \in Peers
  PROVE  Grows(p, p)
<1>1. (\A s \in Streams : Len(p.got[s]) \in Nat) /\ Len(p.ended) \in Nat
  BY PeersTyped
<1> QED BY <1>1 DEF Grows

LEMMA PeerStep ==
  ASSUME StreamInv, Sensible(peer), [Next]_vars
  PROVE  Sensible(peer') /\ Grows(peer, peer')
<1>1. CASE UNCHANGED peer
  BY <1>1, GrowsSelf DEF Sensible
<1>2. ASSUME NEW s \in Streams, Write(s) \/ WriteFails(s) PROVE Sensible(peer') /\ Grows(peer, peer')
  <2>1. buf[s] \in Seq(Bytes)
    BY DEF StreamInv, StreamType
  <2>2. PICK w \in Seq(Bytes) : peer' = ReceiveAll(peer, w)
    <3>1. CASE Write(s)
      BY <2>1, <3>1 DEF Write
    <3>2. CASE WriteFails(s)
      <4>1. PICK k \in FailPoints \cap (0 .. Len(buf[s]) - 1) : peer' = ReceiveAll(peer, SubSeq(buf[s], 1, k))
        BY <3>2 DEF WriteFails
      <4>2. SubSeq(buf[s], 1, k) \in Seq(Bytes)
        BY <2>1
      <4> QED BY <4>1, <4>2
    <3> QED BY <1>2, <3>1, <3>2
  <2> QED BY <2>2, ReceiveAllTyped
<1>3. CASE Application \/ CallFinish \/ FreeRequest \/ Finished \/ UNCHANGED vars
  <2>1. UNCHANGED peer
    BY <1>3 DEF Application, CallPutStr, CallFFlush, CallFClose, SetExitStatus, CallFinish, FreeRequest, Finished, vars
  <2> QED BY <1>1, <2>1
<1>4. ASSUME NEW s \in Streams, Put(s) \/ EncapsulateRecord(s) \/ WriteCloseRecords(s) \/ BeginFClose(s) \/ EndFClose(s)
      PROVE  Sensible(peer') /\ Grows(peer, peer')
  <2>1. UNCHANGED peer
    BY <1>4, Zenon DEF Put, EncapsulateRecord, WriteCloseRecords, BeginFClose, EndFClose
  <2> QED BY <1>1, <2>1
<1> QED BY <1>2, <1>3, <1>4 DEF Next, Library

LEMMA OpenStep ==
  ASSUME todo # <<>> => conn = "open", [Next]_vars
  PROVE  todo' # <<>> => conn' = "open"
<1>1. CASE Application \/ CallFinish
  BY <1>1 DEF Application, CallPutStr, CallFFlush, CallFClose, SetExitStatus, CallFinish, Idle
<1>2. ASSUME NEW s \in Streams, \/ Put(s) \/ EncapsulateRecord(s) \/ WriteCloseRecords(s)
                                \/ Write(s) \/ WriteFails(s) \/ BeginFClose(s) \/ EndFClose(s)
      PROVE  conn' = "open"
  <2>1. todo # <<>> /\ UNCHANGED conn
    BY <1>2, Zenon DEF Put, EncapsulateRecord, WriteCloseRecords, Write, WriteFails, BeginFClose, EndFClose, Top
  <2> QED BY <2>1
<1>3. CASE FreeRequest
  <2> DEFINE c == Call("free", "out", <<>>)
  <2>1. todo = <<c>> /\ todo' = <<>> \o Tail(todo)
    BY <1>3, Zenon DEF FreeRequest, Free, Then
  <2>2. c \in Calls
    BY CallsTyped DEF Ops, Streams
  <2> HIDE DEF c
  <2> QED BY <2>1, <2>2
<1>4. CASE Finished \/ UNCHANGED vars
  BY <1>4 DEF Finished, vars
<1> QED BY <1>1, <1>2, <1>3, <1>4 DEF Next, Library

LEMMA SoundStutters ==
  ASSUME Sound, UNCHANGED vars
  PROVE  Sound'
<1>1. CASE BetweenNow
  <2>1. /\ Between(todo', rawWrite', wasFCloseCalled', accepted')
        /\ Settled(peer', accepted', rawWrite', isAnythingWritten', buf', Encapsulated(todo'), nWriters')
        /\ isClosed' = wasFCloseCalled' /\ wasFCloseCalled' \subseteq rawWrite'
    BY <1>1 DEF BetweenNow, SettledNow, Sound, vars, stream, request
  <2> QED BY <2>1, IsBetween
<1>2. ASSUME NEW s \in Streams, NEW f \in Seq(Bytes), EndingNow(s, f) PROVE Sound'
  <2>1. /\ Ending(s, f, todo', rawWrite', wasFCloseCalled', buf')
        /\ Settled(ReceiveAll(peer', buf'[s] \o f), accepted', rawWrite', isAnythingWritten', buf', Encapsulated(todo'),
                   nWriters')
        /\ Heard(peer', buf'[s] \o f, accepted', appStatus')
        /\ isClosed' = wasFCloseCalled' /\ wasFCloseCalled' \subseteq rawWrite'
    BY <1>2 DEF EndingNow, SettledNow, Sound, vars, stream, request
  <2> QED BY <2>1, IsEnding
<1> QED BY <1>1, <1>2 DEF Sound

LEMMA SoundStep ==
  ASSUME StreamInv, ResponseInv, [Next]_vars, FCGI_errno' = {}
  PROVE  FCGI_errno = {} /\ Sound /\ Sound'
<1>1. ASSUME NEW s \in Streams, WriteFails(s) PROVE FALSE
  BY <1>1 DEF WriteFails
<1>2. FCGI_errno = {}
  <2>1. CASE Application \/ CallFinish \/ FreeRequest \/ Finished \/ UNCHANGED vars
    BY <2>1 DEF Application, CallPutStr, CallFFlush, CallFClose, SetExitStatus, CallFinish, FreeRequest, Finished,
                vars, stream
  <2>2. ASSUME NEW s \in Streams, \/ Put(s) \/ EncapsulateRecord(s) \/ WriteCloseRecords(s)
                                  \/ Write(s) \/ BeginFClose(s) \/ EndFClose(s)
        PROVE  FCGI_errno' = FCGI_errno
    BY <2>2, Zenon DEF Put, EncapsulateRecord, WriteCloseRecords, Write, BeginFClose, EndFClose, stream
  <2> QED BY <1>1, <2>1, <2>2 DEF Next, Library
<1>3. Sound
  BY <1>2 DEF ResponseInv
<1>4. CASE Application \/ CallFinish
  BY <1>2, <1>3, <1>4, ApplicationSound, Zenon
<1>5. ASSUME NEW s \in Streams, \/ Put(s) \/ EncapsulateRecord(s) \/ WriteCloseRecords(s)
                                \/ Write(s) \/ BeginFClose(s) \/ EndFClose(s)
      PROVE  Sound'
  BY <1>3, <1>5, PutSound, EncapsulateSound, WriteCloseRecordsSound, WriteSound, BeginFCloseSound, EndFCloseSound, Zenon
<1>6. CASE FreeRequest
  BY <1>2, <1>3, <1>6, FreeRequestSound, Zenon
<1>7. CASE Finished \/ UNCHANGED vars
  BY <1>2, <1>3, <1>7, SoundStutters, Zenon DEF Finished
<1> QED BY <1>1, <1>2, <1>3, <1>4, <1>5, <1>6, <1>7 DEF Next, Library

LEMMA ResponseStep ==
  ASSUME StreamInv, ResponseInv, [Next]_vars
  PROVE  ResponseInv'
<1>1. Sensible(peer')
  BY PeerStep DEF ResponseInv
<1>2. todo' # <<>> => conn' = "open"
  BY OpenStep DEF ResponseInv
<1>3. Freed(todo', wasFCloseCalled')
  BY FreedStep DEF ResponseInv
<1>4. FCGI_errno' = {} => Sound'
  BY SoundStep
<1> QED BY <1>1, <1>2, <1>3, <1>4, Zenon DEF ResponseInv

LEMMA ResponseStarts ==
  ASSUME Init
  PROVE  ResponseInv
<1>1. peer = NoPeer /\ todo = <<>>
  BY DEF Init
<1>2. Sensible(peer)
  <2>1. 0 \in 0 .. HeaderLen /\ HeaderLen # 0
    BY LengthsAssumption
  <2> QED BY <1>1, <2>1 DEF NoPeer, Peers, Sensible
<1>3. Freed(todo, wasFCloseCalled)
  BY <1>1 DEF Freed
<1> QED BY <1>1, <1>2, <1>3, SoundStarts DEF ResponseInv

(* While no error has occurred, what each buffer holds follows what the     *)
(* server's parser has made of the bytes before it; and whatever reaches    *)
(* the server of the close records leaves it a faithful response.           *)
LEMMA ResponseInvariant == Spec => []ResponseInv
<1>1. Init => ResponseInv
  BY ResponseStarts
<1>2. StreamInv /\ ResponseInv /\ [Next]_vars => ResponseInv'
  BY ResponseStep
<1> QED BY <1>1, <1>2, StreamsInvariant, PTL DEF Spec

-----------------------------------------------------------------------------
(* What the server has is a faithful part of the response.                  *)

Loyal(q, n) ==
  /\ \A s \in Streams : /\ Len(q.got[s]) <= n[s] /\ q.got[s] = Tokens(s, 0, Len(q.got[s]))
                        /\ s \in q.eof => Len(q.got[s]) = n[s]
  /\ q.ended # <<>> => "out" \in q.eof /\ \A s \in Streams : n[s] > 0 => s \in q.eof
LoyalNow == FCGI_errno = {} => Loyal(peer, accepted)

LEMMA LoyalIsFaithful ==
  ASSUME NEW q \in Peers, NEW n, Loyal(q, n)
  PROVE  /\ \A s \in Streams :
              /\ Len(q.got[s]) <= n[s]
              /\ q.got[s] = [i \in 1 .. Len(q.got[s]) |-> <<s, i>>]
              /\ s \in q.eof => Len(q.got[s]) = n[s]
         /\ q.ended # <<>> => "out" \in q.eof /\ \A s \in Streams : n[s] > 0 => s \in q.eof
<1>1. ASSUME NEW s \in Streams PROVE q.got[s] = [i \in 1 .. Len(q.got[s]) |-> <<s, i>>]
  <2> DEFINE g == Len(q.got[s])
  <2>1. g \in Nat /\ q.got[s] = Tokens(s, 0, g)
    BY PeersTyped DEF Loyal
  <2> HIDE DEF g
  <2>2. \A i \in 1 .. g : <<s, 0 + i>> = <<s, i>>
    BY <2>1
  <2>3. Tokens(s, 0, g) = [i \in 1 .. g |-> <<s, i>>]
    BY <2>2, Zenon DEF Tokens
  <2> QED BY <2>1, <2>3 DEF g
<1> QED BY <1>1 DEF Loyal

LEMMA AllWritersDone ==
  ASSUME StreamInv
  PROVE  nWriters = 0 <=> Streams \subseteq rawWrite
<1>1. rawWrite \subseteq Streams /\ nWriters + Cardinality(rawWrite) = 2 /\ nWriters \in Nat
  BY DEF StreamInv, StreamType
<1>2. IsFiniteSet(rawWrite) /\ Cardinality(rawWrite) \in Nat
  BY <1>1, TwoStreams, FS_Subset, FS_CardinalityType, Zenon
<1>3. ASSUME nWriters = 0 PROVE Streams \subseteq rawWrite
  <2>1. Cardinality(rawWrite) = 2
    BY <1>1, <1>2, <1>3
  <2> QED BY <1>1, <2>1, TwoStreams, FS_Subset, Zenon
<1>4. ASSUME Streams \subseteq rawWrite PROVE nWriters = 0
  <2>1. rawWrite = Streams
    BY <1>1, <1>4
  <2>2. Cardinality(rawWrite) = 2
    BY <2>1, TwoStreams
  <2> QED BY <1>1, <2>2
<1> QED BY <1>3, <1>4

LEMMA SoundIsLoyal ==
  ASSUME StreamInv, Sound
  PROVE  Loyal(peer, accepted)
<1>1. ASSUME BetweenNow PROVE Loyal(peer, accepted)
  <2>1. /\ peer.ended = <<>> <=> nWriters > 0
        /\ \A s \in Streams : StreamAt(s, peer, accepted, rawWrite, isAnythingWritten, buf, Encapsulated(todo))
    BY <1>1 DEF BetweenNow, SettledNow, Settled
  <2>2. ASSUME NEW s \in Streams
        PROVE  /\ Len(peer.got[s]) <= accepted[s] /\ peer.got[s] = Tokens(s, 0, Len(peer.got[s]))
               /\ s \in peer.eof => Len(peer.got[s]) = accepted[s]
    BY <2>1 DEF StreamAt, RawAt, BufferAt
  <2>3. ASSUME peer.ended # <<>> PROVE "out" \in peer.eof /\ \A s \in Streams : accepted[s] > 0 => s \in peer.eof
    <3>1. nWriters = 0
      BY <2>1, <2>3 DEF StreamInv, StreamType
    <3>2. \A s \in Streams : RawAt(s, peer, accepted)
      BY <2>1, <3>1, AllWritersDone DEF StreamAt
    <3> QED BY <3>2 DEF RawAt, Streams
  <2> QED BY <2>2, <2>3 DEF Loyal
<1>2. ASSUME NEW s \in Streams, NEW f \in Seq(Bytes), EndingNow(s, f) PROVE Loyal(peer, accepted)
  <2> DEFINE w == buf[s] \o f
  <2>1. w \in Seq(Bytes)
    BY Concats DEF StreamInv, StreamType
  <2>2. Heard(peer, w, accepted, appStatus)
    BY <1>2 DEF EndingNow
  <2> HIDE DEF w
  <2>3. 0 \in 0 .. Len(w) /\ SubSeq(w, 1, 0) = <<>>
    BY <2>1
  <2>4. Good(ReceiveAll(peer, SubSeq(w, 1, 0)), accepted, appStatus)
    BY <2>2, <2>3, Zenon DEF Heard
  <2>5. Good(peer, accepted, appStatus)
    BY <2>3, <2>4, ReceiveNone
  <2> QED BY <2>5 DEF Good, Loyal
<1> QED BY <1>1, <1>2 DEF Sound

LEMMA LoyalAlways == Spec => []LoyalNow
<1>1. StreamInv /\ ResponseInv => LoyalNow
  BY SoundIsLoyal DEF ResponseInv, LoyalNow
<1> QED BY <1>1, StreamsInvariant, ResponseInvariant, PTL

(* A write is heard whatever part of it gets through.                      *)
LEMMA WriteIsHeard ==
  ASSUME StreamInv, Sound, NEW s \in Streams, Top("write", s)
  PROVE  Heard(peer, buf[s], accepted, appStatus)
<1>1. Calling(todo, "write", s) /\ todo \in Seq(Calls) /\ todo # <<>>
  BY Popped
<1>2. /\ buf \in [Streams -> Seq(Bytes)] /\ accepted \in [Streams -> Nat] /\ nWriters \in Nat
      /\ \A z \in Streams : \A f \in Seq(Bytes) : EndingNow(z, f) => z = s
  BY Popped
<1>3. Encapsulated(todo) = {s}
  BY <1>1, EncapsulatedOne
<1>a. ASSUME BetweenNow PROVE Heard(peer, buf[s], accepted, appStatus)
  <2>1. /\ Between(todo, rawWrite, wasFCloseCalled, accepted)
        /\ Settled(peer, accepted, rawWrite, isAnythingWritten, buf, {s}, nWriters)
    BY <1>3, <1>a DEF BetweenNow, SettledNow
  <2>2. s \notin rawWrite
    <3>1. ~(Head(todo).op \in Base) /\ Head(todo).op = "write" /\ Head(todo).s = s
      BY <1>1 DEF Base, Calling
    <3>2. \E z \in Streams :
              \/ /\ Calling(todo, "put", z) /\ Tail(todo) = <<>>
                 /\ z \notin rawWrite => Head(todo).bytes = Tokens(z, accepted[z], Len(Head(todo).bytes))
              \/ /\ z \notin rawWrite
                 /\ \/ Flushes(z, todo, rawWrite, accepted) \/ Closes(z, todo)
                    \/ /\ Calling(todo, "encapsulate", z)
                       /\ Flushes(z, Tail(todo), rawWrite, accepted) \/ Closes(z, Tail(todo))
      BY <1>1, <2>1, <3>1, BetweenTop, Zenon
    <3> QED BY <1>1, <3>1, <3>2 DEF Calling, Flushes, Closes
  <2> DEFINE g == Len(peer.got[s])
             k == accepted[s] - g
  <2>3. g \in Nat /\ k \in Nat /\ s \notin peer.eof /\ g + k <= accepted[s] /\ buf[s] = Record(s, g, k)
    <3>1. StreamAt(s, peer, accepted, rawWrite, isAnythingWritten, buf, {s}) /\ peer \in Peers
      BY <2>1 DEF Settled
    <3>2. g <= accepted[s] /\ BufferAt(s, peer, accepted, isAnythingWritten, buf, {s})
      BY <2>2, <3>1 DEF StreamAt
    <3>3. g \in Nat /\ accepted[s] \in Nat
      BY <1>2, <3>1, PeersTyped
    <3> QED BY <3>2, <3>3 DEF BufferAt
  <2>4. nWriters > 0
    BY <2>2, WritersLeft
  <2>5. Fresh(peer, accepted)
    BY <1>2, <2>1, <2>4, SettledIsFresh
  <2> HIDE DEF k
  <2>6. Heard(peer, Record(s, Len(peer.got[s]), k), accepted, appStatus)
    BY <1>2, <2>3, <2>5, RecordHeard
  <2> QED BY <2>3, <2>6
<1>b. ASSUME NEW z \in Streams, NEW f \in Seq(Bytes), EndingNow(z, f) PROVE Heard(peer, buf[s], accepted, appStatus)
  <2>1. z = s /\ Heard(peer, buf[s] \o f, accepted, appStatus) /\ buf[s] \in Seq(Bytes)
    BY <1>2, <1>b DEF EndingNow
  <2> QED BY <2>1, HeardConcat
<1> QED BY <1>a, <1>b DEF Sound

-----------------------------------------------------------------------------
(* FcgiWriter.tla implements FcgiResponse.tla.                              *)

LEMMA FaithfulNow == peer \in Peers /\ Loyal(peer, accepted) => Response!Faithful
BY LoyalIsFaithful, Zenon DEF Response!Faithful, Response!Written

LEMMA FaithfulThen == peer' \in Peers /\ Loyal(peer', accepted') => Response!Faithful'
<1> SUFFICES ASSUME peer' \in Peers, Loyal(peer', accepted') PROVE Response!Faithful'
  OBVIOUS
<1>1. /\ \A s \in Streams :
           /\ Len(peer'.got[s]) <= accepted'[s]
           /\ peer'.got[s] = [i \in 1 .. Len(peer'.got[s]) |-> <<s, i>>]
           /\ s \in peer'.eof => Len(peer'.got[s]) = accepted'[s]
      /\ peer'.ended # <<>> => "out" \in peer'.eof /\ \A s \in Streams : accepted'[s] > 0 => s \in peer'.eof
  BY LoyalIsFaithful
<1> QED BY <1>1, Zenon DEF Response!Faithful, Response!Written

(* A library step while the request is open and no error has occurred.     *)
LEMMA IsProgress ==
  ASSUME conn = "open", FCGI_errno = {}, Sensible(peer), Sensible(peer'), Grows(peer, peer'),
         \A s \in Streams : accepted'[s] >= accepted[s],
         peer'.ended = peer.ended \/ (peer.ended = <<>> /\ peer'.ended = <<appStatus>>),
         Loyal(peer', accepted'), UNCHANGED <<appStatus, conn>>
  PROVE  Response!Progress
<1>1. \A s \in Streams : Len(peer'.got[s]) >= Len(peer.got[s])
  <2> SUFFICES ASSUME NEW s \in Streams PROVE Len(peer'.got[s]) >= Len(peer.got[s])
    OBVIOUS
  <2>1. Len(peer.got[s]) \in Nat /\ Len(peer'.got[s]) \in Nat
    BY PeersTyped DEF Sensible
  <2> QED BY <2>1 DEF Grows
<1>2. Response!Faithful'
  BY FaithfulThen DEF Sensible
<1>3. peer.eof \subseteq peer'.eof
  BY DEF Grows
<1>4. (FCGI_errno # {})' \in BOOLEAN /\ ~(FCGI_errno # {})
  OBVIOUS
<1> QED BY <1>1, <1>2, <1>3, <1>4, Zenon DEF Response!Progress

LEMMA IsStutter ==
  ASSUME UNCHANGED <<accepted, peer, appStatus, FCGI_errno, conn>>
  PROVE  UNCHANGED Response!vars
BY DEF Response!vars

LEMMA IsAfterError ==
  ASSUME conn = "open", FCGI_errno # {}, FCGI_errno' # {}, UNCHANGED <<appStatus, conn>>
  PROVE  Response!AfterError
<1>1. (FCGI_errno # {})' = (FCGI_errno # {})
  OBVIOUS
<1> QED BY <1>1, Zenon DEF Response!AfterError

LEMMA PutAccepts ==
  ASSUME StreamInv, NEW s \in Streams, Put(s)
  PROVE  \A t \in Streams : accepted'[t] >= accepted[t]
<1> DEFINE bytes == Head(todo).bytes
           m     == IF Len(bytes) <= Room(s) THEN Len(bytes) ELSE Room(s)
<1>1. accepted \in [Streams -> Nat] /\ accepted' = (IF s \in rawWrite THEN accepted ELSE [accepted EXCEPT ![s] = @ + m])
  BY Zenon DEF Put, StreamInv, StreamType
<1>2. m \in Nat
  <2>1. Top("put", s)
    BY Zenon DEF Put
  <2>2. Head(todo) \in Calls /\ buf \in [Streams -> Seq(Bytes)] /\ full \in [Streams -> Nat] /\ Len(buf[s]) <= full[s]
    BY <2>1, TopCall DEF StreamInv, StreamType, Whole
  <2>3. Len(bytes) \in Nat
    BY <2>2 DEF Calls
  <2>4. Len(buf[s]) \in Nat /\ full[s] \in Nat
    BY <2>2
  <2> QED BY <2>2, <2>3, <2>4 DEF Room
<1> HIDE DEF m
<1> QED BY <1>1, <1>2

LEMMA WriteEnds ==
  ASSUME StreamInv, Sound, NEW s \in Streams, Write(s) \/ WriteFails(s), Sensible(peer), Sensible(peer'), Grows(peer, peer')
  PROVE  /\ Loyal(peer', accepted)
         /\ peer'.ended = peer.ended \/ (peer.ended = <<>> /\ peer'.ended = <<appStatus>>)
<1>1. buf[s] \in Seq(Bytes)
  BY DEF StreamInv, StreamType
<1>2. PICK k \in 0 .. Len(buf[s]) : peer' = ReceiveAll(peer, SubSeq(buf[s], 1, k))
  <2>1. CASE Write(s)
    <3>1. peer' = ReceiveAll(peer, buf[s]) /\ buf[s] = SubSeq(buf[s], 1, Len(buf[s])) /\ Len(buf[s]) \in 0 .. Len(buf[s])
      BY <1>1, <2>1, SubSeqFull DEF Write
    <3> QED BY <3>1
  <2>2. CASE WriteFails(s)
    <3>1. PICK k \in FailPoints \cap (0 .. Len(buf[s]) - 1) : peer' = ReceiveAll(peer, SubSeq(buf[s], 1, k))
      BY <2>2 DEF WriteFails
    <3>2. k \in 0 .. Len(buf[s])
      BY <1>1
    <3> QED BY <3>1, <3>2
  <2> QED BY <2>1, <2>2
<1>3. Heard(peer, buf[s], accepted, appStatus)
  BY WriteIsHeard DEF Write, WriteFails
<1>4. Good(peer', accepted, appStatus)
  BY <1>2, <1>3 DEF Heard
<1>5. Good(peer, accepted, appStatus)
  <2>1. 0 \in 0 .. Len(buf[s]) /\ SubSeq(buf[s], 1, 0) = <<>>
    BY <1>1
  <2>2. Good(ReceiveAll(peer, SubSeq(buf[s], 1, 0)), accepted, appStatus)
    BY <1>3, <2>1, Zenon DEF Heard
  <2> QED BY <2>1, <2>2, ReceiveNone
<1>6. Loyal(peer', accepted)
  BY <1>4 DEF Good, Loyal
<1>7. peer'.ended = peer.ended \/ (peer.ended = <<>> /\ peer'.ended = <<appStatus>>)
  <2>1. peer.ended \in {<<>>, <<appStatus>>} /\ peer'.ended \in {<<>>, <<appStatus>>}
    BY <1>4, <1>5 DEF Good
  <2>2. Len(peer.ended) <= Len(peer'.ended) /\ Len(<<appStatus>>) = 1 /\ Len(<<>>) = 0
    BY DEF Grows
  <2>3. CASE peer.ended = <<>>
    BY <2>1, <2>3
  <2>4. CASE peer.ended = <<appStatus>>
    <3>1. peer'.ended # <<>>
      BY <2>2, <2>4
    <3> QED BY <2>1, <2>4, <3>1
  <2> QED BY <2>1, <2>3, <2>4
<1> QED BY <1>6, <1>7

LEMMA FreeFinishes ==
  ASSUME StreamInv, ResponseInv, FreeRequest
  PROVE  Response!Finish
<1> DEFINE c == Call("free", "out", <<>>)
<1>1. c.op = "free" /\ todo = <<c>>
  BY Zenon DEF FreeRequest, Free, Call
<1> HIDE DEF c
<1>2. todo # <<>> /\ todo[1].op = "free" /\ DOMAIN todo = {1}
  BY <1>1
<1>3. conn = "open"
  BY <1>2 DEF ResponseInv
<1>4. UNCHANGED <<accepted, peer, appStatus, FCGI_errno>>
  BY DEF FreeRequest, stream, request
<1>5. conn' = "closed" \/ (conn' = "kept" /\ FCGI_errno = {})
  BY DEF FreeRequest
<1>6. ASSUME FCGI_errno = {}
      PROVE  peer.ended # <<>> /\ \A s \in Streams : Len(peer.got[s]) = accepted[s]
  <2>1. BetweenNow /\ Sound
    BY <1>6, FreeRequestSound DEF ResponseInv
  <2>2. Streams \subseteq rawWrite
    <3>1. \A s \in Streams : s \in wasFCloseCalled
      BY <1>2 DEF ResponseInv, Freed
    <3> QED BY <2>1, <3>1 DEF Sound
  <2>3. nWriters = 0
    BY <2>2, AllWritersDone
  <2>4. /\ peer.ended = <<>> <=> nWriters > 0
        /\ \A s \in Streams : StreamAt(s, peer, accepted, rawWrite, isAnythingWritten, buf, Encapsulated(todo))
    BY <2>1 DEF BetweenNow, SettledNow, Settled
  <2>5. \A s \in Streams : RawAt(s, peer, accepted)
    BY <2>2, <2>4 DEF StreamAt
  <2> QED BY <2>3, <2>4, <2>5 DEF RawAt
<1>7. conn' = "closed" \/ (conn' = "kept" /\ ~(FCGI_errno # {}) /\ peer.ended # <<>>
                           /\ \A s \in Streams : Len(peer.got[s]) = accepted[s])
  BY <1>5, <1>6
<1>8. UNCHANGED <<accepted, peer.got, peer.eof, peer.ended, appStatus, FCGI_errno # {}>>
  BY <1>4
<1> QED BY <1>3, <1>7, <1>8, Zenon DEF Response!Finish

LEMMA ResponseMoves ==
  ASSUME StreamInv, ResponseInv, ResponseInv', LoyalNow', [Next]_vars
  PROVE  Response!Next \/ UNCHANGED Response!vars
<1>0. Sensible(peer) /\ Sensible(peer') /\ Grows(peer, peer')
  BY PeerStep DEF ResponseInv
<1>1. ASSUME NEW a \in Statuses, SetExitStatus(a) PROVE Response!Next
  <2>1. a \in Int
    BY LengthsAssumption
  <2>2. conn = "open" /\ appStatus' \in Int /\ UNCHANGED <<accepted, peer, FCGI_errno, conn>>
    BY <1>1, <2>1 DEF SetExitStatus, Idle, stream
  <2>3. UNCHANGED <<accepted, peer.got, peer.eof, peer.ended, FCGI_errno # {}, conn>>
    BY <2>2
  <2> QED BY <2>2, <2>3, Zenon DEF Response!Next, Response!SetStatus
<1>2. CASE \/ \E s \in Streams, n \in PutSizes : CallPutStr(s, n)
           \/ \E s \in Streams : CallFFlush(s) \/ CallFClose(s)
           \/ CallFinish \/ Finished \/ UNCHANGED vars
  <2>1. UNCHANGED <<accepted, peer, appStatus, FCGI_errno, conn>>
    BY <1>2 DEF CallPutStr, CallFFlush, CallFClose, CallFinish, Finished, vars, stream, request
  <2> QED BY <2>1, IsStutter
<1>3. ASSUME NEW s \in Streams, EncapsulateRecord(s) \/ WriteCloseRecords(s) \/ BeginFClose(s) \/ EndFClose(s)
      PROVE  UNCHANGED Response!vars
  <2>1. UNCHANGED <<accepted, peer, appStatus, FCGI_errno, conn>>
    BY <1>3, Zenon DEF EncapsulateRecord, WriteCloseRecords, BeginFClose, EndFClose, stream, request
  <2> QED BY <2>1, IsStutter
<1>4. ASSUME NEW s \in Streams, Put(s) PROVE Response!Next
  <2>1. conn = "open" /\ UNCHANGED <<peer, appStatus, FCGI_errno, conn>>
    BY <1>4, Zenon DEF Put, Top, ResponseInv, stream, request
  <2>2. CASE FCGI_errno = {}
    <3>1. Loyal(peer', accepted')
      BY <2>1, <2>2 DEF LoyalNow
    <3>2. \A t \in Streams : accepted'[t] >= accepted[t]
      BY <1>4, PutAccepts
    <3>3. Response!Progress
      BY <1>0, <2>1, <2>2, <3>1, <3>2, IsProgress
    <3> QED BY <3>3, Zenon DEF Response!Next
  <2>3. CASE FCGI_errno # {}
    <3>1. Response!AfterError
      BY <2>1, <2>3, IsAfterError
    <3> QED BY <3>1, Zenon DEF Response!Next
  <2> QED BY <2>2, <2>3
<1>5. ASSUME NEW s \in Streams, Write(s) \/ WriteFails(s) PROVE Response!Next
  <2>1. conn = "open" /\ UNCHANGED <<accepted, appStatus, conn>> /\ (FCGI_errno # {} => FCGI_errno' # {})
    BY <1>5 DEF Write, WriteFails, Top, ResponseInv, stream, request
  <2>2. CASE FCGI_errno = {}
    <3>1. /\ Loyal(peer', accepted)
          /\ peer'.ended = peer.ended \/ (peer.ended = <<>> /\ peer'.ended = <<appStatus>>)
      BY <1>0, <1>5, <2>2, WriteEnds DEF ResponseInv
    <3>2. Loyal(peer', accepted')
      BY <2>1, <3>1
    <3>3. \A t \in Streams : accepted'[t] >= accepted[t]
      BY <2>1 DEF StreamInv, StreamType
    <3>4. Response!Progress
      BY <1>0, <2>1, <2>2, <3>1, <3>2, <3>3, IsProgress
    <3> QED BY <3>4, Zenon DEF Response!Next
  <2>3. CASE FCGI_errno # {}
    <3>1. Response!AfterError
      BY <2>1, <2>3, IsAfterError
    <3> QED BY <3>1, Zenon DEF Response!Next
  <2> QED BY <2>2, <2>3
<1>6. CASE FreeRequest
  <2>1. Response!Finish
    BY <1>6, FreeFinishes
  <2> QED BY <2>1, Zenon DEF Response!Next
<1> QED BY <1>1, <1>2, <1>3, <1>4, <1>5, <1>6, Zenon DEF Next, Application, Library

LEMMA ResponseBegins == Init => Response!Init
<1> SUFFICES ASSUME Init PROVE Response!Init
  OBVIOUS
<1>1. /\ accepted = [s \in Streams |-> 0] /\ peer = NoPeer /\ appStatus = 0 /\ FCGI_errno = {} /\ conn = "open"
  BY DEF Init
<1>2. peer.got = [s \in Streams |-> <<>>] /\ peer.eof = {} /\ peer.ended = <<>>
  BY <1>1 DEF NoPeer
<1>3. (FCGI_errno # {}) = FALSE
  BY <1>1
<1> QED BY <1>1, <1>2, <1>3, Zenon DEF Response!Init

(* The web server receives the promised response (ImplementsResponse):      *)
(* whatever the sizes of the writes, the flushes, the order in which the   *)
(* streams are closed and the point where a write fails, what reached it   *)
(* of each stream is a prefix of what the application wrote, a stream's    *)
(* end comes after all of it, one end-of-request comes last, and the       *)
(* connection is kept only after a complete response without an error.     *)
THEOREM ResponseIsDelivered == Spec => ImplementsResponse
<1>1. Init => Response!Init
  BY ResponseBegins
<1>2. StreamInv /\ ResponseInv /\ ResponseInv' /\ LoyalNow' /\ [Next]_vars => [Response!Next]_(Response!vars)
  BY ResponseMoves
<1> QED BY <1>1, <1>2, StreamsInvariant, ResponseInvariant, LoyalAlways, PTL DEF Spec, ImplementsResponse, Response!Spec

=============================================================================
