----------------------------- MODULE FcgiPrintf -----------------------------
(***************************************************************************)
(* libFcgi/fcgiapp.cpp: FCGX_VFPrintF, which formats each conversion with  *)
(* sprintf into a buffer whose size it works out first, and puts the text  *)
(* on a stream.                                                            *)
(*                                                                         *)
(* A format is a sequence of pieces: literal text, of which only the       *)
(* length counts, or a conversion with its argument.  d stands for the     *)
(* integer conversions, e for e, E, g and G.  Lengths are those of the     *)
(* program, nothing is scaled down.                                        *)
(***************************************************************************)
EXTENDS Integers, Sequences

CONSTANT Formats

(* What C makes of the arguments: integers of 64 bits have 22 octal digits *)
(* and a prefix of two characters at most, a pointer 18 characters, %c is  *)
(* one character or a NUL.  exp is the binary exponent of a floating       *)
(* argument, cast that of the double a long double is cast to: it may be   *)
(* rounded up, and glibc's frexp() gives 0 for an infinity or a zero,      *)
(* which is what there is outside double's range.                          *)
Given == [by : {"none", "digits", "star"}, n : Int]
Pieces ==
  {c \in [op : {"literal", "c", "s", "n", "%", "other", "d", "f", "e", "p"},
          size : {" ", "h", "l", "L"}, flags : Nat, width : Given, precision : Given,
          arg : [length : Nat, prefix : 0 .. 2, exp : Int, cast : Int, null : BOOLEAN]] :
     /\ \A given \in {c.width, c.precision} : given.by = "none" => given.n = 0
     /\ c.op = "d" => c.arg.length <= 22
     /\ c.op = "p" => c.arg.length <= 18
     /\ c.op = "c" => c.arg.length <= 1
     /\ c.op \in {"e", "f"} => c.arg.prefix <= 1
     /\ c.size # "L" => c.arg.cast = c.arg.exp /\ c.arg.exp <= 1024
     /\ c.arg.cast \in {c.arg.exp, c.arg.exp + 1} => c.arg.exp <= 1024
     /\ c.arg.cast \notin {c.arg.exp, c.arg.exp + 1} =>
          c.arg.cast = 0 /\ (c.arg.exp >= 1024 \/ c.arg.exp < -1022)}

ASSUME FormatsAssumption == \A format \in Formats : format \in Seq(Pieces)

VARIABLE printf  (* pieces not handled, streamCount, auxBuffLen (0: none),   *)
                 (* how the call ended, and the last conversion              *)

PRINTF_BUFFLEN == 100

Piece(op, size, flags, width, precision, arg) ==
  [op |-> op, size |-> size, flags |-> flags, width |-> width, precision |-> precision, arg |-> arg]

(* How a width or precision is given, and what it is.                      *)
NotGiven == [by |-> "none", n |-> 0]

larger(a, b)  == IF a > b THEN a ELSE b
smaller(a, b) == IF a < b THEN a ELSE b
abs(n) == IF n < 0 THEN -n ELSE n

NoConversion == [buffCount |-> 0, buffLen |-> 1, wide |-> FALSE, narrowed |-> FALSE]

PrintfInit ==
  printf \in [todo : Formats, streamCount : {0}, auxBuffLen : {0}, result : {"running"},
              last : {NoConversion}]

-----------------------------------------------------------------------------
(* The scan.                                                               *)

(* Without flags, width and precision the preallocated buffer is enough;   *)
(* f is never tried on the fast path.                                      *)
FastPath(c) == c.flags = 0 /\ c.width = NotGiven /\ c.precision = NotGiven /\ c.op \notin {"f", "other"}

ScansFlags(c) == c.flags <= 5
ScansWidth(c) == abs(c.width.n) <= 999999
ScansPrecision(c) == c.precision.n <= 999999

precision(c) ==
  IF c.precision.by = "none" THEN -1 ELSE larger(c.precision.n, 0)

(* Which operations and modifiers there are; n and % only unmodified.      *)
Performed(c) ==
  /\ CASE c.op \in {"d", "n"} -> c.size \in {" ", "l", "h"}
       [] c.op \in {"c", "s", "p", "%"} -> c.size = " "
       [] c.op \in {"e", "f"} -> c.size \in {" ", "L"}
       [] OTHER -> FALSE
  /\ ~FastPath(c) => c.op \notin {"n", "%"}

Accepted(c) ==
  Performed(c) /\ (FastPath(c) \/ (ScansFlags(c) /\ ScansWidth(c) /\ ScansPrecision(c)))

-----------------------------------------------------------------------------
(* The buffer.                                                             *)

(* "(null)" stands in for a null pointer.                                  *)
StringLength(c) == IF c.arg.null THEN 6 ELSE c.arg.length

boundFor(c, exp) ==
  LET p == precision(c)
      digits == IF p = -1 THEN 6 ELSE p
  IN  CASE c.op \in {"d", "c", "p"} -> larger(p, 46)
        [] c.op = "s" -> IF p = -1 THEN StringLength(c) ELSE smaller(StringLength(c), p)
        [] c.op = "f" -> digits + 3 + exp \div 3
        [] OTHER -> digits + 8

boundWithoutExponent(c) == boundFor(c, 0)   \* deviation: a double of any size is short
bound(c) == boundFor(c, larger(c.arg.cast, 0))

buffReqd(c) == larger(bound(c) + 10, c.width.n)

(* A buffer allocated for one conversion is kept for those after it.       *)
auxBuffLen(c) ==
  IF FastPath(c) \/ buffReqd(c) <= PRINTF_BUFFLEN \/ buffReqd(c) <= printf.auxBuffLen
  THEN printf.auxBuffLen ELSE buffReqd(c)

buffLen(c) ==
  CASE FastPath(c) /\ c.op = "s" -> c.arg.length + 1
    [] FastPath(c) /\ c.op # "s" -> PRINTF_BUFFLEN
    [] ~FastPath(c) /\ buffReqd(c) <= PRINTF_BUFFLEN -> PRINTF_BUFFLEN
    [] OTHER -> auxBuffLen(c)

-----------------------------------------------------------------------------
(* What sprintf writes (C11, 7.21.6.1): for an integer, a sign or prefix   *)
(* of arg.prefix characters and arg.length digits; for a double, arg.exp   *)
(* is the binary exponent.                                                 *)

Digits10(exp) == IF exp <= 0 THEN 1 ELSE (exp * 30103) \div 100000 + 1

Text(c) ==
  LET p == precision(c)
      digits == IF p = -1 THEN 6 ELSE p
  IN  CASE c.op = "d" -> c.arg.prefix + larger(p, c.arg.length)
        [] c.op = "s" -> IF p = -1 THEN StringLength(c) ELSE smaller(StringLength(c), p)
        [] c.op = "f" -> c.arg.prefix + Digits10(c.arg.exp) + 1 + digits
        [] c.op = "e" -> c.arg.prefix + 2 + digits + 6
        [] OTHER -> c.arg.length

(* strlen() of it: a NUL character ends it.                                *)
buffCount(c) ==
  CASE c.op = "n" -> 0
    [] c.op = "%" -> 1
    [] c.op = "c" /\ c.arg.length = 0 ->
         IF c.width.n > 0 THEN c.width.n - 1 ELSE 0
    [] OTHER -> larger(Text(c), abs(c.width.n))

-----------------------------------------------------------------------------
(* FCGX_VFPrintF, one piece of the format at a time.                       *)

Running == printf.result = "running" /\ printf.todo # <<>>
piece == Head(printf.todo)

Ends(result) == printf' = [printf EXCEPT !.result = result, !.streamCount = -1]

PutLiteral ==
  /\ Running /\ piece.op = "literal"
  /\ printf' = [printf EXCEPT !.todo = Tail(@), !.streamCount = @ + piece.arg.length]

Convert ==
  /\ Running /\ piece.op # "literal" /\ Accepted(piece)
  /\ ~(FastPath(piece) /\ piece.op = "s" /\ piece.arg.null)
  /\ printf' = [printf EXCEPT
       !.todo = Tail(@), !.streamCount = @ + buffCount(piece), !.auxBuffLen = auxBuffLen(piece),
       !.last = [buffCount |-> buffCount(piece), buffLen |-> buffLen(piece),
                 wide |-> abs(piece.width.n) >= larger(bound(piece) + 10, PRINTF_BUFFLEN),
                 narrowed |-> piece.arg.cast < piece.arg.exp]]

(* An unmodified %s of a null pointer takes its length.                    *)
ConvertNull ==
  /\ Running /\ piece.op = "s" /\ Accepted(piece) /\ FastPath(piece) /\ piece.arg.null
  /\ Ends("crashed")

Refuse == Running /\ piece.op # "literal" /\ ~Accepted(piece) /\ Ends("error")

(* FCGX_PutStr fails, or no buffer can be allocated.                       *)
PutFails == Running /\ Ends("error")

Return ==
  printf.result = "running" /\ printf.todo = <<>> /\ printf' = [printf EXCEPT !.result = "normal"]

(* The call is over.                                                       *)
Returned == printf.result # "running" /\ UNCHANGED printf

PrintfNext ==
  PutLiteral \/ Convert \/ ConvertNull \/ Refuse \/ PutFails \/ Return \/ Returned

PrintfSpec == PrintfInit /\ [][PrintfNext]_printf

-----------------------------------------------------------------------------
(* The text of a conversion and its NUL fit the buffer, also one kept from *)
(* an earlier conversion - the assertion after the switch                  *)
(* (fcgiapp.cpp:808).  Not so for a field at least as wide as all that was *)
(* reckoned with (wide): the width is taken without the NUL, and a         *)
(* negative width of * not at all; nor for a long double whose exponent    *)
(* the cast to double loses (narrowed).                                    *)
ConversionsFit ==
  ~printf.last.wide /\ ~printf.last.narrowed => printf.last.buffCount < printf.last.buffLen
=============================================================================
