-------------------------------- MODULE Json --------------------------------
(***************************************************************************)
(* libCommon/jsoncpp/jsoncpp.cpp as the server uses it: Json::Reader reads *)
(* the bodies and the configuration, Json::FastWriter writes the answers   *)
(* and what HttpSender posts.                                              *)
(*                                                                         *)
(* A document is a sequence of symbols: a character, a whole word ("true", *)
(* a comment, the four digits of a \u) or "NUL".  The widths of integers   *)
(* are constants.  A value is a record of which its type says the used     *)
(* field: n a number, s the symbols of a string or of a double, kids the   *)
(* elements of an array or the members of an object, with their names.     *)
(***************************************************************************)
EXTENDS Integers, Sequences, SequencesExt

CONSTANTS
  MaxInt,         (* Value::maxInt                                          *)
  MaxLargestInt,  (* Value::maxLargestInt; maxLargestUInt is 2 * it + 1     *)
  StackLimit      (* stackLimit_g                                           *)

JValue(type, n, s, kids) == [type |-> type, n |-> n, s |-> s, kids |-> kids]
JsonNull      == JValue("null", 0, <<>>, <<>>)
Bool(b)       == JValue("bool", IF b THEN 1 ELSE 0, <<>>, <<>>)
Integer(n)    == JValue(IF n <= MaxInt THEN "int" ELSE "uint", n, <<>>, <<>>)
Real(token)   == JValue("real", 0, IF Len(token) > 2 /\ IsSuffix(<<".", "0">>, token)
                                   THEN SubSeq(token, 1, Len(token) - 2) ELSE token, <<>>)
String(s)     == JValue("string", 0, s, <<>>)
Array(kids)   == JValue("array", 0, <<>>, kids)
Object(kids)  == JValue("object", 0, <<>>, kids)
Failed        == JValue("failed", 0, <<>>, <<>>)   \* an error: the place keeps what it held

Digits == [d \in {"0","1","2","3","4","5","6","7","8","9"} |->
             CHOOSE n \in 0..9 : ToString(n) = d]

-----------------------------------------------------------------------------
(* readToken: a token is its type and the positions [from, to) it takes.   *)

Char(doc, p) == IF p <= Len(doc) THEN doc[p] ELSE "NUL"

Spaces == {" ", "HT", "CR", "LF"}
skipSpaces(doc, p) ==
  CHOOSE q \in p..(Len(doc) + 1) :
    Char(doc, q) \notin Spaces /\ \A r \in p..(q - 1) : doc[r] \in Spaces

DigitsEnd(doc, p) ==
  IF p > Len(doc) THEN Len(doc) + 1
  ELSE CHOOSE q \in p..(Len(doc) + 1) :
         Char(doc, q) \notin DOMAIN Digits /\ \A r \in p..(q - 1) : doc[r] \in DOMAIN Digits

readNumber(doc, p) ==
  LET whole == DigitsEnd(doc, p + 1)
      part  == IF Char(doc, whole) = "." THEN DigitsEnd(doc, whole + 1) ELSE whole
      signed == IF Char(doc, part + 1) \in {"+", "-"} THEN part + 2 ELSE part + 1
  IN  IF Char(doc, part) = "e" THEN DigitsEnd(doc, signed) ELSE part

(* The position after the closing quote, or 0 when there is none.          *)
RECURSIVE readString(_, _)
readString(doc, p) ==
  IF p > Len(doc) THEN 0
  ELSE IF doc[p] = "quote" THEN p + 1
  ELSE readString(doc, IF doc[p] = "esc" THEN p + 2 ELSE p + 1)

Single == [x \in {"{", "}", "[", "]", ",", ":", "true", "false", "null", "NUL", "comment"} |-> x]

TokenAt(doc, p) ==
  LET ch == Char(doc, p)
      token(type, to) == [type |-> type, from |-> p, to |-> to]
      quoted(end) == IF end # 0 THEN token("string", end) ELSE token("error", p + 1)
  IN  IF p > Len(doc) THEN token("NUL", p)
      ELSE IF ch \in DOMAIN Single THEN token(Single[ch], p + 1)
      ELSE IF ch \in DOMAIN Digits \cup {"-"} THEN token("number", readNumber(doc, p))
      ELSE IF ch = "quote" THEN quoted(readString(doc, p + 1))
      ELSE token("error", p + 1)
readToken(doc, start) == TokenAt(doc, skipSpaces(doc, start))

RECURSIVE NotComment(_, _)
NotComment(doc, t) == IF t.type = "comment" THEN NotComment(doc, readToken(doc, t.to)) ELSE t
skipCommentTokens(doc, p) == NotComment(doc, readToken(doc, p))

-----------------------------------------------------------------------------
(* decodeNumber: the digits one by one, until one that does not fit or is  *)
(* none makes the whole token a double.  The stream reads one with a digit *)
(* before the exponent and one in it, in double's range; at 10^308 itself  *)
(* the digits decide, and the model takes it for inside.                   *)

Mantissa(token) == LET e == SelectInSeq(token, LAMBDA x : x = "e")
                   IN  IF e = 0 THEN token ELSE SubSeq(token, 1, e - 1)
NumberIn(digits) == FoldLeft(LAMBDA n, x : IF x \in DOMAIN Digits THEN 10 * n + Digits[x] ELSE n, 0, digits)

(* The power of ten of its first digit that is not zero.                   *)
Magnitude(mantissa, exponent) ==
  LET point == SelectInSeq(mantissa \o <<".">>, LAMBDA x : x = ".")
      first == SelectInSeq(mantissa, LAMBDA x : x \in DOMAIN Digits \ {"0"})
  IN  (IF first < point THEN point - first - 1 ELSE point - first)
      + (IF exponent # <<>> /\ exponent[1] = "-" THEN -NumberIn(exponent) ELSE NumberIn(exponent))

IsDouble(token, mantissa) ==
  /\ ToSet(mantissa) \cap DOMAIN Digits # {}
  /\ Last(token) \notin {"e", "+", "-"}
  /\ \/ NumberIn(mantissa) = 0
     \/ Magnitude(mantissa, SubSeq(token, Len(mantissa) + 2, Len(token))) <= 308
decodeDouble(token) ==
  IF IsDouble(token, Mantissa(token)) THEN [ok |-> TRUE, value |-> Real(token)]
  ELSE [ok |-> FALSE, value |-> Failed]

maxValueUnsigned(negative) == 2 * MaxLargestInt + 1   \* deviation: of either sign
maxValue(negative) == IF negative THEN MaxLargestInt + 1 ELSE 2 * MaxLargestInt + 1

(* The digits' value, or -1.                                               *)
DigitsValue(digits, maxIntegerValue) ==
  LET threshold == maxIntegerValue \div 10
      fits(value, digit, last) ==
        value >= threshold => value = threshold /\ last /\ digit <= maxIntegerValue % 10
      step(value, i) ==
        IF value = -1 \/ digits[i] \notin DOMAIN Digits THEN -1
        ELSE IF ~fits(value, Digits[digits[i]], i = Len(digits)) THEN -1
        ELSE value * 10 + Digits[digits[i]]
  IN  FoldLeftDomain(step, 0, digits)
decodeNumber(token) ==
  LET negative == token[1] = "-"
      decoded(value) ==
        IF value = -1 THEN decodeDouble(token)
        ELSE [ok |-> TRUE, value |-> Integer(IF negative THEN -value ELSE value)]
  IN  decoded(DigitsValue(IF negative THEN Tail(token) ELSE token, maxValue(negative)))

(* decodeString: what is between the quotes.  Digits of \u are one symbol; *)
(* a high surrogate takes the next \u with it, whatever that is.           *)
Escapes == [x \in {"quote", "/", "esc", "b", "f", "n", "r", "t"} |->
              CASE x = "b" -> "BS" [] x = "f" -> "FF" [] x = "n" -> "LF"
                [] x = "r" -> "CR" [] x = "t" -> "HT" [] OTHER -> x]
CodePoints == [x \in {"000A", "0041", "001F", "DE00"} |->
                 CASE x = "000A" -> "LF" [] x = "0041" -> "A" [] x = "001F" -> "ctl"
                   [] x = "DE00" -> "low"]
HighSurrogate == "D83D"

(* How many symbols of the string its first one takes, and what they stand *)
(* for; none when it is no escape the reader knows.                        *)
Unescaped(s) ==
  CASE s[1] # "esc" -> <<1, s[1]>>
    [] Len(s) > 1 /\ s[1] = "esc" /\ s[2] \in DOMAIN Escapes -> <<2, Escapes[s[2]]>>
    [] Len(s) > 2 /\ s[1] = "esc" /\ s[2] = "u" /\ s[3] \in DOMAIN CodePoints -> <<3, CodePoints[s[3]]>>
    [] /\ Len(s) > 5 /\ s[1] = "esc" /\ s[2] = "u" /\ s[3] = HighSurrogate
       /\ s[4] = "esc" /\ s[5] = "u" /\ s[6] \in DOMAIN CodePoints \cup {HighSurrogate} -> <<6, "astral">>
    [] OTHER -> <<>>

RECURSIVE decodeString(_, _)
decodeString(s, decoded) ==
  LET step(taken) ==
        IF taken = <<>> THEN [ok |-> FALSE, value |-> Failed]
        ELSE decodeString(SubSeq(s, taken[1] + 1, Len(s)), Append(decoded, taken[2]))
  IN  IF s = <<>> THEN [ok |-> TRUE, value |-> String(decoded)] ELSE step(Unescaped(s))
StringIn(text) == decodeString(SubSeq(text, 2, Len(text) - 1), <<>>)

-----------------------------------------------------------------------------
(* readValue and the two functions that call it for what is inside.  A     *)
(* result is whether it was read, what was built in place up to an error   *)
(* (Failed unless it was in what an array or object holds),                *)
(* and where it ends; after an error the position does not matter, since   *)
(* every caller skips to its own end and fails too.  threw is the runtime  *)
(* error of a document nested deeper than the limit.                       *)

Result(ok, value, at) == [ok |-> ok, value |-> value, at |-> at, threw |-> FALSE]

(* currentValue()[name]: the member, made if it is not there.              *)
Member(kids, name) ==
  LET n == SelectInSeq(kids, LAMBDA k : k[1] = name)
  IN  IF n = 0 THEN Len(kids) + 1 ELSE n
OrElse(value, old) == IF value = Failed THEN old ELSE value
Place(kids, n, name, value) ==
  IF n > Len(kids) THEN Append(kids, <<name, OrElse(value, JsonNull)>>)
  ELSE [kids EXCEPT ![n] = <<name, OrElse(value, @[2])>>]

RECURSIVE readValue(_, _, _), readObject(_, _, _, _, _), readArray(_, _, _, _)

ReadAs(doc, t, depth) ==
  LET text == SubSeq(doc, t.from, t.to - 1)
      decoded(d) == Result(d.ok, d.value, t.to)
      array(first) == IF Char(doc, first) = "]" THEN Result(TRUE, Array(<<>>), first + 1)
                      ELSE readArray(doc, first, depth, <<>>)
  IN  CASE t.type = "{" -> readObject(doc, t.to, depth, <<>>, <<>>)
        [] t.type = "[" -> array(skipSpaces(doc, t.to))
        [] t.type = "number" -> decoded(decodeNumber(text))
        [] t.type = "string" -> decoded(StringIn(text))
        [] t.type \in {"true", "false"} -> Result(TRUE, Bool(t.type = "true"), t.to)
        [] t.type = "null" -> Result(TRUE, JsonNull, t.to)
        [] OTHER -> Result(FALSE, Failed, t.to)
readValue(doc, p, depth) ==
  IF depth > StackLimit THEN [Result(FALSE, Failed, p) EXCEPT !.threw = TRUE]
  ELSE ReadAs(doc, skipCommentTokens(doc, p), depth)

(* last is the name just read: after a member with an empty one a comma    *)
(* may stand before the end.  After a comment anything passes for a comma. *)
readObject(doc, p, depth, kids, last) ==
  LET next(now, key, comma, comment) ==
        CASE comma.type = "}" -> Result(TRUE, Object(now), comma.to)
          [] comma.type # "}" /\ (comma.type = "," \/ comment) ->
               readObject(doc, comma.to, depth, now, key)
          [] OTHER -> Result(FALSE, Object(now), comma.to)
      member(now, key, inside) ==
        IF inside.ok
        THEN next(now, key, skipCommentTokens(doc, inside.at), readToken(doc, inside.at).type = "comment")
        ELSE [inside EXCEPT !.value = Object(now)]
      value(key, inside) == member(Place(kids, Member(kids, key), key, inside.value), key, inside)
      named(key, colon) ==
        IF ~key.ok \/ colon.type # ":" THEN Result(FALSE, Object(kids), p)
        ELSE value(key.value.s, readValue(doc, colon.to, depth + 1))
      read(name) ==
        CASE name.type = "}" /\ last = <<>> -> Result(TRUE, Object(kids), name.to)
          [] name.type = "string" ->
               named(StringIn(SubSeq(doc, name.from, name.to - 1)), readToken(doc, name.to))
          [] OTHER -> Result(FALSE, Object(kids), p)
  IN  read(skipCommentTokens(doc, p))

readArray(doc, p, depth, kids) ==
  LET next(now, token) ==
        CASE token.type = "]" -> Result(TRUE, Array(now), token.to)
          [] token.type = "," -> readArray(doc, token.to, depth, now)
          [] OTHER -> Result(FALSE, Array(now), p)
      element(now, inside) ==
        IF inside.ok THEN next(now, skipCommentTokens(doc, inside.at))
        ELSE [inside EXCEPT !.value = Array(now)]
      value(inside) == element(Append(kids, <<<<>>, OrElse(inside.value, JsonNull)>>), inside)
  IN  value(readValue(doc, p, depth + 1))

(* parse: what follows the value is not looked at.                         *)
parseDocument(doc) == LET r == readValue(doc, 1, 1) IN [r EXCEPT !.value = OrElse(@, JsonNull)]

-----------------------------------------------------------------------------
(* FastWriter::writeValue and the conversions it uses.                     *)

RECURSIVE uintToString(_)
uintToString(n) ==
  LET digit == <<ToString(n % 10)>> IN IF n < 10 THEN digit ELSE uintToString(n \div 10) \o digit
valueToString(n) == IF n < 0 THEN <<"-">> \o uintToString(-n) ELSE uintToString(n)

valueToQuotedString(s) ==
  LET Quoted(x) == CASE x \in {"quote", "esc"} -> <<"esc", x>>
                     [] x = "BS" -> <<"esc", "b">> [] x = "FF" -> <<"esc", "f">>
                     [] x = "LF" -> <<"esc", "n">> [] x = "CR" -> <<"esc", "r">>
                     [] x = "HT" -> <<"esc", "t">> [] x = "ctl" -> <<"esc", "u", "001F">>
                     [] OTHER -> <<x>>
  IN  <<"quote">> \o FlattenSeq([i \in DOMAIN s |-> Quoted(s[i])]) \o <<"quote">>

RECURSIVE writeValue(_)
writeValue(v) ==
  LET comma(i) == IF i = 1 THEN <<>> ELSE <<",">>
      listed(Item(_)) == FlattenSeq([i \in DOMAIN v.kids |-> comma(i) \o Item(v.kids[i])])
  IN  CASE v.type = "null" -> <<"null">>
        [] v.type = "bool" -> <<IF v.n = 1 THEN "true" ELSE "false">>
        [] v.type \in {"int", "uint"} -> valueToString(v.n)
        [] v.type = "real" -> v.s \o (IF ToSet(v.s) \cap {".", "e"} = {} THEN <<".", "0">> ELSE <<>>)
        [] v.type = "string" -> valueToQuotedString(v.s)
        [] v.type = "array" -> <<"[">> \o listed(LAMBDA k : writeValue(k[2])) \o <<"]">>
        [] v.type = "object" ->
             <<"{">> \o listed(LAMBDA k : valueToQuotedString(k[1]) \o <<":">> \o writeValue(k[2]))
             \o <<"}">>

=============================================================================
