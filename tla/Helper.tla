------------------------------- MODULE Helper -------------------------------
(***************************************************************************)
(* libCommon/Helper.cpp: the conversions of text, bytes and time; and      *)
(* CDataCenter::MakeGoodSqlString (libCache/libCache.cpp), which is made   *)
(* of one of them.  A text is a sequence of symbols, one for each byte;    *)
(* where the code counts with bytes these are numbers.  One behaviour is   *)
(* one call.                                                               *)
(***************************************************************************)
EXTENDS Integers, Sequences, SequencesExt, FiniteSets, Bitwise, TLC

CONSTANTS
  Texts,        (* what the calls are given                                 *)
  ByteStrings, XorKeys,
  Patterns,
  Days,         (* days since 1970                                          *)
  Seconds       (* seconds of a day, in UTC                                 *)

VARIABLE called   (* the call, what it was given, what it gives               *)

(* The bytes that have a name here, and the hex digits.                    *)
Decimal == [d \in {"0","1","2","3","4","5","6","7","8","9"} |-> CHOOSE n \in 0..9 : ToString(n) = d]
Upper == ("A" :> 10) @@ ("B" :> 11) @@ ("C" :> 12) @@ ("D" :> 13) @@ ("E" :> 14) @@ ("F" :> 15)
Lower == ("a" :> 10) @@ ("b" :> 11) @@ ("c" :> 12) @@ ("d" :> 13) @@ ("e" :> 14) @@ ("f" :> 15)
Hex == Decimal @@ Upper @@ Lower
Ascii == 0 :> "NUL" @@ 9 :> "HT" @@ 10 :> "LF" @@ 13 :> "CR" @@ 32 :> " " @@ 34 :> "quote" @@ 37 :> "%"
         @@ 38 :> "&" @@ 39 :> "'" @@ 43 :> "+" @@ 45 :> "-" @@ 61 :> "=" @@ 92 :> "esc" @@ 200 :> "high"
ByteNamed(n) == IF n \in DOMAIN Ascii THEN Ascii[n] ELSE "byte"
CodeOf(x) == CHOOSE n \in DOMAIN Ascii : Ascii[n] = x
HexDigit(n) == CHOOSE d \in DOMAIN Decimal \cup DOMAIN Upper : Hex[d] = n

-----------------------------------------------------------------------------
(* urlEncode reads a C string: it ends at the first zero.                  *)
CString(s) ==
  LET zero == SelectInSeq(s, LAMBDA x : x = "NUL") IN IF zero = 0 THEN s ELSE SubSeq(s, 1, zero - 1)

Kept(x) == x \notin ToSet(Ascii) \ {"-"}
escapedWithoutZero(n) ==   \* deviation: one digit below sixteen
  IF n < 16 THEN <<"%", HexDigit(n)>> ELSE <<"%", HexDigit(n \div 16), HexDigit(n % 16)>>
escaped(n) == <<"%", HexDigit(n \div 16), HexDigit(n % 16)>>
urlEncode(s) ==
  FlattenSeq([i \in DOMAIN CString(s) |-> IF Kept(s[i]) THEN <<s[i]>> ELSE escaped(CodeOf(s[i]))])

(* urlDecode: what sscanf makes of the two bytes behind a percent sign; of *)
(* bytes that are no number the value is the last one, or none at all.     *)
Scanned(pair) ==
  CASE pair = <<>> \/ pair[1] \notin DOMAIN Hex -> "any"
    [] Len(pair) = 2 /\ pair[2] \in DOMAIN Hex -> ByteNamed(16 * Hex[pair[1]] + Hex[pair[2]])
    [] OTHER -> ByteNamed(Hex[pair[1]])
urlDecode(s) ==
  LET step(a, i) ==
        IF i < a.next THEN a
        ELSE IF s[i] # "%" THEN [a EXCEPT !.out = Append(@, IF s[i] = "+" THEN " " ELSE s[i])]
        ELSE [out |-> Append(a.out, Scanned(SubSeq(s, i + 1, IF i + 2 < Len(s) THEN i + 2 ELSE Len(s)))),
              next |-> i + 3]
  IN  FoldLeftDomain(step, [out |-> <<>>, next |-> 1], s).out

(* Base64Encode: a digit is its number in the table.  Of the accumulator's *)
(* 32 bits the last twelve matter.                                         *)
Pad == 64
Base64Encode(bytes) ==
  LET drained(a) ==   \* at most two groups of six
        LET one(b) == IF b.bits < 6 THEN b
                      ELSE [b EXCEPT !.bits = @ - 6, !.out = Append(@, (b.acc \div 2^(b.bits - 6)) % 64)]
        IN  one(one(a))
      step(a, byte) == drained([a EXCEPT !.acc = (@ * 256 + byte) % 2^16, !.bits = @ + 8])
      end == FoldLeft(step, [acc |-> 0, bits |-> 0, out |-> <<>>], bytes)
      all == IF end.bits = 0 THEN end.out ELSE Append(end.out, (end.acc * 2^(6 - end.bits)) % 64)
  IN  all \o [i \in 1..(4 * ((Len(bytes) + 2) \div 3) - Len(all)) |-> Pad]

SimpleXor(src, key) ==
  IF src = <<>> \/ key = <<>> THEN <<>>
  ELSE [i \in DOMAIN src |-> src[i] ^^ key[((i - 1) % Len(key)) + 1]]

(* Utf8StringLength goes by first bytes, beyond the end if it must.        *)
LengthOf(byte) ==
  CASE byte >= 252 -> 6 [] byte >= 248 -> 5 [] byte >= 240 -> 4
    [] byte >= 224 -> 3 [] byte >= 192 -> 2 [] OTHER -> 1
Utf8StringLength(bytes) ==
  FoldLeftDomain(LAMBDA a, i : IF i < a.next THEN a
                               ELSE [next |-> i + LengthOf(bytes[i]), length |-> a.length + 1],
                 [next |-> 1, length |-> 0], bytes).length

-----------------------------------------------------------------------------
(* find: where the pattern stands first, from a position on; 0: nowhere.   *)
find(s, pattern, from) ==
  LET at == {p \in from..(Len(s) - Len(pattern) + 1) : SubSeq(s, p, p + Len(pattern) - 1) = pattern}
  IN  IF at = {} THEN 0 ELSE CHOOSE p \in at : \A q \in at : p <= q

RECURSIVE ReplaceStringInPlace(_, _, _, _)
ReplaceStringInPlace(subject, search, replace, pos) ==
  LET at == find(subject, search, pos)
  IN  IF at = 0 THEN subject
      ELSE ReplaceStringInPlace(
             SubSeq(subject, 1, at - 1) \o replace \o SubSeq(subject, at + Len(search), Len(subject)),
             search, replace, at + Len(replace))

TrimString(s, c) ==
  LET kept == {i \in DOMAIN s : s[i] # c}
  IN  IF kept = {} THEN s
      ELSE SubSeq(s, CHOOSE i \in kept : \A j \in kept : i <= j, CHOOSE i \in kept : \A j \in kept : j <= i)

(* SplitString: the pieces that are not empty, of the text with a pattern  *)
(* behind it.                                                              *)
RECURSIVE PiecesFrom(_, _, _)
PiecesFrom(s, pattern, i) ==
  LET pos == find(s, pattern, i)
      rest == PiecesFrom(s, pattern, pos + Len(pattern))
  IN  IF i > Len(s) \/ pos = 0 THEN <<>>
      ELSE IF pos = i THEN rest ELSE <<SubSeq(s, i, pos - 1)>> \o rest
HelperSplitString(src, pattern, trim) ==
  LET pieces == PiecesFrom(src \o pattern, pattern, 1)
  IN  [n \in DOMAIN pieces |-> IF trim THEN TrimString(pieces[n], " ") ELSE pieces[n]]

MakeGoodSqlString(s) ==
  LET slashes == ReplaceStringInPlace(s, <<"esc">>, <<"esc", "esc">>, 1)
      single  == ReplaceStringInPlace(slashes, <<"'">>, <<"esc", "'">>, 1)
  IN  ReplaceStringInPlace(single, <<"quote">>, <<"esc", "quote">>, 1)

-----------------------------------------------------------------------------
(* Time.  The quotient of C is truncated; int has 32 bits.                 *)
Quotient(a, b) == IF a < 0 THEN -((-a) \div b) ELSE a \div b
MaxInt32 == 2^30 - 1 + 2^30
Overflow == -1

FastUnixtimeToTm(time, zone) ==
  LET minutes == time \div 60
      hours == minutes \div 60 + zone
      a == hours \div 24 + 2472632
      b == (a * 4 + 3) \div 146097
      c == Quotient(-b * 146097, 4) + a
      d == (c * 4 + 3) \div 1461
      e == Quotient(-d * 1461, 4) + c
      m == (5 * e + 2) \div 153
  IN  [sec |-> time % 60, min |-> minutes % 60, hour |-> hours % 24,
       mday |-> Quotient(-(153 * m + 2), 5) + e + 1,
       mon |-> -(m \div 10) * 12 + m + 2, year |-> b * 100 + d - 6700 + m \div 10]

FastTmToUnixtime(tm, gmtoff) ==
  LET early == tm.mon + 1 <= 2
      mon  == IF early THEN tm.mon + 11 ELSE tm.mon - 1
      year == IF early THEN tm.year + 1899 ELSE tm.year + 1900
      days == (year - 1) * 365 + year \div 4 - year \div 100 + year \div 400
              + (367 * mon) \div 12 - 30 + 59 + tm.mday - 1 - 719162
      minutes == (days * 24 + tm.hour) * 60 + tm.min
  IN  IF minutes > (MaxInt32 - tm.sec) \div 60 THEN Overflow ELSE minutes * 60 + tm.sec - gmtoff

GetDateUnixTime(now, day_offset) ==
  LET start == FastTmToUnixtime([FastUnixtimeToTm(now, 8) EXCEPT !.hour = 0, !.min = 0, !.sec = 0], 28800)
  IN  IF start = Overflow THEN Overflow ELSE start + 86400 * day_offset

-----------------------------------------------------------------------------
NoCall == [of |-> "none"]
HelperInit == called = NoCall
Gave(name, given, gives) == called' = [of |-> name, given |-> given, gives |-> gives]

Asked == called = NoCall
UrlCall    == Asked /\ \E s \in Texts : Gave("urlEncode", s, urlEncode(s))
DecodeCall == Asked /\ \E s \in Texts : Gave("urlDecode", s, urlDecode(s))
Base64Call == Asked /\ \E s \in ByteStrings : Gave("Base64Encode", s, Base64Encode(s))
XorCall    == Asked /\ \E s \in ByteStrings, key \in XorKeys : Gave("SimpleXor", <<s, key>>, SimpleXor(s, key))
Utf8Call   == Asked /\ \E s \in ByteStrings : Gave("Utf8StringLength", s, Utf8StringLength(s))
SplitCall  == Asked /\ \E s \in Texts, p \in Patterns, trim \in BOOLEAN :
                           Gave("SplitString", <<s, p, trim>>, HelperSplitString(s, p, trim))
SqlCall    == Asked /\ \E s \in Texts : Gave("MakeGoodSqlString", s, MakeGoodSqlString(s))
TimeCall ==
  Asked /\ \E day \in Days, second \in Seconds, day_offset \in {0, -1} :
    LET now == 86400 * day + second
    IN  Gave("GetDateUnixTime", <<now, day_offset>>, GetDateUnixTime(now, day_offset))

HelperNext ==
  \/ UrlCall \/ DecodeCall \/ Base64Call \/ XorCall \/ Utf8Call \/ SplitCall \/ SqlCall \/ TimeCall

-----------------------------------------------------------------------------
(* Each conversion loses nothing: what a decoder makes of the encoded text *)
(* is the text (up to a zero byte, for urlEncode); the pieces of a text    *)
(* are what is left of it without the pattern, unless the pattern overlaps *)
(* itself; the bits of Base64's digits are the bits of the bytes; and the  *)
(* start of a day in UTC+8 is that day's, with the date that follows the   *)
(* one before it, as long as int can hold the seconds.                     *)
Bits(n, width) == [i \in 1..width |-> (n \div 2^(width - i)) % 2]
AllBits(s, width) == FlattenSeq([i \in DOMAIN s |-> Bits(s[i], width)])

Continuation == 128..191
WellFormed(s) ==   \* UTF-8
  /\ s # <<>> => s[1] \notin Continuation
  /\ \A i \in DOMAIN s : s[i] \notin Continuation =>
       LET after == i + LengthOf(s[i])
       IN  /\ \A j \in (i + 1)..(after - 1) : j <= Len(s) /\ s[j] \in Continuation
           /\ after <= Len(s) => s[after] \notin Continuation

RECURSIVE Unquoted(_)
Unquoted(s) ==   \* a string literal of SQL, between its quotes
  IF s = <<>> THEN <<>>
  ELSE IF s[1] = "esc" /\ Len(s) > 1 THEN <<s[2]>> \o Unquoted(SubSeq(s, 3, Len(s)))
  ELSE <<s[1]>> \o Unquoted(Tail(s))

Overlaps(p) == \E n \in 1..(Len(p) - 1) : IsSuffix(SubSeq(p, 1, n), p)

DaysIn(month, year) ==
  CASE month = 2 -> IF year % 4 = 0 THEN 29 ELSE 28   \* 1970 to 2038
    [] month \in {4, 6, 9, 11} -> 30
    [] OTHER -> 31
Following(date) ==
  CASE date[3] < DaysIn(date[2], date[1]) -> <<date[1], date[2], date[3] + 1>>
    [] date[2] < 12 -> <<date[1], date[2] + 1, 1>>
    [] OTHER -> <<date[1] + 1, 1, 1>>
DateOf(tm) == <<tm.year + 1900, tm.mon + 1, tm.mday>>

CodecsInvert ==
  LET s == called.given
      r == called.gives
      digits == SelectSeq(r, LAMBDA x : x # Pad)
  IN  CASE called.of = "urlEncode" -> urlDecode(r) = CString(s)
        [] called.of = "urlDecode" -> (\A i \in DOMAIN s : s[i] \notin {"%", "+"}) => r = s
        [] called.of = "Base64Encode" ->
             Len(r) % 4 = 0 /\ IsPrefix(AllBits(s, 8), AllBits(digits, 6)) /\ Len(r) - Len(digits) < 3
        [] called.of = "SimpleXor" -> s[2] # <<>> => SimpleXor(r, s[2]) = s[1]
        [] called.of = "Utf8StringLength" ->
             WellFormed(s) => r = Cardinality({i \in DOMAIN s : s[i] \notin Continuation})
        [] called.of = "SplitString" ->
             LET kept(x) == IF s[3] THEN SelectSeq(x, LAMBDA y : y # " ") ELSE x
             IN  Overlaps(s[2]) \/ kept(FlattenSeq(r)) = kept(ReplaceStringInPlace(s[1], s[2], <<>>, 1))
        [] called.of = "MakeGoodSqlString" -> Unquoted(r) = s
        [] called.of = "GetDateUnixTime" ->
             LET now == s[1]
                 start == r - 86400 * s[2]
                 tm == FastUnixtimeToTm(now, 8)
             IN  /\ start <= now /\ now - start < 86400 /\ start % 86400 = 57600   \* 16:00 in UTC
                 /\ FastTmToUnixtime(tm, 28800) \in {now, Overflow}
                 /\ now < MaxInt32 - 86400 =>
                      DateOf(FastUnixtimeToTm(now + 86400, 8)) = Following(DateOf(tm))
        [] OTHER -> TRUE

=============================================================================
