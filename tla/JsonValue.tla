------------------------------ MODULE JsonValue ------------------------------
(***************************************************************************)
(* Json::Value and Json::Path (libCommon/jsoncpp/jsoncpp.cpp): what a      *)
(* handler does with a document it has read or is about to write.          *)
(*                                                                         *)
(* An array and an object are the same map inside, from indexes or from    *)
(* names to values, so an array may have holes.  Here the kids of a value  *)
(* are that map; a name is a number in the order memcmp gives the names.   *)
(* The n of a double counts halves.  want is what the calls mean by the    *)
(* comments of json.h: arrays without holes.                               *)
(***************************************************************************)
EXTENDS Json, FiniteSets, Functions, TLC

CONSTANTS
  Indexes,      (* 0 .. n; the names of objects too                         *)
  Scalars,      (* values that are no containers                            *)
  Stored,       (* those that are put into containers                       *)
  Paths,        (* arguments of a path: pairs of a kind and a key           *)
  MaxCalls      (* bound                                                    *)

VARIABLES
  root,
  want,
  answer,       (* of the last call: <<root's, want's>>                     *)
  strayed,      (* history: an array was shrunk to one that ends in a hole, *)
                (* or a hole was to be removed                              *)
  done          (* calls so far                                             *)

valueVars == <<root, want, answer, strayed, done>>

Double(halves) == JValue("real", halves, <<>>, <<>>)
Text(bytes)    == JValue("string", 0, bytes, <<>>)
Unsigned(n)    == JValue("uint", n, <<>>, <<>>)
Map(type, map) == JValue(type, 0, <<>>, map)
Keys(v) == DOMAIN v.kids
Top(keys) == CHOOSE k \in keys : \A l \in keys : l <= k

-----------------------------------------------------------------------------
(* Numbers.  Between is InRange; the largest 64-bit integers are rounded   *)
(* up to a power of two when they become doubles.                          *)

minInt == -MaxInt - 1
maxUInt == 2 * MaxInt + 1
minLargestInt == -MaxLargestInt - 1
maxLargestUInt == 2 * MaxLargestInt + 1

isNumeric(v) == v.type \in {"int", "uint", "real"}
Whole(v) == v.n % 2 = 0
Between(v, low, high) == 2 * low <= v.n /\ v.n <= 2 * high
Fits(v, low, high) == IF v.type = "real" THEN Between(v, low, high) /\ Whole(v)
                      ELSE v.type \in {"int", "uint"} /\ low <= v.n /\ v.n <= high

isInt(v) == Fits(v, minInt, MaxInt)
isUInt(v) == Fits(v, 0, maxUInt)
isInt64(v) == Fits(v, minLargestInt, MaxLargestInt)
isUInt64(v) == Fits(v, 0, maxLargestUInt)
isIntegral(v) == v.type \in {"int", "uint"} \/ Fits(v, minLargestInt, maxLargestUInt)

(* What a call gives: one value, or none when it throws.                  *)
Threw == <<>>
Gives(x) == <<x>>
Truncated(halves) == IF halves < 0 THEN -((-halves) \div 2) ELSE halves \div 2

(* asInt, asUInt, asInt64, asUInt64: an integer has to pass the test, a    *)
(* double only to be in the range, whose upper end for 64 bits is one more.*)
As(v, low, high, highest) ==
  CASE v.type \in {"int", "uint"} -> IF Fits(v, low, high) THEN Gives(v.n) ELSE Threw
    [] v.type = "real" -> IF Between(v, low, highest) THEN Gives(Truncated(v.n)) ELSE Threw
    [] v.type \in {"null", "bool"} -> Gives(v.n)
    [] OTHER -> Threw

asInt(v) == As(v, minInt, MaxInt, MaxInt)
asUInt(v) == As(v, 0, maxUInt, maxUInt)
asInt64(v) == As(v, minLargestInt, MaxLargestInt, MaxLargestInt + 1)
asUInt64(v) == As(v, 0, maxLargestUInt, maxLargestUInt + 1)

asDouble(v) ==   \* in halves
  CASE v.type \in {"int", "uint", "bool", "null"} -> Gives(2 * v.n)
    [] v.type = "real" -> Gives(v.n)
    [] OTHER -> Threw
asBool(v) == IF v.type \in {"int", "uint", "bool", "real", "null"} THEN Gives(v.n # 0) ELSE Threw
asString(v) == IF v.type \in {"array", "object"} THEN Threw ELSE Gives(v)

-----------------------------------------------------------------------------
(* Containers.  A null becomes the container it is used as.                *)

size(v) == CASE v.type = "array" -> IF Keys(v) = {} THEN 0 ELSE Top(Keys(v)) + 1
             [] v.type = "object" -> Cardinality(Keys(v))
             [] OTHER -> 0
empty(v) == v.type \in {"null", "array", "object"} /\ size(v) = 0

Takes(v, type) == v.type \in {"null", type}
Opened(v, type) == IF v.type = "null" THEN Map(type, <<>>) ELSE v

(* operator[] and resolveReference: the element, a null if there is none.  *)
reference(v, type, key) == [Opened(v, type) EXCEPT !.kids = @ @@ (key :> JsonNull)]

(* find, the const operator[] and get, of what Takes it.                   *)
Element(v, type, key, default) ==
  IF v.type = type /\ key \in Keys(v) THEN v.kids[key] ELSE default

isMember(v, name) == IF Takes(v, "object") THEN Gives(v.type = "object" /\ name \in Keys(v)) ELSE Threw
getMemberNames(v) ==
  IF ~Takes(v, "object") THEN Threw
  ELSE Gives(IF v.type = "null" THEN <<>> ELSE SetToSortSeq(Keys(v), <))

(* isConvertibleTo.                                                        *)
isConvertibleTo(v, type) ==
  CASE type = "null" -> \/ isNumeric(v) /\ asDouble(v) = Gives(0)
                        \/ v.type = "bool" /\ v.n = 0
                        \/ v.type = "string" /\ v.s = <<>>
                        \/ v.type \in {"array", "object"} /\ Keys(v) = {}
                        \/ v.type = "null"
    [] type = "int" -> isInt(v) \/ (v.type = "real" /\ Between(v, minInt, MaxInt)) \/ v.type \in {"bool", "null"}
    [] type = "uint" -> isUInt(v) \/ (v.type = "real" /\ Between(v, 0, maxUInt)) \/ v.type \in {"bool", "null"}
    [] type \in {"real", "bool"} -> isNumeric(v) \/ v.type \in {"bool", "null"}
    [] type = "string" -> isNumeric(v) \/ v.type \in {"bool", "string", "null"}
    [] OTHER -> v.type \in {type, "null"}

(* operator< and operator==: the types first, then strings as memcmp has   *)
(* them, and containers by how many elements they hold before what these   *)
(* are, key by key.                                                        *)
ValueTypes == <<"null", "int", "uint", "real", "string", "bool", "array", "object">>
Order == [t \in ToSet(ValueTypes) |-> SelectInSeq(ValueTypes, LAMBDA u : u = t)]

BytesLess(s, t) ==
  \/ IsStrictPrefix(s, t)
  \/ \E n \in DOMAIN s \cap DOMAIN t : s[n] < t[n] /\ SubSeq(s, 1, n - 1) = SubSeq(t, 1, n - 1)

RECURSIVE Less(_, _)
Less(v, w) ==
  IF v.type # w.type THEN Order[v.type] < Order[w.type]
  ELSE CASE v.type = "string" -> BytesLess(v.s, w.s)
         [] v.type \in {"array", "object"} ->
              LET ks == SetToSortSeq(Keys(v), <)
                  ls == SetToSortSeq(Keys(w), <)
              IN  \/ Len(ks) < Len(ls)
                  \/ /\ Len(ks) = Len(ls)
                     /\ \E n \in DOMAIN ks :
                          /\ \A m \in 1..(n - 1) : ks[m] = ls[m] /\ ~Less(v.kids[ks[m]], w.kids[ls[m]])
                                                   /\ ~Less(w.kids[ls[m]], v.kids[ks[m]])
                          /\ ks[n] < ls[n] \/ (ks[n] = ls[n] /\ Less(v.kids[ks[n]], w.kids[ls[n]]))
         [] OTHER -> v.n < w.n
compare(v, w) == IF Less(v, w) THEN -1 ELSE IF Less(w, v) THEN 1 ELSE 0

RECURSIVE Same(_, _)
Same(v, w) ==
  /\ v.type = w.type
  /\ CASE v.type = "string" -> v.s = w.s
       [] v.type \in {"array", "object"} ->
            Keys(v) = Keys(w) /\ \A k \in Keys(v) : Same(v.kids[k], w.kids[k])
       [] OTHER -> v.n = w.n

-----------------------------------------------------------------------------
(* Path: make goes down with operator[] and puts what is missing in place; *)
(* resolve goes down an array only below its size, and takes a null for a  *)
(* hole; a name that is not there is a null it recognizes.                 *)

RECURSIVE canMake(_, _), make(_, _, _), resolve(_, _, _)
canMake(v, path) ==
  path = <<>> \/ LET arg == Head(path)
                 IN  Takes(v, arg.kind) /\ canMake(reference(v, arg.kind, arg.key).kids[arg.key], Tail(path))
make(v, path, value) ==
  IF path = <<>> THEN value
  ELSE LET arg == Head(path)
       IN  [reference(v, arg.kind, arg.key) EXCEPT !.kids[arg.key] = make(@, Tail(path), value)]
resolve(v, path, default) ==
  IF path = <<>> THEN v
  ELSE LET arg == Head(path)
       IN  IF v.type # arg.kind THEN default
           ELSE IF arg.kind = "array"
                THEN IF arg.key < size(v) THEN resolve(Element(v, "array", arg.key, JsonNull), Tail(path), default)
                     ELSE default
                ELSE IF arg.key \in Keys(v) THEN resolve(v.kids[arg.key], Tail(path), default) ELSE default

-----------------------------------------------------------------------------
(* What the calls mean.                                                    *)

RECURSIVE Dense(_), PutDense(_, _, _)
Dense(v) ==
  IF v.type \notin {"array", "object"} THEN v
  ELSE [v EXCEPT !.kids = [k \in IF v.type = "array" THEN 0..(size(v) - 1) ELSE Keys(v) |->
                             IF k \in Keys(v) THEN Dense(v.kids[k]) ELSE JsonNull]]
Filled(v, upTo) == [v EXCEPT !.kids = @ @@ [k \in 0..upTo |-> JsonNull]]
PutDense(v, path, value) ==
  IF path = <<>> THEN value
  ELSE LET arg == Head(path)
           room == IF arg.kind = "array" THEN Filled(Opened(v, "array"), arg.key)
                   ELSE Opened(v, "object")
           old == IF arg.key \in Keys(room) THEN room.kids[arg.key] ELSE JsonNull
       IN  [room EXCEPT !.kids = (arg.key :> PutDense(old, Tail(path), value)) @@ @]

ValueInit ==
  /\ root \in Scalars /\ want = root
  /\ answer = <<Threw, Threw>> /\ strayed = FALSE
  /\ done = IF root = JsonNull THEN 0 ELSE MaxCalls - 1

Call(r, w, says, means) ==
  /\ done < MaxCalls /\ ~strayed
  /\ done' = done + 1
  /\ root' = r /\ want' = w /\ answer' = <<says, means>>

Assign ==
  \E path \in Paths, value \in Stored :
    /\ IF canMake(root, path) THEN Call(make(root, path, value), PutDense(want, path, value), Gives(JsonNull), Gives(JsonNull))
       ELSE Call(root, want, Threw, Threw)
    /\ UNCHANGED strayed

append ==
  \E value \in Stored :
    /\ IF Takes(root, "array")
       THEN LET last(v) == <<[kind |-> "array", key |-> size(v)]>>
            IN  Call(make(root, last(root), value), PutDense(want, last(want), value), Gives(JsonNull), Gives(JsonNull))
       ELSE Call(root, want, Threw, Threw)
    /\ UNCHANGED strayed

clear ==
  /\ CASE root.type = "null" -> Call(root, want, Gives(JsonNull), Gives(JsonNull))
       [] root.type \in {"array", "object"} ->
            Call([root EXCEPT !.kids = <<>>], [want EXCEPT !.kids = <<>>], Gives(JsonNull), Gives(JsonNull))
       [] OTHER -> Call(root, want, Threw, Threw)
  /\ UNCHANGED strayed

(* resize: a null at the last place, or the elements from the new size on  *)
(* erased; then the size must be the new one.                              *)
resized(v, to) ==
  LET array == Opened(v, "array")
  IN  IF to = 0 THEN Map("array", <<>>)
      ELSE IF to > size(array) THEN reference(array, "array", to - 1)
      ELSE [array EXCEPT !.kids = Restrict(@, {k \in Keys(array) : k < to})]
resize ==
  \E to \in Indexes :
    IF ~Takes(root, "array") THEN Call(root, want, Threw, Threw) /\ UNCHANGED strayed
    ELSE LET now == resized(root, to)
             array == Opened(want, "array")
             meant == IF to > size(array) THEN Filled(array, to - 1)
                      ELSE Map("array", Restrict(array.kids, 0..(to - 1)))
         IN  /\ Call(now, meant, IF size(now) = to THEN Gives(JsonNull) ELSE Threw, Gives(JsonNull))
             /\ strayed' = (to \in 1..size(root) /\ to - 1 \notin Keys(root))

removeMember ==
  \E name \in Indexes :
    LET without(v) == [v EXCEPT !.kids = Restrict(@, Keys(v) \ {name})]
    IN  /\ IF isMember(root, name) = Gives(TRUE)
           THEN Call(without(root), without(want), Gives(Dense(root.kids[name])), Gives(want.kids[name]))
           ELSE Call(root, want, isMember(root, name), isMember(want, name))
        /\ UNCHANGED strayed

(* removeIndex: every element takes the value of the next one, a hole's is *)
(* a null, and the last one is erased.                                     *)
shiftedNotErased(v, index) ==   \* deviation: the last one stays
  [v EXCEPT !.kids = [k \in index..(size(v) - 2) |-> Element(v, "array", k + 1, JsonNull)] @@ @]
shifted(v, index) ==
  [v EXCEPT !.kids = Restrict([k \in index..(size(v) - 2) |-> Element(v, "array", k + 1, JsonNull)] @@ @,
                              (Keys(v) \cup index..(size(v) - 2)) \ {size(v) - 1})]
removeIndex ==
  \E index \in Indexes :
    /\ IF root.type = "array" /\ index \in Keys(root)
       THEN Call(shifted(root, index),
                 [want EXCEPT !.kids = [k \in 0..(size(want) - 2) |-> @[IF k < index THEN k ELSE k + 1]]],
                 Gives(Dense(root.kids[index])), Gives(want.kids[index]))
       ELSE Call(root, want, Threw, Threw)
    /\ strayed' = (/\ root.type = "array" /\ index < size(root)
                    /\ \/ index \notin Keys(root)
                       \/ index = size(root) - 1 /\ index > 0 /\ index - 1 \notin Keys(root))

ValueNext == Assign \/ append \/ clear \/ resize \/ removeMember \/ removeIndex

-----------------------------------------------------------------------------
(* A container holds and answers what the calls meant, though inside it is *)
(* a map with holes, until an array with a hole is shrunk or a hole is     *)
(* removed; a value says of itself that it is convertible to a type when   *)
(* the conversion does not throw, and an integer when the conversion gives *)
(* exactly that number; and compare is 0 for equal values only and         *)
(* changes its sign with the operands.  A double that is 2^63 or 2^64 is   *)
(* not counted: the conversion to 64 bits lets it through.                 *)
Reads ==
  /\ Dense(root) = want /\ answer[1] = answer[2]
  /\ size(root) = size(want) /\ empty(root) = empty(want)
  /\ isMember(root, 1) = isMember(want, 1) /\ getMemberNames(root) = getMemberNames(want)
  /\ \A path \in Paths : Dense(resolve(root, path, Text(<<9>>))) = resolve(want, path, Text(<<9>>))

Converts ==
  /\ isConvertibleTo(root, "int") <=> asInt(root) # Threw
  /\ isConvertibleTo(root, "uint") <=> asUInt(root) # Threw
  /\ isConvertibleTo(root, "real") <=> asDouble(root) # Threw
  /\ isConvertibleTo(root, "bool") <=> asBool(root) # Threw
  /\ isConvertibleTo(root, "string") <=> asString(root) # Threw
  /\ isConvertibleTo(root, "null") => asBool(root) \in {Gives(FALSE), Threw}
  /\ isInt(root) => isInt64(root) /\ 2 * asInt(root)[1] = asDouble(root)[1]
  /\ isUInt(root) => isUInt64(root) /\ 2 * asUInt(root)[1] = asDouble(root)[1]
  /\ isIntegral(root) <=> isInt64(root) \/ isUInt64(root)
  /\ \/ root.type = "real" /\ root.n \in {2 * MaxLargestInt + 2, 2 * maxLargestUInt + 2}
     \/ /\ asInt64(root) # Threw => asInt64(root)[1] \in minLargestInt..MaxLargestInt
        /\ asUInt64(root) # Threw => asUInt64(root)[1] \in 0..maxLargestUInt

Compares ==
  \A other \in Stored \cup {want, Map("array", 0 :> JsonNull), Map("object", 1 :> JsonNull)} :
    /\ compare(root, other) = -compare(other, root)
    /\ compare(root, other) = 0 <=> Same(root, other)

ContainersAsMeant == ~strayed => Reads /\ Converts /\ Compares
=============================================================================
