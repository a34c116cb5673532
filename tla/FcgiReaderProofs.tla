------------------------- MODULE FcgiReaderProofs -------------------------
(***************************************************************************)
(* A theorem about FcgiReader, for any requests, any sizes of buffers and  *)
(* of what handlers ask for, and however the bytes arrive: a header is     *)
(* only read where the web server put one.                                 *)
(*                                                                         *)
(* What is sent is framed: records from the first byte to the last         *)
(* (WireIsFramed, by induction over the records).  FillBuffProc keeps no   *)
(* such thing; it counts down what is left of a record.  The invariant     *)
(* (IInv) is that the place it has reached and what it has counted always  *)
(* make the end of a record, which depends on which calls are under way:   *)
(* ProcessHeader may itself read, through FCGX_GetStr, on the buffer that  *)
(* the calls below it read from.  So the invariant also says how the calls *)
(* nest (Stack, Under), and what each is told by the one it waits for      *)
(* (Told, Counted).                                                        *)
(***************************************************************************)
EXTENDS FcgiReader, SequenceTheorems, WellFoundedInduction, TLAPS

-----------------------------------------------------------------------------
(* A set that has 0, and n + 1 with each n, has every number: else it would *)
(* lack a least one.                                                        *)
LEMMA Induction ==
  ASSUME NEW T, T \subseteq Nat, 0 \in T, \A n \in T : n + 1 \in T
  PROVE  T = Nat
<1> DEFINE R == OpToRel(<, Nat)
           Rest == Nat \ T
<1>1. IsWellFoundedOn(R, Nat)
  BY NatLessThanWellFounded
<1> SUFFICES ASSUME Rest # {} PROVE FALSE
  OBVIOUS
<1>2. PICK x \in Rest : \A y \in Rest : <<y, x>> \notin R
  <2> HIDE DEF R, Rest
  <2>1. Rest \subseteq Nat
    BY DEF Rest
  <2>2. IsWellFoundedOn(R, Rest)
    BY <1>1, <2>1, IsWellFoundedOnSubset
  <2> QED BY <2>2, WFMin
<1>3. x # 0 /\ x \in Nat /\ x - 1 \in Nat
  OBVIOUS
<1>4. x - 1 \in Rest
  <2>1. x - 1 \in T => x \in T
    BY <1>3
  <2> QED BY <1>3, <2>1
<1>5. <<x - 1, x>> \in R
  <2>1. <<x - 1, x>> \in Nat \X Nat /\ <<x - 1, x>>[1] < <<x - 1, x>>[2]
    BY <1>3
  <2> QED BY <2>1, Zenon DEF OpToRel
<1> QED BY <1>2, <1>4, <1>5

-----------------------------------------------------------------------------
(* The bytes that are sent.                                                 *)

HeaderOfRecord(r) == [type |-> r.type, id |-> r.id, clen |-> Len(r.content), plen |-> r.pad]
BytesOf(r) == ToSet(r.content) \cup {Pad} \cup {<<"header", k, HeaderOfRecord(r)>> : k \in 1 .. HeaderLen}
IsRecord(r) ==
  /\ r.pad \in Nat /\ r.content \in Seq(ToSet(r.content))
  /\ \A b \in ToSet(r.content) : b[2] \in Nat

LEMMA RecordLaidOut ==
  ASSUME NEW r, IsRecord(r)
  PROVE  /\ RecordBytes(r) \in Seq(BytesOf(r))
         /\ Len(RecordBytes(r)) = HeaderLen + Len(r.content) + r.pad
         /\ \A k \in 1 .. HeaderLen : RecordBytes(r)[k] = <<"header", k, HeaderOfRecord(r)>>
         /\ \A b \in BytesOf(r) : b[2] \in Nat
<1> DEFINE h == HeaderOfRecord(r)
           header == [k \in 1 .. HeaderLen |-> <<"header", k, h>>]
           padding == [k \in 1 .. r.pad |-> Pad]
           S == BytesOf(r)
<1>0. HeaderLen \in Nat /\ HeaderLen > 0 /\ r.pad \in Nat /\ Len(r.content) \in Nat
  BY LengthsAssumption DEF IsRecord
<1>1. RecordBytes(r) = (header \o r.content) \o padding
  BY DEF RecordBytes, HeaderOfRecord
<1>2. \A k \in 1 .. HeaderLen : <<"header", k, h>> \in S
  BY DEF BytesOf
<1>3. Pad \in S /\ ToSet(r.content) \subseteq S
  BY DEF BytesOf
<1>4. \A b \in S : b[2] \in Nat
  BY <1>0 DEF BytesOf, Pad, IsRecord
<1> HIDE DEF S, h
<1>5. header \in Seq(S) /\ Len(header) = HeaderLen /\ \A k \in 1 .. HeaderLen : header[k] = <<"header", k, h>>
  BY <1>0, <1>2
<1>6. padding \in Seq(S) /\ Len(padding) = r.pad
  BY <1>0, <1>3
<1>7. r.content \in Seq(S)
  BY <1>3 DEF IsRecord
<1> HIDE DEF header, padding
<1> DEFINE front == header \o r.content
<1>8. /\ front \in Seq(S) /\ Len(front) = HeaderLen + Len(r.content)
      /\ \A k \in 1 .. HeaderLen : front[k] = <<"header", k, h>>
  <2>1. /\ front \in Seq(S) /\ Len(front) = Len(header) + Len(r.content)
        /\ \A i \in 1 .. Len(header) + Len(r.content) :
             front[i] = IF i <= Len(header) THEN header[i] ELSE r.content[i - Len(header)]
    BY <1>5, <1>7, ConcatProperties, Zenon
  <2> HIDE DEF front
  <2>2. Len(front) = HeaderLen + Len(r.content)
    BY <1>5, <2>1
  <2>3. \A k \in 1 .. HeaderLen : k \in 1 .. Len(header) + Len(r.content) /\ k <= Len(header)
    BY <1>0, <1>5
  <2>4. \A k \in 1 .. HeaderLen : front[k] = header[k]
    BY <2>1, <2>3, Zenon
  <2> QED BY <1>5, <2>1, <2>2, <2>4, Zenon
<1> HIDE DEF front
<1>9. /\ front \o padding \in Seq(S) /\ Len(front \o padding) = Len(front) + Len(padding)
      /\ \A i \in 1 .. Len(front) + Len(padding) :
           (front \o padding)[i] = IF i <= Len(front) THEN front[i] ELSE padding[i - Len(front)]
  <2>1. front \in Seq(S) /\ padding \in Seq(S)
    BY <1>6, <1>8
  <2> QED BY <2>1, ConcatProperties, Zenon
<1>10. RecordBytes(r) = front \o padding
  BY <1>1 DEF front
<1> DEFINE whole == RecordBytes(r)
<1>11. /\ whole \in Seq(S) /\ Len(whole) = Len(front) + Len(padding)
       /\ \A i \in 1 .. Len(front) + Len(padding) :
            whole[i] = IF i <= Len(front) THEN front[i] ELSE padding[i - Len(front)]
  BY <1>9, <1>10
<1> HIDE DEF whole
<1>12. Len(whole) = HeaderLen + Len(r.content) + r.pad
  BY <1>6, <1>8, <1>11
<1>13. \A k \in 1 .. HeaderLen : whole[k] = <<"header", k, h>>
  <2>1. \A k \in 1 .. HeaderLen : k \in 1 .. Len(front) + Len(padding) /\ k <= Len(front)
    BY <1>0, <1>6, <1>8
  <2> QED BY <1>8, <1>11, <2>1, Zenon
<1> QED BY <1>4, <1>11, <1>12, <1>13 DEF whole, S, h

(* Where records end: what follows is a header again, or nothing.          *)
FramedBy(w, E) ==
  /\ \A i \in 1 .. Len(w) : w[i][2] \in Nat
  /\ E \subseteq 0 .. Len(w) /\ 0 \in E /\ Len(w) \in E
  /\ \A p \in E \ {Len(w)} : \E h :
       /\ h.clen \in Nat /\ h.plen \in Nat /\ p + HeaderLen + h.clen + h.plen \in E
       /\ \A k \in 1 .. HeaderLen : w[p + k] = <<"header", k, h>>

LEMMA OneMoreRecord ==
  ASSUME NEW S, NEW w \in Seq(S), NEW E, FramedBy(w, E), NEW r, IsRecord(r), BytesOf(r) \subseteq S
  PROVE  /\ w \o RecordBytes(r) \in Seq(S)
         /\ FramedBy(w \o RecordBytes(r), E \cup {Len(w) + Len(RecordBytes(r))})
<1> DEFINE b == RecordBytes(r)
           new == w \o b
           end == Len(w) + Len(b)
           h == HeaderOfRecord(r)
<1>0. HeaderLen \in Nat /\ HeaderLen > 0 /\ r.pad \in Nat /\ Len(r.content) \in Nat /\ Len(w) \in Nat
  BY LengthsAssumption DEF IsRecord
<1>1. /\ b \in Seq(S) /\ Len(b) = HeaderLen + Len(r.content) + r.pad
      /\ \A k \in 1 .. HeaderLen : b[k] = <<"header", k, h>>
      /\ \A i \in 1 .. Len(b) : b[i][2] \in Nat
  <2>1. b \in Seq(BytesOf(r)) /\ \A x \in BytesOf(r) : x[2] \in Nat
    BY RecordLaidOut
  <2>2. Len(b) = HeaderLen + Len(r.content) + r.pad /\ \A k \in 1 .. HeaderLen : b[k] = <<"header", k, h>>
    BY RecordLaidOut
  <2> HIDE DEF b, h
  <2>3. \A i \in 1 .. Len(b) : b[i] \in BytesOf(r)
    BY <2>1
  <2> QED BY <2>1, <2>2, <2>3
<1> HIDE DEF b, h
<1>2. /\ new \in Seq(S) /\ Len(new) = end
      /\ \A i \in 1 .. end : new[i] = IF i <= Len(w) THEN w[i] ELSE b[i - Len(w)]
  BY <1>1, ConcatProperties, Zenon
<1> HIDE DEF new
<1>3. end \in Nat /\ end > Len(w)
  BY <1>0, <1>1
<1>4. h.clen = Len(r.content) /\ h.plen = r.pad
  BY DEF h, HeaderOfRecord
<1>5. \A i \in 1 .. Len(new) : new[i][2] \in Nat
  <2> SUFFICES ASSUME NEW i \in 1 .. end PROVE new[i][2] \in Nat
    BY <1>2
  <2>1. CASE i <= Len(w)
    BY <1>0, <1>2, <2>1 DEF FramedBy
  <2>2. CASE i > Len(w)
    <3>1. i - Len(w) \in 1 .. Len(b)
      BY <1>0, <1>1, <2>2
    <3> QED BY <1>0, <1>1, <1>2, <2>2, <3>1
  <2> QED BY <1>0, <2>1, <2>2
<1>6. ASSUME NEW p \in (E \cup {end}) \ {end}
      PROVE  \E g : /\ g.clen \in Nat /\ g.plen \in Nat /\ p + HeaderLen + g.clen + g.plen \in E \cup {end}
                    /\ \A k \in 1 .. HeaderLen : new[p + k] = <<"header", k, g>>
  <2>1. CASE p = Len(w)
    <3>1. p + HeaderLen + h.clen + h.plen = end
      BY <1>0, <1>1, <1>4, <2>1
    <3>2. ASSUME NEW k \in 1 .. HeaderLen PROVE new[p + k] = <<"header", k, h>>
      <4>1. k \in Nat /\ k >= 1 /\ k <= Len(b)
        BY <1>0, <1>1
      <4> DEFINE i == p + k
      <4>2. i \in 1 .. end /\ ~(i <= Len(w)) /\ i - Len(w) = k
        BY <1>0, <1>1, <2>1, <4>1
      <4> HIDE DEF i
      <4>3. new[i] = IF i <= Len(w) THEN w[i] ELSE b[i - Len(w)]
        BY <1>2, <4>2, Zenon
      <4>4. new[i] = <<"header", k, h>>
        BY <1>1, <4>2, <4>3, Zenon
      <4> QED BY <4>4 DEF i
    <3> QED BY <1>0, <1>4, <3>1, <3>2
  <2>2. CASE p # Len(w)
    <3>1. p \in E \ {Len(w)}
      BY <2>2
    <3>2. PICK g : /\ g.clen \in Nat /\ g.plen \in Nat /\ p + HeaderLen + g.clen + g.plen \in E
                   /\ \A k \in 1 .. HeaderLen : w[p + k] = <<"header", k, g>>
      BY <3>1 DEF FramedBy
    <3>3. p \in Nat /\ p + HeaderLen <= Len(w)
      BY <1>0, <3>1, <3>2 DEF FramedBy
    <3>4. ASSUME NEW k \in 1 .. HeaderLen PROVE new[p + k] = <<"header", k, g>>
      <4>1. p + k \in 1 .. end /\ p + k <= Len(w)
        BY <1>0, <1>3, <3>3
      <4> QED BY <1>2, <3>2, <4>1
    <3> QED BY <3>2, <3>4
  <2> QED BY <2>1, <2>2
<1>7. E \cup {end} \subseteq 0 .. end /\ 0 \in E
  <2>1. E \subseteq 0 .. Len(w) /\ 0 \in E
    BY DEF FramedBy
  <2> HIDE DEF end
  <2> QED BY <1>0, <1>3, <2>1
<1>8. FramedBy(new, E \cup {end})
  BY <1>2, <1>5, <1>6, <1>7 DEF FramedBy
<1> QED BY <1>2, <1>8 DEF new, b

(* What FlattenSeq builds, one sequence more at each step.                 *)
Flattens(f, seqs, n) == f = [i \in 1 .. n |-> IF i = 1 THEN seqs[i] ELSE f[i - 1] \o seqs[i]]

LEMMA FlattenSeqBuilt ==
  ASSUME NEW seqs, Len(seqs) \in Nat, Len(seqs) # 0
  PROVE  \E f : Flattens(f, seqs, Len(seqs)) /\ FlattenSeq(seqs) = f[Len(seqs)]
<1> DEFINE T == {n \in Nat : \E f : Flattens(f, seqs, n)}
           g == CHOOSE f : Flattens(f, seqs, Len(seqs))
<1>1. 0 \in T
  <2>1. Flattens([i \in 1 .. 0 |-> seqs[i]], seqs, 0)
    BY DEF Flattens
  <2> QED BY <2>1
<1>2. ASSUME NEW n \in T PROVE n + 1 \in T
  <2>1. PICK f : Flattens(f, seqs, n)
    OBVIOUS
  <2> DEFINE last == IF n = 0 THEN seqs[1] ELSE f[n] \o seqs[n + 1]
             more == [i \in 1 .. n + 1 |-> IF i = n + 1 THEN last ELSE f[i]]
  <2>2. ASSUME NEW i \in 1 .. n + 1 PROVE more[i] = IF i = 1 THEN seqs[i] ELSE more[i - 1] \o seqs[i]
    <3>1. CASE i = n + 1
      BY <3>1
    <3>2. CASE i # n + 1
      <4>1. i \in 1 .. n /\ (i # 1 => i - 1 \in 1 .. n /\ i - 1 # n + 1 /\ i - 1 \in 1 .. n + 1)
        BY <3>2
      <4>2. f[i] = IF i = 1 THEN seqs[i] ELSE f[i - 1] \o seqs[i]
        BY <2>1, <4>1, Zenon DEF Flattens
      <4>3. more[i] = f[i] /\ (i # 1 => more[i - 1] = f[i - 1])
        BY <3>2, <4>1
      <4> QED BY <4>2, <4>3, Zenon
    <3> QED BY <3>1, <3>2
  <2>3. Flattens(more, seqs, n + 1)
    <3> DEFINE rule == [i \in 1 .. n + 1 |-> IF i = 1 THEN seqs[i] ELSE more[i - 1] \o seqs[i]]
    <3>1. \A i \in 1 .. n + 1 : rule[i] = more[i]
      BY <2>2, Zenon
    <3>2. more = [i \in 1 .. n + 1 |-> more[i]]
      OBVIOUS
    <3>3. more = rule
      <4>1. rule = [i \in 1 .. n + 1 |-> rule[i]]
        OBVIOUS
      <4> HIDE DEF rule, more
      <4> QED BY <3>1, <3>2, <4>1
    <3> QED BY <3>3, Zenon DEF Flattens
  <2>4. n + 1 \in Nat
    OBVIOUS
  <2> QED BY <2>3, <2>4
<1>3. T = Nat
  <2> HIDE DEF T
  <2>1. T \subseteq Nat
    BY DEF T
  <2> QED BY <1>1, <1>2, <2>1, Induction
<1>4. Flattens(g, seqs, Len(seqs))
  BY <1>3
<1>5. FlattenSeq(seqs) = g[Len(seqs)]
  BY Zenon DEF FlattenSeq, Flattens
<1> QED BY <1>4, <1>5

(* All that is sent is records from its first byte to its last.            *)
LEMMA WireIsFramed ==
  ASSUME NEW r \in Requests
  PROVE  LET w == FlattenSeq([i \in DOMAIN r.records |-> RecordBytes(r.records[i])])
         IN  Len(w) \in Nat /\ w \in Seq(ToSet(w)) /\ \E E : FramedBy(w, E)
<1> DEFINE recs == r.records
           seqs == [i \in DOMAIN recs |-> RecordBytes(recs[i])]
           w == FlattenSeq(seqs)
           S == UNION {BytesOf(x) : x \in ToSet(recs)}
           N == Len(recs)
<1>1. N \in Nat /\ DOMAIN recs = 1 .. N /\ \A i \in 1 .. N : recs[i] \in ToSet(recs) /\ IsRecord(recs[i])
  <2>1. recs \in Seq(ToSet(recs))
    BY RequestsAssumption
  <2>2. \A x \in ToSet(recs) : IsRecord(x)
    BY RequestsAssumption DEF IsRecord
  <2>3. N \in Nat /\ DOMAIN recs = 1 .. N
    BY <2>1
  <2>4. \A i \in 1 .. N : recs[i] \in ToSet(recs)
    BY <2>3 DEF ToSet
  <2> QED BY <2>2, <2>3, <2>4
<1> HIDE DEF recs
<1>2. Len(seqs) = N /\ \A i \in 1 .. N : seqs[i] = RecordBytes(recs[i])
  BY <1>1
<1>3. \A i \in 1 .. N : BytesOf(recs[i]) \subseteq S
  BY <1>1, Zenon
<1>4. \A b \in S : TRUE
  OBVIOUS
<1>5. CASE N = 0
  <2>1. seqs = <<>>
    BY <1>1, <1>5
  <2>2. w = <<>>
    BY <1>2, <1>5, <2>1 DEF FlattenSeq
  <2>3. FramedBy(<<>>, {0})
    BY DEF FramedBy
  <2>4. Len(w) \in Nat /\ w \in Seq(ToSet(w))
    BY <2>2
  <2> QED BY <2>2, <2>3, <2>4 DEF recs
<1>6. CASE N # 0
  <2> HIDE DEF seqs, S
  <2>1. PICK f : Flattens(f, seqs, N) /\ w = f[N]
    BY <1>1, <1>2, <1>6, FlattenSeqBuilt
  <2> DEFINE Good(x) == x \in Seq(S) /\ \E E : FramedBy(x, E)
             T == {n \in Nat : n + 1 <= N => Good(f[n + 1])}
  <2>2. \A i \in 1 .. N : f[i] = IF i = 1 THEN seqs[i] ELSE f[i - 1] \o seqs[i]
    BY <2>1, Zenon DEF Flattens
  <2>3. 0 \in T
    <3>1. 1 \in 1 .. N
      BY <1>1, <1>6
    <3>2. f[1] = RecordBytes(recs[1])
      BY <1>2, <2>2, <3>1, Zenon
    <3>3. <<>> \in Seq(S) /\ FramedBy(<<>>, {0})
      BY DEF FramedBy
    <3> DEFINE rec == recs[1]
    <3>4a. IsRecord(rec) /\ BytesOf(rec) \subseteq S
      BY <1>1, <1>3, <3>1
    <3> HIDE DEF rec
    <3>4b. /\ <<>> \o RecordBytes(rec) \in Seq(S)
           /\ FramedBy(<<>> \o RecordBytes(rec), {0} \cup {Len(<<>>) + Len(RecordBytes(rec))})
      BY <3>3, <3>4a, OneMoreRecord
    <3>4. <<>> \o RecordBytes(recs[1]) \in Seq(S) /\ \E E : FramedBy(<<>> \o RecordBytes(recs[1]), E)
      BY <3>4b, Zenon DEF rec
    <3>5. RecordBytes(recs[1]) \in Seq(BytesOf(recs[1]))
      BY <1>1, <3>1, RecordLaidOut
    <3>6. <<>> \o RecordBytes(recs[1]) = RecordBytes(recs[1])
      BY <3>5, ConcatEmptySeq
    <3>7. Good(f[1])
      BY <3>2, <3>4, <3>6
    <3> QED BY <3>7
  <2>4. ASSUME NEW n \in T PROVE n + 1 \in T
    <3> SUFFICES ASSUME n + 2 <= N PROVE Good(f[n + 2])
      BY <1>1
    <3>1. n \in Nat /\ n + 2 \in 1 .. N /\ n + 2 # 1 /\ n + 2 - 1 = n + 1 /\ n + 1 <= N
      BY <1>1
    <3>2. Good(f[n + 1])
      BY <3>1
    <3>3. f[n + 2] = f[n + 1] \o RecordBytes(recs[n + 2])
      <4> DEFINE j == n + 2
                 k == n + 1
      <4>1. j \in 1 .. N /\ j # 1 /\ j - 1 = k
        BY <3>1
      <4> HIDE DEF j, k
      <4>2. f[j] = f[j - 1] \o seqs[j] /\ seqs[j] = RecordBytes(recs[j])
        BY <1>2, <2>2, <4>1, Zenon
      <4>3. f[j] = f[k] \o RecordBytes(recs[j])
        BY <4>1, <4>2, Zenon
      <4> QED BY <4>3 DEF j, k
    <3>4. PICK E : FramedBy(f[n + 1], E)
      BY <3>2
    <3> DEFINE v == f[n + 1]
    <3>5. v \in Seq(S) /\ FramedBy(v, E) /\ IsRecord(recs[n + 2]) /\ BytesOf(recs[n + 2]) \subseteq S
      BY <1>1, <1>3, <3>1, <3>2, <3>4
    <3> DEFINE rec == recs[n + 2]
    <3> HIDE DEF v, rec
    <3>6a. v \o RecordBytes(rec) \in Seq(S) /\ FramedBy(v \o RecordBytes(rec), E \cup {Len(v) + Len(RecordBytes(rec))})
      BY <3>5, OneMoreRecord DEF rec
    <3>6. v \o RecordBytes(recs[n + 2]) \in Seq(S) /\ \E F : FramedBy(v \o RecordBytes(recs[n + 2]), F)
      BY <3>6a, Zenon DEF rec
    <3> QED BY <3>3, <3>6 DEF v
  <2>5. T = Nat
    <3> HIDE DEF T
    <3>1. T \subseteq Nat
      BY DEF T
    <3> QED BY <2>3, <2>4, <3>1, Induction
  <2>6. N - 1 \in T
    <3>1. N - 1 \in Nat
      BY <1>1, <1>6
    <3> HIDE DEF T
    <3> QED BY <2>5, <3>1
  <2>7. Good(w)
    BY <1>1, <2>1, <2>6
  <2>8. Len(w) \in Nat /\ w \in Seq(ToSet(w))
    BY <2>7, SeqOfRange DEF ToSet
  <2> QED BY <2>7, <2>8 DEF recs, seqs
<1> QED BY <1>5, <1>6

-----------------------------------------------------------------------------
(* The call stack: which calls may be under way, and which is under which. *)

Inner  == {"process", "beginBody", "values"}
Bottom == {"readRequest", "handler"}
Parts  == {"nameLen", "nameMore", "valueLen", "valueMore", "name", "value"}

Parameters(B) == [op : {"readParams", "partRead"}, step : Parts, name : Seq(B), nameLen : Nat,
                  valueLen : Nat, pairs : Seq(Seq(B) \X Seq(B))]

FrameOK(c, B) ==
  /\ c.op \in {"fill", "process", "beginBody", "values", "getStr", "readParams", "partRead",
               "readRequest", "handler"}
  /\ c.op = "getStr" => c \in [op : {"getStr"}, n : Nat, got : Seq(B)] /\ Len(c.got) <= c.n
  /\ c.op \in {"readParams", "partRead"} => c \in Parameters(B)

Under(c, d) ==
  /\ c.op = "fill" => \/ d.op = "getStr" /\ Len(d.got) < d.n
                      \/ d.op = "readRequest" /\ d.step = "begin"
  /\ c.op \in Inner => d.op = "fill" /\ d.header = <<>>
  /\ c.op = "getStr" => \/ d.op = "beginBody" /\ c.n = HeaderLen
                        \/ d.op = "partRead" /\ c.n = Wanted(d)
                        \/ d.op = "handler"
  /\ c.op \in {"readParams", "partRead"} =>
       d.op = "values" \/ (d.op = "readRequest" /\ d.step = "params")

Stack(s, B) ==
  /\ \E F : s \in Seq(F)
  /\ \A i \in 1 .. Len(s) : FrameOK(s[i], B)
  /\ \A i \in 1 .. Len(s) : IF s[i].op \in Bottom THEN i = Len(s)
                                                  ELSE i < Len(s) /\ Under(s[i], s[i + 1])
  /\ \A i, j \in 1 .. Len(s) : s[i].op \in Inner /\ s[j].op \in Inner => i = j

(* A header is being processed; ReadRequest waits for the BEGIN record.    *)
Inside(s)  == \E i \in 1 .. Len(s) : s[i].op \in Inner
Waiting(s) == \E i \in 2 .. Len(s) : s[i].op = "readRequest" /\ s[i].step = "begin"

LEMMA EmptyStack ==
  ASSUME NEW B
  PROVE  Stack(<<>>, B) /\ ~Inside(<<>>) /\ ~Waiting(<<>>)
BY DEF Stack, Inside, Waiting

LEMMA StackTail ==
  ASSUME NEW s, NEW B, Stack(s, B), s # <<>>
  PROVE  /\ Head(s) = s[1] /\ Len(Tail(s)) = Len(s) - 1 /\ Len(s) \in Nat \ {0}
         /\ \A i \in 1 .. Len(s) - 1 : Tail(s)[i] = s[i + 1]
         /\ Stack(Tail(s), B)
         /\ Inside(Tail(s)) => Inside(s) /\ s[1].op \notin Inner
         /\ Waiting(Tail(s)) => Waiting(s)
         /\ FrameOK(s[1], B)
         /\ IF s[1].op \in Bottom THEN Len(s) = 1 ELSE Len(s) > 1 /\ Under(s[1], s[2])
<1> DEFINE t == Tail(s)
<1>1. PICK F : s \in Seq(F)
  BY DEF Stack
<1>2. /\ Len(s) \in Nat \ {0} /\ Head(s) = s[1]
      /\ t \in Seq(F) /\ Len(t) = Len(s) - 1 /\ \A i \in 1 .. Len(s) - 1 : t[i] = s[i + 1]
  BY <1>1
<1> HIDE DEF t
<1>3. \A i \in 1 .. Len(t) : i + 1 \in 1 .. Len(s) /\ t[i] = s[i + 1]
  BY <1>2
<1>4. 1 \in 1 .. Len(s)
  BY <1>2
<1>5. \A i \in 1 .. Len(t) : FrameOK(t[i], B)
  BY <1>3 DEF Stack
<1>6. ASSUME NEW i \in 1 .. Len(t)
      PROVE  IF t[i].op \in Bottom THEN i = Len(t) ELSE i < Len(t) /\ Under(t[i], t[i + 1])
  <2>1. IF s[i + 1].op \in Bottom THEN i + 1 = Len(s) ELSE i + 1 < Len(s) /\ Under(s[i + 1], s[i + 1 + 1])
    BY <1>3 DEF Stack
  <2>2. CASE s[i + 1].op \in Bottom
    BY <1>2, <1>3, <2>1, <2>2
  <2>3. CASE s[i + 1].op \notin Bottom
    <3>1. i < Len(t) /\ i + 1 \in 1 .. Len(t)
      BY <1>2, <1>3, <2>1, <2>3
    <3>2. t[i] = s[i + 1] /\ t[i + 1] = s[i + 1 + 1]
      BY <1>3, <3>1
    <3> QED BY <2>1, <2>3, <3>1, <3>2
  <2> QED BY <2>2, <2>3
<1>7. \A i, j \in 1 .. Len(t) : t[i].op \in Inner /\ t[j].op \in Inner => i = j
  <2> SUFFICES ASSUME NEW i \in 1 .. Len(t), NEW j \in 1 .. Len(t), t[i].op \in Inner, t[j].op \in Inner
               PROVE  i = j
    OBVIOUS
  <2>1. i + 1 = j + 1
    BY <1>3 DEF Stack
  <2> QED BY <1>2, <2>1
<1>8. Stack(t, B)
  BY <1>2, <1>5, <1>6, <1>7 DEF Stack
<1>9. ASSUME Inside(t) PROVE Inside(s) /\ s[1].op \notin Inner
  <2>1. PICK i \in 1 .. Len(t) : t[i].op \in Inner
    BY <1>9 DEF Inside
  <2>2. i + 1 \in 1 .. Len(s) /\ s[i + 1].op \in Inner /\ i + 1 # 1
    BY <1>2, <1>3, <2>1
  <2>3. s[1].op \in Inner => i + 1 = 1
    BY <1>4, <2>2 DEF Stack
  <2> QED BY <2>2, <2>3 DEF Inside
<1>10. ASSUME Waiting(t) PROVE Waiting(s)
  <2>1. PICK i \in 2 .. Len(t) : t[i].op = "readRequest" /\ t[i].step = "begin"
    BY <1>10 DEF Waiting
  <2>2. i + 1 \in 2 .. Len(s) /\ s[i + 1] = t[i]
    BY <1>2, <1>3
  <2> QED BY <2>1, <2>2 DEF Waiting
<1>11. FrameOK(s[1], B)
  BY <1>4 DEF Stack
<1>12. IF s[1].op \in Bottom THEN Len(s) = 1 ELSE Len(s) > 1 /\ Under(s[1], s[2])
  BY <1>2, <1>4 DEF Stack
<1> QED BY <1>2, <1>8, <1>9, <1>10, <1>11, <1>12 DEF t

(* The stack s is t with the call c on top.                                *)
IsPut(s, B, c, t) ==
  /\ Stack(s, B) /\ s # <<>> /\ Len(s) = Len(t) + 1 /\ Len(t) \in Nat
  /\ s[1] = c /\ Head(s) = c /\ \A i \in 1 .. Len(t) : s[i + 1] = t[i]
  /\ Inside(s) <=> c.op \in Inner \/ Inside(t)
  /\ Waiting(s) => Waiting(t) \/ (t # <<>> /\ t[1].op = "readRequest" /\ t[1].step = "begin")

LEMMA StackPut ==
  ASSUME NEW t, NEW B, NEW c, Stack(t, B), FrameOK(c, B),
         IF c.op \in Bottom THEN t = <<>> ELSE t # <<>> /\ Under(c, t[1]),
         c.op \in Inner => ~Inside(t)
  PROVE  IsPut(<<c>> \o t, B, c, t)
<1> DEFINE s == <<c>> \o t
<1>1. PICK F : t \in Seq(F)
  BY DEF Stack
<1>2. /\ s \in Seq(F \cup {c}) /\ Len(s) = Len(t) + 1 /\ Len(t) \in Nat /\ s # <<>>
      /\ s[1] = c /\ \A i \in 1 .. Len(t) : s[i + 1] = t[i]
  <2>1. <<c>> \in Seq(F \cup {c}) /\ t \in Seq(F \cup {c}) /\ Len(<<c>>) = 1 /\ <<c>>[1] = c /\ Len(t) \in Nat
    BY <1>1
  <2>2. /\ s \in Seq(F \cup {c}) /\ Len(s) = Len(<<c>>) + Len(t)
        /\ \A i \in 1 .. Len(<<c>>) + Len(t) :
             s[i] = IF i <= Len(<<c>>) THEN <<c>>[i] ELSE t[i - Len(<<c>>)]
    BY <2>1, ConcatProperties, Zenon
  <2> HIDE DEF s
  <2>3. Len(s) = Len(t) + 1 /\ s[1] = c /\ s # <<>>
    BY <2>1, <2>2
  <2>4. ASSUME NEW i \in 1 .. Len(t) PROVE s[i + 1] = t[i]
    <3>1. i + 1 \in 1 .. 1 + Len(t) /\ ~(i + 1 <= 1) /\ i + 1 - 1 = i
      BY <2>1
    <3> DEFINE j == i + 1
    <3>2. j \in 1 .. Len(<<c>>) + Len(t) /\ ~(j <= Len(<<c>>)) /\ j - Len(<<c>>) = i
      BY <2>1, <3>1
    <3> HIDE DEF j
    <3>3. s[j] = t[i]
      BY <2>2, <3>2, Zenon
    <3> QED BY <3>3 DEF j
  <2> QED BY <2>1, <2>2, <2>3, <2>4
<1> HIDE DEF s
<1>3. \A i \in 2 .. Len(s) : i - 1 \in 1 .. Len(t) /\ s[i] = t[i - 1]
  <2> SUFFICES ASSUME NEW i \in 2 .. Len(s) PROVE i - 1 \in 1 .. Len(t) /\ s[i] = t[i - 1]
    OBVIOUS
  <2>1. i - 1 \in 1 .. Len(t) /\ i - 1 + 1 = i
    BY <1>2
  <2> QED BY <1>2, <2>1
<1>4. \A i \in 1 .. Len(s) : i = 1 \/ i \in 2 .. Len(s)
  BY <1>2
<1>5. \A i \in 1 .. Len(s) : FrameOK(s[i], B)
  <2>1. \A i \in 1 .. Len(t) : FrameOK(t[i], B)
    BY DEF Stack
  <2> QED BY <1>2, <1>3, <1>4, <2>1
<1>6. ASSUME NEW i \in 1 .. Len(s)
      PROVE  IF s[i].op \in Bottom THEN i = Len(s) ELSE i < Len(s) /\ Under(s[i], s[i + 1])
  <2>1. CASE i = 1
    <3>1. t # <<>> => Len(t) > 0 /\ s[2] = t[1]
      <4>1. t # <<>> => Len(t) > 0
        BY <1>1
      <4>2. Len(t) > 0 => 1 \in 1 .. Len(t)
        BY <1>2
      <4> QED BY <1>2, <4>1, <4>2
    <3>2. t = <<>> => Len(t) = 0
      OBVIOUS
    <3> QED BY <1>2, <2>1, <3>1, <3>2
  <2>2. CASE i \in 2 .. Len(s)
    <3> DEFINE j == i - 1
    <3>1. j \in 1 .. Len(t) /\ s[i] = t[j]
      BY <1>3, <2>2
    <3>2. IF t[j].op \in Bottom THEN j = Len(t) ELSE j < Len(t) /\ Under(t[j], t[j + 1])
      BY <3>1 DEF Stack
    <3>3. j < Len(t) => s[i + 1] = t[j + 1]
      <4> SUFFICES ASSUME j < Len(t) PROVE s[i + 1] = t[j + 1]
        OBVIOUS
      <4>1. i + 1 \in 2 .. Len(s) /\ i + 1 - 1 = j + 1
        BY <1>2, <3>1
      <4> QED BY <1>3, <4>1
    <3> QED BY <1>2, <3>1, <3>2, <3>3
  <2> QED BY <1>4, <2>1, <2>2
<1>7. \A i, j \in 1 .. Len(s) : s[i].op \in Inner /\ s[j].op \in Inner => i = j
  <2> SUFFICES ASSUME NEW i \in 1 .. Len(s), NEW j \in 1 .. Len(s), s[i].op \in Inner, s[j].op \in Inner
               PROVE  i = j
    OBVIOUS
  <2>1. ASSUME NEW k \in 2 .. Len(s), s[k].op \in Inner PROVE Inside(t)
    BY <1>3, <2>1 DEF Inside
  <2>2. CASE i = 1
    BY <1>2, <1>4, <2>1, <2>2
  <2>3. CASE j = 1
    BY <1>2, <1>4, <2>1, <2>3
  <2>4. CASE i \in 2 .. Len(s) /\ j \in 2 .. Len(s)
    <3>1. i - 1 = j - 1
      BY <1>3, <2>4 DEF Stack
    <3> QED BY <1>2, <3>1
  <2> QED BY <1>4, <2>2, <2>3, <2>4
<1>8. Stack(s, B)
  BY <1>2, <1>5, <1>6, <1>7 DEF Stack
<1>9. Inside(s) <=> c.op \in Inner \/ Inside(t)
  <2>1. ASSUME Inside(s) PROVE c.op \in Inner \/ Inside(t)
    <3>1. PICK i \in 1 .. Len(s) : s[i].op \in Inner
      BY <2>1 DEF Inside
    <3> QED BY <1>2, <1>3, <1>4, <3>1 DEF Inside
  <2>2. c.op \in Inner => Inside(s)
    <3>1. 1 \in 1 .. Len(s)
      BY <1>2
    <3> QED BY <1>2, <3>1 DEF Inside
  <2>3. ASSUME Inside(t) PROVE Inside(s)
    <3>1. PICK i \in 1 .. Len(t) : t[i].op \in Inner
      BY <2>3 DEF Inside
    <3>2. i + 1 \in 1 .. Len(s) /\ s[i + 1].op \in Inner
      BY <1>2, <3>1
    <3> QED BY <3>2 DEF Inside
  <2> QED BY <2>1, <2>2, <2>3
<1>10. ASSUME Waiting(s)
       PROVE  Waiting(t) \/ (t # <<>> /\ t[1].op = "readRequest" /\ t[1].step = "begin")
  <2>1. PICK i \in 2 .. Len(s) : s[i].op = "readRequest" /\ s[i].step = "begin"
    BY <1>10 DEF Waiting
  <2>2. i - 1 \in 1 .. Len(t) /\ t[i - 1] = s[i]
    BY <1>3
  <2>3. CASE i - 1 = 1
    <3>1. t # <<>>
      BY <2>2, <2>3
    <3> QED BY <2>1, <2>2, <2>3, <3>1
  <2>4. CASE i - 1 # 1
    <3>1. i - 1 \in 2 .. Len(t)
      BY <2>2, <2>4
    <3> QED BY <2>1, <2>2, <3>1 DEF Waiting
  <2> QED BY <2>3, <2>4
<1>11. Head(s) = c
  BY <1>2
<1>12. IsPut(s, B, c, t)
  BY <1>2, <1>8, <1>9, <1>10, <1>11 DEF IsPut
<1> QED BY <1>12 DEF s

LEMMA PairOfCalls ==
  ASSUME NEW c, NEW d
  PROVE  <<c>> \o <<d>> = <<c, d>>
<1> DEFINE G == {c, d}
           v == <<c>> \o <<d>>
<1>1. c \in G /\ d \in G
  OBVIOUS
<1> HIDE DEF G
<1>2. <<c>> \in Seq(G) /\ <<d>> \in Seq(G) /\ <<c, d>> \in Seq(G)
  BY <1>1
<1>3. v \in Seq(G) /\ Len(v) = 2 /\ v[1] = c /\ v[2] = d
  BY <1>2
<1> HIDE DEF v
<1>4. v = <<c, d>>
  BY <1>2, <1>3
<1> QED BY <1>4 DEF v

(* Two calls at once.                                                       *)
IsPutTwo(s, B, c, d, t) ==
  /\ Stack(s, B) /\ s # <<>> /\ Len(s) = Len(t) + 2 /\ Len(t) \in Nat
  /\ s[1] = c /\ s[2] = d /\ Head(s) = c /\ \A i \in 1 .. Len(t) : s[i + 2] = t[i]
  /\ Inside(s) <=> c.op \in Inner \/ d.op \in Inner \/ Inside(t)
  /\ Waiting(s) => \/ Waiting(t)
                   \/ t # <<>> /\ t[1].op = "readRequest" /\ t[1].step = "begin"
                   \/ d.op = "readRequest" /\ d.step = "begin"

LEMMA StackPutTwo ==
  ASSUME NEW t, NEW B, NEW c, NEW d, Stack(t, B), FrameOK(c, B), FrameOK(d, B),
         IF d.op \in Bottom THEN t = <<>> ELSE t # <<>> /\ Under(d, t[1]),
         d.op \in Inner => ~Inside(t),
         c.op \notin Bottom, Under(c, d),
         c.op \in Inner => ~Inside(t) /\ d.op \notin Inner
  PROVE  IsPutTwo(<<c, d>> \o t, B, c, d, t)
<1> DEFINE u == <<d>> \o t
           s == <<c, d>> \o t
<1>1. IsPut(u, B, d, t)
  BY StackPut
<1>2. s = <<c>> \o u
  <2>1. PICK F : t \in Seq(F)
    BY DEF Stack
  <2> DEFINE G == F \cup {c, d}
  <2>2. t \in Seq(G) /\ c \in G /\ d \in G
    BY <2>1
  <2> HIDE DEF G
  <2>3. <<c>> \in Seq(G) /\ <<d>> \in Seq(G)
    BY <2>2
  <2>4. <<c>> \o <<d>> = <<c, d>>
    BY PairOfCalls
  <2>5. (<<c>> \o <<d>>) \o t = <<c>> \o (<<d>> \o t)
    <3>1. \A a, b \in Seq(G) : (a \o b) \o t = a \o (b \o t)
      BY <2>2, ConcatAssociative
    <3> QED BY <2>3, <3>1, Zenon
  <2> QED BY <2>4, <2>5
<1> HIDE DEF u
<1>3. IF c.op \in Bottom THEN u = <<>> ELSE u # <<>> /\ Under(c, u[1])
  BY <1>1 DEF IsPut
<1>4. c.op \in Inner => ~Inside(u)
  BY <1>1 DEF IsPut
<1>5. IsPut(s, B, c, u)
  <2>1. Stack(u, B)
    BY <1>1 DEF IsPut
  <2>2. IsPut(<<c>> \o u, B, c, u)
    BY <1>3, <1>4, <2>1, StackPut
  <2> QED BY <1>2, <2>2
<1> HIDE DEF s
<1>6. s[2] = d /\ \A i \in 1 .. Len(t) : s[i + 2] = t[i]
  <2>1. 1 \in 1 .. Len(u) /\ 1 + 1 = 2
    BY <1>1 DEF IsPut
  <2>2. ASSUME NEW i \in 1 .. Len(t) PROVE s[i + 2] = t[i]
    <3>1. i + 1 \in 1 .. Len(u) /\ i + 1 + 1 = i + 2
      BY <1>1 DEF IsPut
    <3> QED BY <1>1, <1>5, <3>1 DEF IsPut
  <2> QED BY <1>1, <1>5, <2>1, <2>2 DEF IsPut
<1>7. IsPutTwo(s, B, c, d, t)
  BY <1>1, <1>5, <1>6 DEF IsPut, IsPutTwo
<1> QED BY <1>7 DEF s

(* A call on top of the one that waits for it returns.                     *)
LEMMA FillReturns ==
  ASSUME NEW s, NEW B, Stack(s, B), s # <<>>, Head(s).op = "fill"
  PROVE  /\ Stack(Tail(s), B) /\ Tail(s) # <<>> /\ Head(Tail(s)) = s[2] /\ Tail(s)[1] = s[2] /\ Under(s[1], s[2])
         /\ s[2].op \in {"getStr", "readRequest"} /\ FrameOK(s[2], B)
         /\ s[2].op = "readRequest" => s[2].step = "begin" /\ Waiting(s)
         /\ s[2].op = "getStr" => Tail(s)[2] = s[3] /\ 3 \in 1 .. Len(s)
         /\ Inside(Tail(s)) => Inside(s)
         /\ Waiting(Tail(s)) => Waiting(s)
<1> DEFINE t == Tail(s)
<1>1. /\ Head(s) = s[1] /\ Len(t) = Len(s) - 1 /\ Len(s) \in Nat \ {0}
      /\ \A i \in 1 .. Len(s) - 1 : t[i] = s[i + 1]
      /\ Stack(t, B) /\ (Inside(t) => Inside(s)) /\ (Waiting(t) => Waiting(s))
      /\ IF s[1].op \in Bottom THEN Len(s) = 1 ELSE Len(s) > 1 /\ Under(s[1], s[2])
  BY StackTail
<1> HIDE DEF t
<1>2. Len(s) > 1 /\ Under(s[1], s[2])
  BY <1>1 DEF Bottom
<1>3. t # <<>> /\ t[1] = s[2]
  <2>1. 1 \in 1 .. Len(s) - 1 /\ 1 + 1 = 2
    BY <1>1, <1>2
  <2> QED BY <1>1, <1>2, <2>1
<1>4. /\ Head(t) = t[1] /\ FrameOK(t[1], B)
      /\ IF t[1].op \in Bottom THEN Len(t) = 1 ELSE Len(t) > 1 /\ Under(t[1], t[2])
  BY <1>1, <1>3, StackTail
<1>5. /\ s[2].op \in {"getStr", "readRequest"}
      /\ s[2].op = "readRequest" => s[2].step = "begin"
  BY <1>1, <1>2 DEF Under
<1>6. s[2].op = "readRequest" => Waiting(s)
  <2>1. 2 \in 2 .. Len(s)
    BY <1>1, <1>2
  <2> QED BY <1>5, <2>1 DEF Waiting
<1>7. s[2].op = "getStr" => t[2] = s[3] /\ 3 \in 1 .. Len(s)
  <2> SUFFICES ASSUME s[2].op = "getStr" PROVE t[2] = s[3] /\ 3 \in 1 .. Len(s)
    OBVIOUS
  <2>1. Len(t) > 1
    BY <1>3, <1>4 DEF Bottom
  <2>2. 2 \in 1 .. Len(s) - 1 /\ 2 + 1 = 3
    BY <1>1, <2>1
  <2> QED BY <1>1, <2>2
<1> QED BY <1>1, <1>2, <1>3, <1>4, <1>5, <1>6, <1>7 DEF t

LEMMA InnerReturns ==
  ASSUME NEW s, NEW B, Stack(s, B), s # <<>>, Head(s).op \in Inner
  PROVE  /\ Stack(Tail(s), B) /\ ~Inside(Tail(s)) /\ Tail(s) # <<>>
         /\ Head(Tail(s)) = s[2] /\ Tail(s)[1] = s[2] /\ s[2].op = "fill" /\ s[2].header = <<>>
         /\ Waiting(Tail(s)) => Waiting(s)
         /\ Tail(s)[2].op = "getStr" => Tail(s)[3].op # "beginBody"
         /\ Stack(Tail(Tail(s)), B) /\ ~Inside(Tail(Tail(s))) /\ ~Waiting(Tail(Tail(s)))
         /\ Tail(Tail(s)) # <<>> /\ Head(Tail(Tail(s))).op \in {"getStr", "readRequest"}
         /\ Head(Tail(Tail(s))).op = "readRequest" => Head(Tail(Tail(s))).step = "begin" /\ Waiting(s)
         /\ Head(Tail(Tail(s))).op = "getStr" => Tail(Tail(s))[2].op # "beginBody"
<1> DEFINE t == Tail(s)
           u == Tail(t)
<1>1. /\ Head(s) = s[1] /\ Len(t) = Len(s) - 1 /\ Len(s) \in Nat \ {0}
      /\ \A i \in 1 .. Len(s) - 1 : t[i] = s[i + 1]
      /\ Stack(t, B) /\ (Inside(t) => s[1].op \notin Inner) /\ (Waiting(t) => Waiting(s))
      /\ IF s[1].op \in Bottom THEN Len(s) = 1 ELSE Len(s) > 1 /\ Under(s[1], s[2])
  BY StackTail
<1> HIDE DEF t
<1>2. Len(s) > 1 /\ Under(s[1], s[2]) /\ ~Inside(t)
  BY <1>1 DEF Bottom, Inner
<1>3. t # <<>> /\ t[1] = s[2]
  <2>1. 1 \in 1 .. Len(s) - 1 /\ 1 + 1 = 2
    BY <1>1, <1>2
  <2> QED BY <1>1, <1>2, <2>1
<1>4. s[2].op = "fill" /\ s[2].header = <<>>
  BY <1>1, <1>2 DEF Under
<1>5. /\ Head(t) = t[1] /\ Len(t) \in Nat \ {0}
      /\ Stack(u, B) /\ u # <<>> /\ Head(u) = t[2]
      /\ t[2].op \in {"getStr", "readRequest"}
      /\ t[2].op = "readRequest" => t[2].step = "begin" /\ Waiting(t)
      /\ t[2].op = "getStr" => u[2] = t[3] /\ 3 \in 1 .. Len(t)
      /\ Inside(u) => Inside(t)
  <2>1. Head(t) = t[1] /\ Len(t) \in Nat \ {0}
    BY <1>1, <1>3, StackTail
  <2>2. Head(t).op = "fill"
    BY <1>3, <1>4, <2>1
  <2> QED BY <1>1, <1>3, <2>1, <2>2, FillReturns
<1>6. t[2].op = "getStr" => t[3].op # "beginBody"
  BY <1>2, <1>5 DEF Inside, Inner
<1> HIDE DEF u
<1>7. ~Waiting(u)
  <2> SUFFICES ASSUME Waiting(u) PROVE FALSE
    OBVIOUS
  <2>1. PICK i \in 2 .. Len(u) : u[i].op = "readRequest" /\ u[i].step = "begin"
    BY DEF Waiting
  <2> DEFINE j == i - 1
             k == i - 2
  <2>2. Len(u) \in Nat /\ Head(u) = u[1]
    BY <1>5, StackTail
  <2>3. /\ \A x \in 1 .. Len(u) : IF u[x].op \in Bottom THEN x = Len(u) ELSE x < Len(u) /\ Under(u[x], u[x + 1])
        /\ \A x \in 1 .. Len(u) : FrameOK(u[x], B) /\ u[x].op \notin Inner
    BY <1>2, <1>5 DEF Stack, Inside
  <2>4. j \in 1 .. Len(u) /\ j + 1 = i /\ j # Len(u)
    BY <2>2
  <2>5. Under(u[j], u[i]) /\ u[j].op \notin Bottom /\ FrameOK(u[j], B) /\ u[j].op \notin Inner
    <3> HIDE DEF j
    <3> QED BY <2>3, <2>4
  <2>6. u[j].op = "fill"
    <3>1. u[j].op \notin {"getStr", "readParams", "partRead"}
      BY <2>1, <2>5 DEF Under
    <3> QED BY <2>5, <3>1 DEF FrameOK, Bottom, Inner
  <2>7. j # 1
    <3>1. u[1].op # "fill"
      BY <1>5, <2>2
    <3> QED BY <2>6, <3>1
  <2>8. k \in 1 .. Len(u) /\ k + 1 = j /\ k # Len(u)
    BY <2>2, <2>7
  <2> HIDE DEF j, k
  <2>9. Under(u[k], u[j]) /\ u[k].op \notin Bottom /\ FrameOK(u[k], B) /\ u[k].op \notin Inner
    BY <2>3, <2>8
  <2>10. u[k].op \notin {"fill", "getStr", "readParams", "partRead"}
    BY <2>6, <2>9 DEF Under
  <2> QED BY <2>9, <2>10 DEF FrameOK, Bottom, Inner
<1> QED BY <1>1, <1>2, <1>3, <1>4, <1>5, <1>6, <1>7 DEF t, u

-----------------------------------------------------------------------------
(* The invariant.                                                           *)

Sound     == ~FCGI_errno /\ ~mixedUp
Bytes     == ToSet(wire)
Ends      == CHOOSE E : FramedBy(wire, E)
Framed    == wire \in Seq(Bytes) /\ FramedBy(wire, Ends)
Remaining == contentLen + paddingLen

Ranges ==
  /\ contentLen \in Nat /\ paddingLen \in Nat /\ rdNext \in Nat /\ stop \in Nat
  /\ buffStop \in 0 .. Len(wire)
  /\ skip \in BOOLEAN /\ eorStop \in BOOLEAN /\ isClosed \in BOOLEAN /\ isBeginProcessed \in BOOLEAN
  /\ ret.bytes \in Seq(Bytes)

(* FillBuffProc is about to look for a header or its rest: the end of the  *)
(* present record, less what was taken of a header, is where one starts.   *)
FillAt(h) ==
  /\ ~isClosed /\ rdNext <= buffStop
  /\ Len(h) \in Nat /\ Len(h) < HeaderLen /\ Len(h) <= rdNext
  /\ h = SubSeq(wire, rdNext - Len(h) + 1, rdNext)
  /\ h # <<>> => Remaining = 0 /\ ~eorStop
  /\ rdNext - Len(h) + Remaining \in Ends

(* ProcessHeader has a header that was read where one was put.             *)
ProcessAt(c) ==
  /\ ~isClosed /\ rdNext = stop /\ stop <= buffStop /\ c.framed
  /\ c.h.type = "badVersion" \/ stop + Remaining \in Ends

(* Any other call: what may still be taken from the buffer ends inside the *)
(* record.                                                                 *)
OtherwiseAt ==
  /\ rdNext <= stop /\ stop <= buffStop /\ stop + Remaining \in Ends
  /\ isClosed => rdNext = stop /\ contentLen = 0

Placed ==
  /\ Top("fill") => FillAt(Head(todo).header)
  /\ Top("process") => ProcessAt(Head(todo))
  /\ ~Top("fill") /\ ~Top("process") => OtherwiseAt

Nested ==
  /\ Inside(todo) => eorStop
  /\ Waiting(todo) => ~isBeginProcessed
  /\ skip => contentLen > 0 /\ ~eorStop

(* A short answer means the stream is closed.                              *)
Told ==
  /\ Top("partRead") /\ Len(ret.bytes) # Wanted(Head(todo)) => isClosed
  /\ Top("values") => isClosed
  /\ Top("readRequest") /\ Head(todo).step = "params" /\ ret.ok => isClosed
  /\ Top("readRequest") /\ Head(todo).step = "begin" /\ isBeginProcessed => rdNext = stop /\ contentLen = 0

(* The body of a BEGIN record is all of its content.                       *)
Counted ==
  /\ Top("beginBody") /\ Len(ret.bytes) = HeaderLen => rdNext = stop /\ contentLen = 0
  /\ Top("getStr") /\ todo[2].op = "beginBody" =>
       isClosed \/ Len(Head(todo).got) + (stop - rdNext) + contentLen = HeaderLen
  /\ Top("fill") /\ todo[2].op = "getStr" /\ todo[3].op = "beginBody" =>
       Len(todo[2].got) + contentLen = HeaderLen

InStep == Stack(todo, Bytes) /\ Ranges /\ Placed /\ Nested /\ Told /\ Counted

IInv == Framed /\ (Sound => InStep)

LEMMA HeaderPlaced ==
  ASSUME Framed, Ranges, NEW h, FillAt(h), RecordEnds
  PROVE  LET p    == rdNext - Len(h) + Remaining
             from == rdNext + Content + Padding
         IN  /\ p \in Nat /\ p <= from /\ from <= buffStop /\ from = p + Len(h)
             /\ h \o SubSeq(wire, from + 1, Least(from + HeaderLen - Len(h), buffStop))
                  = SubSeq(wire, p + 1, Least(p + HeaderLen, buffStop))
             /\ Len(SubSeq(wire, p + 1, Least(p + HeaderLen, buffStop)))
                  = Least(p + HeaderLen, buffStop) - p
             /\ SubSeq(wire, p + 1, Least(p + HeaderLen, buffStop)) \in Seq(Bytes)
             /\ \A k \in 1 .. Least(p + HeaderLen, buffStop) - p :
                  SubSeq(wire, p + 1, Least(p + HeaderLen, buffStop))[k] = wire[p + k]
<1> DEFINE p    == rdNext - Len(h) + Remaining
           from == rdNext + Content + Padding
           to   == Least(p + HeaderLen, buffStop)
<1>0. HeaderLen \in Nat /\ HeaderLen > 0
  BY LengthsAssumption
<1>1. Content + Padding = Remaining /\ Content \in Nat /\ Padding \in Nat /\ rdNext + Content + Padding <= buffStop
  <2>1. Available \in Nat /\ rdNext + Available = buffStop
    BY DEF Ranges, FillAt, Available
  <2>2. Content = contentLen /\ Padding = paddingLen
    BY DEF RecordEnds
  <2>3. Content <= Available
    BY <2>1 DEF Content, Least, Ranges
  <2>4. Padding <= Available - Content
    BY <2>1, <2>2, <2>3 DEF Padding, Least, Ranges
  <2> QED BY <2>1, <2>2, <2>3, <2>4 DEF Ranges, Remaining
<1>2. /\ rdNext \in Nat /\ buffStop \in Nat /\ buffStop <= Len(wire) /\ Len(wire) \in Nat
      /\ Len(h) \in Nat /\ Len(h) < HeaderLen /\ Len(h) <= rdNext
  BY DEF Ranges, FillAt, Framed
<1>3. p \in Nat /\ p <= from /\ from <= buffStop /\ from = p + Len(h) /\ from \in Nat
  BY <1>0, <1>1, <1>2 DEF Remaining
<1>4. to \in Nat /\ p <= to /\ from <= to /\ to <= buffStop /\ Least(from + HeaderLen - Len(h), buffStop) = to
  BY <1>0, <1>2, <1>3 DEF Least
<1>5. h \o SubSeq(wire, from + 1, to) = SubSeq(wire, p + 1, to)
  <2>1. wire \in Seq(Bytes)
    BY DEF Framed
  <2>2. CASE h = <<>>
    <3>1. SubSeq(wire, from + 1, to) \in Seq(Bytes) /\ Len(h) = 0
      BY <1>2, <1>3, <1>4, <2>1, <2>2
    <3>2. from = p
      BY <1>3, <3>1
    <3> HIDE DEF from, p, to
    <3> QED BY <2>2, <3>1, <3>2, ConcatEmptySeq
  <2>3. CASE h # <<>>
    <3>1. from = rdNext /\ h = SubSeq(wire, p + 1, from)
      <4>1. Remaining = 0
        BY <2>3 DEF FillAt
      <4>2. from = rdNext /\ p = rdNext - Len(h)
        BY <1>1, <1>2, <4>1
      <4> QED BY <4>2 DEF FillAt
    <3>2. p + 1 \in 1 .. Len(wire) + 1 /\ from \in (p + 1) - 1 .. Len(wire) /\ to \in from .. Len(wire)
      BY <1>2, <1>3, <1>4
    <3> HIDE DEF from, p, to
    <3>3. SubSeq(wire, p + 1, from) \o SubSeq(wire, from + 1, to) = SubSeq(wire, p + 1, to)
      BY <2>1, <3>2, ConcatAdjacentSubSeq
    <3> QED BY <3>1, <3>3
  <2> QED BY <2>2, <2>3
<1>6. /\ SubSeq(wire, p + 1, to) \in Seq(Bytes) /\ Len(SubSeq(wire, p + 1, to)) = to - p
      /\ \A k \in 1 .. to - p : SubSeq(wire, p + 1, to)[k] = wire[p + k]
  <2>1. wire \in Seq(Bytes)
    BY DEF Framed
  <2> HIDE DEF from, p, to
  <2>2. \A i \in p + 1 .. to : wire[i] \in Bytes
    BY <1>2, <1>3, <1>4, <2>1
  <2>3. /\ SubSeq(wire, p + 1, to) \in Seq(Bytes)
        /\ Len(SubSeq(wire, p + 1, to)) = IF p + 1 <= to THEN to - (p + 1) + 1 ELSE 0
        /\ \A i \in 1 .. to - (p + 1) + 1 : SubSeq(wire, p + 1, to)[i] = wire[p + 1 + i - 1]
    <3>1. p + 1 \in Int /\ to \in Int
      BY <1>3, <1>4
    <3> QED BY <2>2, <3>1, SubSeqProperties
  <2>4. to - (p + 1) + 1 = to - p /\ (p + 1 <= to \/ to - p = 0) /\ \A k \in 1 .. to - p : p + 1 + k - 1 = p + k
    BY <1>3, <1>4
  <2> QED BY <2>3, <2>4
<1> QED BY <1>3, <1>4, <1>5, <1>6

-----------------------------------------------------------------------------
(* Each step keeps the invariant.  First the calls of FillBuffProc.        *)

LEMMA WireStays ==
  ASSUME Framed, UNCHANGED wire
  PROVE  Framed' /\ Bytes' = Bytes /\ Ends' = Ends /\ Len(wire) \in Nat
<1>1. Bytes' = Bytes /\ Ends' = Ends
  BY DEF Bytes, Ends
<1>2. Len(wire) \in Nat
  BY DEF Framed
<1> QED BY <1>1, <1>2 DEF Framed

LEMMA NothingTaken ==
  ASSUME NEW w, NEW n \in Nat
  PROVE  SubSeq(w, n - 0 + 1, n) = <<>>
<1>1. n - 0 + 1 \in Int /\ n \in Int /\ n < n - 0 + 1
  OBVIOUS
<1> QED BY <1>1, SubSeqEmpty

LEMMA SumsUp ==
  ASSUME Ranges, NEW h, FillAt(h)
  PROVE  /\ Content \in Nat /\ Padding \in Nat /\ Content <= contentLen /\ Padding <= paddingLen
         /\ rdNext + Content + Padding <= buffStop
         /\ contentLen = 0 => Content = 0
         /\ Remaining = 0 => RecordEnds
         /\ RecordEnds => Content + Padding = Remaining
<1>1. Available \in Nat /\ rdNext + Available = buffStop
  BY DEF Ranges, FillAt, Available
<1>2. Content \in Nat /\ Content <= Available /\ Content <= contentLen /\ (contentLen = 0 => Content = 0)
  BY <1>1 DEF Content, Least, Ranges
<1>3. Padding \in Nat /\ Padding <= Available - Content /\ Padding <= paddingLen
  BY <1>1, <1>2 DEF Padding, Least, Ranges
<1>4. Remaining = 0 => RecordEnds
  <2> SUFFICES ASSUME Remaining = 0 PROVE Content = contentLen /\ Padding = paddingLen
    BY DEF RecordEnds
  <2>1. contentLen = 0 /\ paddingLen = 0
    BY DEF Remaining, Ranges
  <2> QED BY <1>2, <1>3, <2>1
<1>5. RecordEnds => Content + Padding = Remaining
  BY DEF RecordEnds, Remaining
<1> QED BY <1>1, <1>2, <1>3, <1>4, <1>5 DEF Ranges

LEMMA OSReadStep ==
  ASSUME Framed, InStep, OSRead
  PROVE  InStep'
<1>0. wire' = wire /\ Bytes' = Bytes /\ Ends' = Ends /\ Len(wire) \in Nat
  BY WireStays DEF OSRead, web
<1>1. /\ todo' = todo /\ ret' = ret /\ rdNext' = rdNext /\ stop' = stop /\ contentLen' = contentLen
      /\ paddingLen' = paddingLen /\ skip' = skip /\ eorStop' = eorStop /\ isClosed' = isClosed
      /\ isBeginProcessed' = isBeginProcessed
      /\ Top("fill") /\ rdNext = buffStop
  BY DEF OSRead, Loop, record, request, Empty
<1>2. buffStop' \in 0 .. Len(wire) /\ buffStop <= buffStop'
  <2>1. PICK count \in 1 .. Least(BuffLen, Len(wire) - rdNext) : buffStop' = rdNext + count
    BY DEF OSRead
  <2>2. BuffLen \in Nat
    BY LengthsAssumption
  <2>3. buffStop \in 0 .. Len(wire)
    BY DEF InStep, Ranges
  <2> QED BY <1>0, <1>1, <2>1, <2>2, <2>3 DEF Least
<1>3. Stack(todo, Bytes)'
  BY <1>0, <1>1 DEF InStep
<1>4. Ranges'
  BY <1>0, <1>1, <1>2 DEF InStep, Ranges
<1>5. Placed'
  <2>1. FillAt(Head(todo).header)
    BY <1>1 DEF InStep, Placed
  <2>2. FillAt(Head(todo).header)'
    BY <1>0, <1>1, <1>2, <2>1 DEF FillAt, Remaining, InStep, Ranges
  <2>3. Top("fill")' /\ ~Top("process")'
    BY <1>1 DEF Top
  <2> QED BY <2>2, <2>3 DEF Placed
<1>6. Nested' /\ Told' /\ Counted'
  BY <1>1 DEF InStep, Nested, Told, Counted, Top
<1> QED BY <1>3, <1>4, <1>5, <1>6 DEF InStep

LEMMA DeliverStep ==
  ASSUME Framed, InStep, Deliver
  PROVE  InStep'
<1>0. wire' = wire /\ Bytes' = Bytes /\ Ends' = Ends
  BY WireStays DEF Deliver, web
<1> DEFINE count == Least(contentLen, Available)
           h == Head(todo).header
<1>1. /\ todo' = Tail(todo) /\ ret'.bytes = <<>> /\ rdNext' = rdNext /\ buffStop' = buffStop
      /\ stop' = rdNext + count /\ contentLen' = contentLen - count
      /\ paddingLen' = paddingLen /\ skip' = skip /\ eorStop' = eorStop /\ isClosed' = isClosed
      /\ isBeginProcessed' = isBeginProcessed
      /\ todo # <<>> /\ Head(todo).op = "fill" /\ contentLen > 0 /\ ~skip
  BY DEF Deliver, Return, request, Top
<1>2. FillAt(h) /\ Ranges
  BY <1>1 DEF InStep, Placed, Top
<1>3. h = <<>> /\ Len(h) = 0
  BY <1>1, <1>2 DEF FillAt, Remaining, Ranges
<1>4. /\ count \in Nat /\ count <= contentLen /\ rdNext + count <= buffStop
      /\ ~isClosed /\ rdNext + contentLen + paddingLen \in Ends
  <2>1. Available \in Nat /\ rdNext + Available = buffStop
    BY <1>2 DEF Ranges, FillAt, Available
  <2>2. rdNext + (contentLen + paddingLen) \in Ends
    <3> HIDE DEF h
    <3>1. rdNext - Len(h) + (contentLen + paddingLen) \in Ends
      BY <1>2 DEF FillAt, Remaining
    <3>2. rdNext - Len(h) + (contentLen + paddingLen) = rdNext + (contentLen + paddingLen)
      BY <1>2, <1>3 DEF Ranges
    <3> QED BY <3>1, <3>2
  <2>3. count \in Nat /\ count <= contentLen /\ count <= Available
    BY <1>2, <2>1 DEF Least, Ranges
  <2>4. rdNext + (contentLen + paddingLen) = rdNext + contentLen + paddingLen
    BY <1>2 DEF Ranges
  <2> QED BY <1>2, <2>1, <2>2, <2>3, <2>4 DEF FillAt, Ranges
<1> HIDE DEF count, h
<1>5. /\ Stack(todo', Bytes) /\ todo' # <<>> /\ Head(todo') = todo[2] /\ todo'[1] = todo[2]
      /\ todo[2].op \in {"getStr", "readRequest"}
      /\ todo[2].op = "readRequest" => todo[2].step = "begin" /\ Waiting(todo)
      /\ todo[2].op = "getStr" => todo'[2] = todo[3]
      /\ Inside(todo') => Inside(todo)
      /\ Waiting(todo') => Waiting(todo)
  BY <1>1, FillReturns DEF InStep
<1>6. Stack(todo, Bytes)'
  BY <1>0, <1>5
<1>7. Ranges'
  <2>1. <<>> \in Seq(Bytes)
    OBVIOUS
  <2> QED BY <1>0, <1>1, <1>2, <1>4, <2>1 DEF Ranges
<1>8. Placed'
  <2>1. stop' + (contentLen' + paddingLen') = rdNext + contentLen + paddingLen
    BY <1>1, <1>2, <1>4 DEF Ranges
  <2>2. OtherwiseAt'
    BY <1>0, <1>1, <1>2, <1>4, <2>1 DEF OtherwiseAt, Remaining, Ranges
  <2>3. ~Top("fill")' /\ ~Top("process")'
    BY <1>5 DEF Top
  <2> QED BY <2>2, <2>3 DEF Placed
<1>9. Nested'
  BY <1>1, <1>5 DEF InStep, Nested
<1>10. Told'
  BY <1>1, <1>5 DEF InStep, Nested, Told, Top
<1>11. Counted'
  <2>1. ASSUME todo[2].op = "getStr", todo'[2].op = "beginBody"
        PROVE  Len(todo[2].got) + (stop' - rdNext') + contentLen' = HeaderLen
    <3>1. Len(todo[2].got) + contentLen = HeaderLen
      BY <1>1, <1>5, <2>1 DEF InStep, Counted, Top
    <3>2. Len(todo[2].got) \in Nat
      <4>1. FrameOK(todo[2], Bytes)
        BY <1>1, FillReturns DEF InStep
      <4> QED BY <2>1, <4>1 DEF FrameOK
    <3> QED BY <1>1, <1>2, <1>4, <3>1, <3>2 DEF Ranges
  <2> QED BY <1>5, <2>1 DEF Counted, Top
<1> QED BY <1>6, <1>7, <1>8, <1>9, <1>10, <1>11 DEF InStep

LEMMA SkipRecordStep ==
  ASSUME Framed, InStep, SkipRecord
  PROVE  InStep'
<1>0. wire' = wire /\ Bytes' = Bytes /\ Ends' = Ends
  BY WireStays DEF SkipRecord, web
<1> DEFINE h == Head(todo).header
<1>1. /\ todo' = todo /\ ret' = ret /\ rdNext' = rdNext + Content + Padding /\ stop' = stop
      /\ contentLen' = contentLen - Content /\ paddingLen' = paddingLen - Padding
      /\ skip' = SkipAfter /\ eorStop' = eorStop /\ isClosed' = isClosed /\ buffStop' = buffStop
      /\ isBeginProcessed' = isBeginProcessed
      /\ todo # <<>> /\ Head(todo).op = "fill" /\ (contentLen = 0 \/ skip) /\ ~RecordEnds
  BY DEF SkipRecord, Skipping, Loop, request, Top
<1>2. FillAt(h) /\ Ranges
  BY <1>1 DEF InStep, Placed, Top
<1>3. /\ Content \in Nat /\ Padding \in Nat /\ Content <= contentLen /\ Padding <= paddingLen
      /\ rdNext + Content + Padding <= buffStop
      /\ contentLen = 0 => Content = 0
      /\ Remaining = 0 => RecordEnds
  BY <1>2, SumsUp
<1>4. h = <<>> /\ Len(h) = 0
  BY <1>1, <1>2, <1>3 DEF FillAt
<1> HIDE DEF h
<1>5. skip' => contentLen' > 0 /\ ~eorStop'
  BY <1>1, <1>2, <1>3 DEF SkipAfter, InStep, Nested, Ranges
<1>6. Stack(todo, Bytes)'
  BY <1>0, <1>1 DEF InStep
<1>7. Ranges'
  BY <1>0, <1>1, <1>2, <1>3 DEF Ranges, SkipAfter
<1>8. Placed'
  <2>1. rdNext' - 0 + (contentLen' + paddingLen') = rdNext - 0 + (contentLen + paddingLen)
    BY <1>1, <1>2, <1>3 DEF Ranges
  <2>2. rdNext' - 0 + (contentLen' + paddingLen') \in Ends'
    BY <1>0, <1>2, <1>4, <2>1 DEF FillAt, Remaining
  <2>3. SubSeq(wire', rdNext' - 0 + 1, rdNext') = <<>>
    <3>1. rdNext' - 0 + 1 \in Int /\ rdNext' \in Int /\ rdNext' < rdNext' - 0 + 1
      BY <1>1, <1>2, <1>3 DEF Ranges
    <3> QED BY <3>1, SubSeqEmpty
  <2>4. rdNext' \in Nat /\ rdNext' <= buffStop'
    BY <1>1, <1>2, <1>3 DEF Ranges
  <2>5. Head(todo').header = <<>> /\ HeaderLen > 0 /\ Len(Head(todo').header) = 0
    BY <1>1, <1>4, LengthsAssumption DEF h
  <2>6. FillAt(Head(todo).header)'
    <3>1. rdNext' - Len(Head(todo').header) + (contentLen' + paddingLen') \in Ends'
      BY <2>2, <2>5
    <3>2. Head(todo').header = SubSeq(wire', rdNext' - Len(Head(todo').header) + 1, rdNext')
      BY <2>3, <2>5
    <3>3. ~isClosed'
      BY <1>1, <1>2 DEF FillAt
    <3> QED BY <2>4, <2>5, <3>1, <3>2, <3>3 DEF FillAt, Remaining
  <2>7. Top("fill")' /\ ~Top("process")'
    BY <1>1 DEF Top
  <2> QED BY <2>6, <2>7 DEF Placed
<1>9. Nested'
  BY <1>1, <1>5 DEF InStep, Nested
<1>10. Told'
  BY <1>1 DEF Told, Top
<1>11. Counted'
  <2>1. ASSUME todo[2].op = "getStr", todo[3].op = "beginBody" PROVE contentLen' = contentLen
    <3>1. 3 \in 1 .. Len(todo)
      BY <1>1, <2>1, FillReturns DEF InStep
    <3>2. eorStop
      BY <2>1, <3>1 DEF Inside, Inner, InStep, Nested
    <3>3. contentLen = 0
      BY <1>1, <3>2 DEF InStep, Nested
    <3>4. Content = 0 /\ contentLen' = contentLen - Content
      BY <1>1, <1>3, <3>3
    <3> QED BY <3>3, <3>4
  <2> QED BY <1>1, <2>1 DEF Counted, Top, InStep
<1> QED BY <1>6, <1>7, <1>8, <1>9, <1>10, <1>11 DEF InStep

LEMMA EndOfRecordStep ==
  ASSUME Framed, InStep, EndOfRecord
  PROVE  InStep'
<1>0. wire' = wire /\ Bytes' = Bytes /\ Ends' = Ends
  BY WireStays DEF EndOfRecord, web
<1> DEFINE h == Head(todo).header
<1>1. /\ todo' = Tail(todo) /\ ret'.bytes = <<>> /\ rdNext' = rdNext + Content + Padding /\ stop' = rdNext'
      /\ contentLen' = 0 /\ paddingLen' = 0
      /\ skip' = SkipAfter /\ eorStop' = eorStop /\ isClosed' = TRUE /\ buffStop' = buffStop
      /\ isBeginProcessed' = isBeginProcessed
      /\ todo # <<>> /\ Head(todo).op = "fill" /\ RecordEnds /\ eorStop
  BY DEF EndOfRecord, Skipping, Return, request, Top
<1>2. FillAt(h) /\ Ranges
  BY <1>1 DEF InStep, Placed, Top
<1>3. /\ Content \in Nat /\ Padding \in Nat /\ rdNext + Content + Padding <= buffStop
      /\ Content + Padding = Remaining
  BY <1>1, <1>2, SumsUp
<1>4. h = <<>> /\ Len(h) = 0
  BY <1>1, <1>2 DEF FillAt
<1> HIDE DEF h
<1>5. skip' = FALSE
  BY <1>1 DEF SkipAfter, InStep, Nested
<1>6. /\ Stack(todo', Bytes) /\ todo' # <<>> /\ Head(todo') = todo[2] /\ todo'[1] = todo[2]
      /\ todo[2].op \in {"getStr", "readRequest"}
      /\ todo[2].op = "readRequest" => todo[2].step = "begin" /\ Waiting(todo)
      /\ Inside(todo') => Inside(todo)
      /\ Waiting(todo') => Waiting(todo)
  BY <1>1, FillReturns DEF InStep
<1>7. Stack(todo, Bytes)'
  BY <1>0, <1>6
<1>8. Ranges'
  <2>1. <<>> \in Seq(Bytes)
    OBVIOUS
  <2>2. rdNext' \in Nat /\ stop' \in Nat /\ contentLen' \in Nat /\ paddingLen' \in Nat
    BY <1>1, <1>2, <1>3 DEF Ranges
  <2>3. ret'.bytes \in Seq(Bytes')
    BY <1>0, <1>1, <2>1
  <2> QED BY <1>0, <1>1, <1>2, <1>5, <2>2, <2>3 DEF Ranges
<1>9. Placed'
  <2>1. stop' + (contentLen' + paddingLen') = rdNext - 0 + Remaining
    BY <1>1, <1>2, <1>3 DEF Ranges
  <2>2. rdNext - 0 + Remaining \in Ends
    BY <1>2, <1>4 DEF FillAt
  <2>3. OtherwiseAt'
    BY <1>0, <1>1, <1>2, <1>3, <2>1, <2>2 DEF OtherwiseAt, Remaining, Ranges
  <2>4. ~Top("fill")' /\ ~Top("process")'
    BY <1>6 DEF Top
  <2> QED BY <2>3, <2>4 DEF Placed
<1>10. Nested'
  BY <1>1, <1>5, <1>6 DEF InStep, Nested
<1>11. Told' /\ Counted'
  BY <1>1, <1>6 DEF InStep, Nested, Told, Counted, Top
<1> QED BY <1>7, <1>8, <1>9, <1>10, <1>11 DEF InStep

LEMMA FillHeaderStep ==
  ASSUME Framed, InStep, FillHeader
  PROVE  InStep'
<1>0. wire' = wire /\ Bytes' = Bytes /\ Ends' = Ends
  BY WireStays DEF FillHeader, web
<1> DEFINE h    == Head(todo).header
           p    == rdNext - Len(h) + Remaining
           from == rdNext + Content + Padding
           to   == Least(p + HeaderLen, buffStop)
           g    == SubSeq(wire, p + 1, to)
           c    == [op |-> "fill", header |-> HeaderSoFar]
           t    == Tail(todo)
<1>1. /\ todo' = <<c>> \o t /\ ret' = ret /\ rdNext' = buffStop /\ stop' = stop /\ buffStop' = buffStop
      /\ contentLen' = 0 /\ paddingLen' = 0
      /\ skip' = SkipAfter /\ eorStop' = eorStop /\ isClosed' = isClosed
      /\ isBeginProcessed' = isBeginProcessed
      /\ todo # <<>> /\ Head(todo).op = "fill" /\ RecordEnds /\ ~eorStop
      /\ Len(HeaderSoFar) < HeaderLen
  BY DEF FillHeader, Skipping, Then, request, Top
<1>2. FillAt(h) /\ Ranges
  BY <1>1 DEF InStep, Placed, Top
<1>3. /\ p \in Nat /\ p <= from /\ from <= buffStop /\ from = p + Len(h)
      /\ h \o SubSeq(wire, from + 1, Least(from + HeaderLen - Len(h), buffStop)) = g
      /\ Len(g) = to - p
  BY <1>1, <1>2, HeaderPlaced
<1>4. HeaderSoFar = g
  BY <1>3 DEF HeaderSoFar
<1>5. p \in Ends
  BY <1>2 DEF FillAt
<1> HIDE DEF h, p, from, g, to
<1>6. to = buffStop /\ Len(g) = buffStop - p /\ Len(g) \in Nat /\ buffStop \in Nat
  <2>1. buffStop \in Nat /\ HeaderLen \in Nat /\ Len(h) \in Nat
    BY <1>2, LengthsAssumption DEF Ranges, FillAt
  <2>2. p <= buffStop
    BY <1>3, <2>1
  <2>3. to - p < HeaderLen
    BY <1>1, <1>3, <1>4
  <2>4. to = buffStop
    BY <1>3, <2>1, <2>3 DEF Least, to
  <2> QED BY <1>3, <2>1, <2>2, <2>4
<1>7. /\ Stack(t, Bytes) /\ t # <<>> /\ t[1] = todo[2] /\ Under(todo[1], todo[2])
      /\ Head(todo) = todo[1]
      /\ todo[2].op = "readRequest" => Waiting(todo)
      /\ todo[2].op = "getStr" => t[2] = todo[3] /\ 3 \in 1 .. Len(todo)
      /\ Inside(t) => Inside(todo)
      /\ Waiting(t) => Waiting(todo)
  <2>1. Stack(todo, Bytes)
    BY DEF InStep
  <2>2. Head(todo) = todo[1]
    BY <1>1, <2>1, StackTail
  <2> QED BY <1>1, <2>1, <2>2, FillReturns
<1>8. Under(c, t[1]) /\ FrameOK(c, Bytes) /\ c.op = "fill" /\ c.header = g
  BY <1>1, <1>4, <1>7 DEF Under, FrameOK, Inner
<1> HIDE DEF c, t
<1>9. /\ Stack(todo', Bytes) /\ todo' # <<>> /\ Head(todo') = c /\ todo'[1] = c
      /\ Len(t) \in Nat /\ \A i \in 1 .. Len(t) : todo'[i + 1] = t[i]
      /\ Inside(todo') => Inside(todo)
      /\ Waiting(todo') => Waiting(todo)
  <2>1. IsPut(todo', Bytes, c, t)
    <3>1. Stack(t, Bytes) /\ FrameOK(c, Bytes)
      BY <1>7, <1>8
    <3>2. IF c.op \in Bottom THEN t = <<>> ELSE t # <<>> /\ Under(c, t[1])
      BY <1>7, <1>8 DEF Bottom
    <3>3. c.op \in Inner => ~Inside(t)
      BY <1>8 DEF Inner
    <3> QED BY <1>1, <3>1, <3>2, <3>3, StackPut
  <2> QED BY <1>7, <1>8, <2>1 DEF IsPut, Inner
<1>10. Stack(todo, Bytes)'
  BY <1>0, <1>9
<1>11. skip' = FALSE
  BY <1>1, <1>2 DEF SkipAfter, InStep, Nested, RecordEnds
<1>12. Ranges'
  BY <1>0, <1>1, <1>2, <1>6, <1>11 DEF Ranges
<1>13. Placed'
  <2>1. Head(todo').header = g
    BY <1>8, <1>9
  <2>2. rdNext' - Len(g) = p /\ Len(g) < HeaderLen /\ Len(g) <= rdNext'
    BY <1>1, <1>3, <1>4, <1>6
  <2>3. g = SubSeq(wire', rdNext' - Len(g) + 1, rdNext')
    BY <1>0, <1>1, <1>6, <2>2 DEF g
  <2>4. rdNext' - Len(g) + (contentLen' + paddingLen') \in Ends'
    BY <1>0, <1>1, <1>3, <1>5, <2>2
  <2>5. ~isClosed' /\ rdNext' <= buffStop' /\ Len(g) \in Nat /\ contentLen' + paddingLen' = 0 /\ ~eorStop'
    BY <1>1, <1>2, <1>6 DEF FillAt
  <2>6. FillAt(Head(todo).header)'
    BY <2>1, <2>2, <2>3, <2>4, <2>5 DEF FillAt, Remaining
  <2>7. Top("fill")' /\ ~Top("process")'
    BY <1>8, <1>9 DEF Top
  <2> QED BY <2>6, <2>7 DEF Placed
<1>14. Nested'
  BY <1>1, <1>9, <1>11 DEF InStep, Nested
<1>15. Told'
  BY <1>8, <1>9 DEF Told, Top
<1>16. Counted'
  <2>1. ASSUME todo'[2].op = "getStr", todo'[3].op = "beginBody" PROVE FALSE
    <3>1. Len(t) >= 1
      <4>1. Len(t) # 0
        BY <1>7 DEF Stack
      <4> QED BY <1>9, <4>1
    <3>2. 1 \in 1 .. Len(t) /\ 1 + 1 = 2
      BY <1>9, <3>1
    <3>3. todo'[2] = todo[2]
      BY <1>7, <1>9, <3>2
    <3>4. t[2] = todo[3] /\ 3 \in 1 .. Len(todo)
      BY <1>7, <2>1, <3>3
    <3>5. 2 \in 1 .. Len(t)
      <4>1. Len(t) = Len(todo) - 1 /\ Len(todo) \in Nat
        BY <1>1, StackTail DEF InStep, t
      <4> QED BY <3>4, <4>1
    <3>6. todo'[3] = todo[3]
      <4>1. 2 + 1 = 3
        OBVIOUS
      <4> QED BY <1>9, <3>4, <3>5, <4>1
    <3>7. Inside(todo)
      BY <2>1, <3>4, <3>6 DEF Inside, Inner
    <3> QED BY <1>1, <3>7 DEF InStep, Nested
  <2> QED BY <1>8, <1>9, <2>1 DEF Counted, Top
<1> QED BY <1>10, <1>12, <1>13, <1>14, <1>15, <1>16 DEF InStep

LEMMA CallProcessHeaderStep ==
  ASSUME Framed, InStep, CallProcessHeader
  PROVE  InStep'
<1>0. wire' = wire /\ Bytes' = Bytes /\ Ends' = Ends
  BY WireStays DEF CallProcessHeader, web
<1> DEFINE h    == Head(todo).header
           p    == rdNext - Len(h) + Remaining
           from == rdNext + Content + Padding
           to   == Least(p + HeaderLen, buffStop)
           g    == SubSeq(wire, p + 1, to)
           d    == [op |-> "fill", header |-> <<>>]
           t    == Tail(todo)
<1>1. /\ ret' = ret /\ rdNext' = from + HeaderLen - Len(h) /\ stop' = rdNext' /\ buffStop' = buffStop
      /\ skip' = SkipAfter /\ eorStop' = TRUE /\ isClosed' = isClosed
      /\ isBeginProcessed' = isBeginProcessed
      /\ todo # <<>> /\ Head(todo).op = "fill" /\ RecordEnds /\ ~eorStop
      /\ Len(HeaderSoFar) = HeaderLen
  BY DEF CallProcessHeader, Skipping, Then, request, Top
<1>2. FillAt(h) /\ Ranges
  BY <1>1 DEF InStep, Placed, Top
<1>3. /\ p \in Nat /\ p <= from /\ from <= buffStop /\ from = p + Len(h)
      /\ h \o SubSeq(wire, from + 1, Least(from + HeaderLen - Len(h), buffStop)) = g
      /\ Len(g) = to - p
      /\ \A k \in 1 .. to - p : g[k] = wire[p + k]
  BY <1>1, <1>2, HeaderPlaced
<1>4. HeaderSoFar = g
  BY <1>3 DEF HeaderSoFar
<1>5. p \in Ends
  BY <1>2 DEF FillAt
<1> HIDE DEF h, p, from, to, g
<1>6. /\ HeaderLen \in Nat \ {0} /\ buffStop \in Nat /\ to - p = HeaderLen
      /\ p + HeaderLen <= buffStop /\ p # Len(wire) /\ rdNext' = p + HeaderLen
  <2>1. buffStop \in 0 .. Len(wire) /\ HeaderLen \in Nat \ {0} /\ Len(h) \in Nat /\ Len(wire) \in Nat
    BY <1>2, LengthsAssumption DEF Ranges, FillAt, Framed
  <2>2. to - p = HeaderLen
    BY <1>1, <1>3, <1>4
  <2>3. rdNext' = p + HeaderLen
    BY <1>1, <1>3, <2>1
  <2>4. p + HeaderLen <= buffStop
    BY <1>3, <2>1, <2>2 DEF Least, to
  <2> QED BY <1>3, <2>1, <2>2, <2>3, <2>4
<1>7. PICK x : /\ x.clen \in Nat /\ x.plen \in Nat /\ p + HeaderLen + x.clen + x.plen \in Ends
               /\ \A k \in 1 .. HeaderLen : wire[p + k] = <<"header", k, x>>
  BY <1>5, <1>6 DEF Framed, FramedBy
<1>8. IsHeader(HeaderSoFar) /\ HeaderOf(HeaderSoFar) = {x}
  <2>1. \A k \in 1 .. HeaderLen : g[k] = <<"header", k, x>>
    BY <1>3, <1>6, <1>7
  <2>2. 1 \in 1 .. HeaderLen
    BY <1>6
  <2> QED BY <1>4, <2>1, <2>2 DEF IsHeader, HeaderOf
<1> DEFINE c == [op |-> "process", h |-> x, framed |-> TRUE]
<1>9. /\ contentLen' = (IF x.type = "badVersion" THEN 0 ELSE x.clen)
      /\ paddingLen' = (IF x.type = "badVersion" THEN 0 ELSE x.plen)
      /\ todo' = <<c, d>> \o t
  <2>1. PICK y \in HeaderOf(HeaderSoFar) :
          /\ contentLen' = (IF y.type = "badVersion" THEN 0 ELSE y.clen)
          /\ paddingLen' = (IF y.type = "badVersion" THEN 0 ELSE y.plen)
          /\ todo' = (<<[op |-> "process", h |-> y, framed |-> IsHeader(HeaderSoFar)]>> \o FillBuffProc) \o Tail(todo)
    BY DEF CallProcessHeader, Then
  <2>2. y = x /\ IsHeader(HeaderSoFar) = TRUE
    BY <1>8, <2>1
  <2>3. <<[op |-> "process", h |-> y, framed |-> IsHeader(HeaderSoFar)]>> \o FillBuffProc = <<c>> \o <<d>>
    BY <2>2 DEF FillBuffProc
  <2>4. <<c>> \o <<d>> = <<c, d>>
    BY PairOfCalls
  <2> QED BY <2>1, <2>2, <2>3, <2>4
<1>10. /\ Stack(t, Bytes) /\ t # <<>> /\ t[1] = todo[2] /\ Under(todo[1], todo[2])
       /\ Head(todo) = todo[1]
       /\ todo[2].op = "readRequest" => Waiting(todo)
       /\ Inside(t) => Inside(todo)
       /\ Waiting(t) => Waiting(todo)
  <2>1. Stack(todo, Bytes)
    BY DEF InStep
  <2>2. Head(todo) = todo[1]
    BY <1>1, <2>1, StackTail
  <2> QED BY <1>1, <2>1, <2>2, FillReturns
<1>11. /\ Under(c, d) /\ FrameOK(c, Bytes) /\ c.op = "process" /\ c.h = x /\ c.framed = TRUE
       /\ Under(d, t[1]) /\ FrameOK(d, Bytes) /\ d.op = "fill" /\ ~Inside(t)
  BY <1>1, <1>10 DEF Under, FrameOK, Inner, InStep, Nested
<1> HIDE DEF c, d, t
<1>12. /\ Stack(todo', Bytes) /\ todo' # <<>> /\ Head(todo') = c
       /\ Waiting(todo') => Waiting(todo)
  <2>1. IsPutTwo(todo', Bytes, c, d, t)
    <3>1. Stack(t, Bytes) /\ FrameOK(c, Bytes) /\ FrameOK(d, Bytes) /\ Under(c, d)
      BY <1>10, <1>11
    <3>2. IF d.op \in Bottom THEN t = <<>> ELSE t # <<>> /\ Under(d, t[1])
      BY <1>10, <1>11 DEF Bottom
    <3>3. c.op \notin Bottom /\ d.op \notin Inner /\ ~Inside(t)
      BY <1>11 DEF Bottom, Inner
    <3>4. (d.op \in Inner => ~Inside(t)) /\ (c.op \in Inner => ~Inside(t) /\ d.op \notin Inner)
      BY <3>3
    <3> QED BY <1>9, <3>1, <3>2, <3>3, <3>4, StackPutTwo
  <2> QED BY <1>10, <1>11, <2>1 DEF IsPutTwo
<1>13. Stack(todo, Bytes)'
  BY <1>0, <1>12
<1>14. skip' = FALSE
  BY <1>1, <1>2 DEF SkipAfter, InStep, Nested, RecordEnds
<1>15. Ranges'
  <2>1. rdNext' \in Nat /\ stop' \in Nat
    BY <1>1, <1>3, <1>6
  <2> QED BY <1>0, <1>1, <1>2, <1>7, <1>9, <1>14, <2>1 DEF Ranges
<1>16. Placed'
  <2>1. x.type = "badVersion" \/ stop' + (contentLen' + paddingLen') \in Ends'
    <3>1. p + HeaderLen + x.clen + x.plen = p + HeaderLen + (x.clen + x.plen)
      BY <1>3, <1>6, <1>7
    <3> QED BY <1>0, <1>1, <1>6, <1>7, <1>9, <3>1
  <2>2. ~isClosed' /\ rdNext' = stop' /\ stop' <= buffStop'
    BY <1>1, <1>2, <1>6 DEF FillAt
  <2>3. Head(todo').h.type = x.type /\ Head(todo').framed
    BY <1>11, <1>12
  <2>4. ProcessAt(Head(todo))'
    BY <2>1, <2>2, <2>3 DEF ProcessAt, Remaining
  <2>5. Top("process")' /\ ~Top("fill")'
    BY <1>11, <1>12 DEF Top
  <2> QED BY <2>4, <2>5 DEF Placed
<1>17. Nested'
  BY <1>1, <1>12, <1>14 DEF InStep, Nested
<1>18. Told' /\ Counted'
  BY <1>11, <1>12 DEF Told, Counted, Top
<1> QED BY <1>13, <1>15, <1>16, <1>17, <1>18 DEF InStep

(* ProcessHeader and what it calls return to FillBuffProc.                 *)
LEMMA StatusStep ==
  ASSUME Framed, InStep, todo # <<>>, Head(todo).op \in Inner, NEW status, Status(status),
         UNCHANGED wire, UNCHANGED <<rdNext, buffStop, contentLen, paddingLen>>,
         status # "error", status = "skip" => contentLen > 0,
         rdNext = stop, stop <= buffStop, stop + Remaining \in Ends,
         status = "begin" => contentLen = 0,
         IF status = "begin" THEN isBeginProcessed' = TRUE ELSE UNCHANGED isBeginProcessed
  PROVE  InStep'
<1>0. wire' = wire /\ Bytes' = Bytes /\ Ends' = Ends
  BY WireStays
<1> DEFINE t == Tail(todo)
           u == Tail(t)
           over == status = "begin" \/ (status = "stream" /\ contentLen = 0)
<1>1. /\ rdNext' = rdNext /\ buffStop' = buffStop /\ contentLen' = contentLen /\ paddingLen' = paddingLen
      /\ eorStop' = FALSE /\ ret' = ret
      /\ isClosed' = (status = "stream" /\ contentLen = 0)
      /\ skip' = (skip \/ status = "skip")
      /\ stop' = stop
      /\ todo' = IF over THEN u ELSE t
  BY DEF Status
<1>2. Ranges /\ Stack(todo, Bytes)
  BY DEF InStep
<1>3. Head(todo) = todo[1] /\ Len(todo) \in Nat \ {0}
  BY <1>2, StackTail
<1>4. Inside(todo)
  <2>1. 1 \in 1 .. Len(todo)
    BY <1>3
  <2> QED BY <1>3, <2>1 DEF Inside
<1>5. skip' = (status = "skip") /\ skip' \in BOOLEAN /\ isClosed' \in BOOLEAN
  BY <1>1, <1>4 DEF InStep, Nested
<1>6. /\ Stack(t, Bytes) /\ ~Inside(t) /\ t # <<>> /\ Head(t).op = "fill" /\ Head(t).header = <<>>
      /\ Waiting(t) => Waiting(todo)
      /\ t[2].op = "getStr" => t[3].op # "beginBody"
      /\ Stack(u, Bytes) /\ ~Inside(u) /\ ~Waiting(u) /\ u # <<>>
      /\ Head(u).op \in {"getStr", "readRequest"}
      /\ Head(u).op = "readRequest" => Head(u).step = "begin"
      /\ Head(u).op = "getStr" => u[2].op # "beginBody"
  BY <1>2, InnerReturns
<1> HIDE DEF t, u
<1>7. Stack(todo, Bytes)'
  BY <1>0, <1>1, <1>6
<1>8. Ranges'
  <2>1. isBeginProcessed' \in BOOLEAN
    BY <1>2 DEF Ranges
  <2>2. contentLen' \in Nat /\ paddingLen' \in Nat /\ rdNext' \in Nat /\ stop' \in Nat
        /\ buffStop' \in 0 .. Len(wire') /\ ret'.bytes \in Seq(Bytes')
    BY <1>0, <1>1, <1>2 DEF Ranges
  <2> QED BY <1>1, <1>5, <2>1, <2>2 DEF Ranges
<1>9. CASE ~over
  <2>1. todo' = t
    BY <1>1, <1>9
  <2>2. Placed'
    <3>1. Head(todo').header = <<>> /\ Len(Head(todo').header) = 0 /\ HeaderLen > 0 /\ HeaderLen \in Nat
      BY <1>6, <2>1, LengthsAssumption
    <3>2. rdNext' - Len(Head(todo').header) + (contentLen' + paddingLen') \in Ends'
      <4>1. rdNext' - 0 + (contentLen' + paddingLen') = stop + (contentLen + paddingLen)
        BY <1>1, <1>2 DEF Ranges
      <4> QED BY <1>0, <3>1, <4>1 DEF Remaining
    <3>3. Head(todo').header = SubSeq(wire', rdNext' - Len(Head(todo').header) + 1, rdNext')
      <4>1. rdNext' - 0 + 1 \in Int /\ rdNext' \in Int /\ rdNext' < rdNext' - 0 + 1
        BY <1>8 DEF Ranges
      <4>2. SubSeq(wire', rdNext' - 0 + 1, rdNext') = <<>>
        BY <4>1, SubSeqEmpty
      <4> QED BY <3>1, <4>2
    <3>4. ~isClosed' /\ rdNext' <= buffStop' /\ rdNext' \in Nat
      BY <1>1, <1>8, <1>9 DEF Ranges
    <3>5. FillAt(Head(todo).header)'
      <4>1. Len(Head(todo').header) \in Nat /\ Len(Head(todo').header) < HeaderLen
            /\ Len(Head(todo').header) <= rdNext'
        BY <3>1, <3>4
      <4> QED BY <3>1, <3>2, <3>3, <3>4, <4>1 DEF FillAt, Remaining
    <3>6. Top("fill")' /\ ~Top("process")'
      BY <1>6, <2>1 DEF Top
    <3> QED BY <3>5, <3>6 DEF Placed
  <2>3. Nested'
    BY <1>1, <1>5, <1>6, <1>9, <2>1 DEF InStep, Nested
  <2>4. Told' /\ Counted'
    BY <1>6, <2>1 DEF Told, Counted, Top
  <2> QED BY <1>7, <1>8, <2>2, <2>3, <2>4 DEF InStep
<1>10. CASE over
  <2>1. todo' = u /\ contentLen = 0
    BY <1>1, <1>10
  <2>2. ~Top("fill")' /\ ~Top("process")'
    BY <1>6, <2>1 DEF Top
  <2>3. OtherwiseAt'
    BY <1>0, <1>1, <1>2, <2>1 DEF OtherwiseAt, Remaining, Ranges
  <2>4. Placed'
    BY <2>2, <2>3 DEF Placed
  <2>5. Nested'
    BY <1>1, <1>5, <1>6, <1>10, <2>1 DEF Nested
  <2>6. Told'
    BY <1>1, <1>6, <2>1 DEF Told, Top
  <2>7. Counted'
    BY <1>6, <2>1 DEF Counted, Top
  <2> QED BY <1>7, <1>8, <2>4, <2>5, <2>6, <2>7 DEF InStep
<1> QED BY <1>9, <1>10

-----------------------------------------------------------------------------
(* ProcessHeader and the calls it makes.                                   *)

LEMMA BeginAgainStep ==
  ASSUME Framed, InStep, BeginAgain, Sound'
  PROVE  InStep'
<1>1. /\ todo # <<>> /\ Head(todo).op = "process" /\ Head(todo).op \in Inner
      /\ Head(todo).h.type = "begin" /\ contentLen = HeaderLen
      /\ UNCHANGED wire /\ UNCHANGED <<rdNext, buffStop, contentLen, paddingLen>>
      /\ UNCHANGED isBeginProcessed
  BY DEF BeginAgain, Top, Header, web, request, Inner
<1>2. ProcessAt(Head(todo))
  BY <1>1 DEF InStep, Placed, Top
<1>3. Status("skip")
  <2>1. Status("skip") \/ Status("error")
    BY DEF BeginAgain, Answer
  <2>2. Status("error") => FCGI_errno'
    BY DEF Status
  <2> QED BY <2>1, <2>2 DEF Sound
<1>4. contentLen > 0
  BY <1>1, LengthsAssumption
<1>5. rdNext = stop /\ stop <= buffStop /\ stop + Remaining \in Ends
  BY <1>1, <1>2 DEF ProcessAt
<1> QED BY <1>1, <1>3, <1>4, <1>5, StatusStep

LEMMA UnknownManagementStep ==
  ASSUME Framed, InStep, UnknownManagement, Sound'
  PROVE  InStep'
<1>1. /\ todo # <<>> /\ Head(todo).op = "process" /\ Head(todo).op \in Inner
      /\ Head(todo).h.type # "badVersion"
      /\ UNCHANGED wire /\ UNCHANGED <<rdNext, buffStop, contentLen, paddingLen>>
      /\ UNCHANGED isBeginProcessed
  BY DEF UnknownManagement, Top, Header, web, request, Inner
<1>2. ProcessAt(Head(todo))
  BY <1>1 DEF InStep, Placed, Top
<1>3. Status("management")
  <2>1. Status("management") \/ Status("error")
    BY DEF UnknownManagement, Answer
  <2>2. Status("error") => FCGI_errno'
    BY DEF Status
  <2> QED BY <2>1, <2>2 DEF Sound
<1>4. rdNext = stop /\ stop <= buffStop /\ stop + Remaining \in Ends
  BY <1>1, <1>2 DEF ProcessAt
<1> QED BY <1>1, <1>3, <1>4, StatusStep

LEMMA StreamRecordStep ==
  ASSUME Framed, InStep, StreamRecord, Sound'
  PROVE  InStep'
<1> DEFINE status == CASE Header.id # requestId -> "skip"
                       [] Header.id = requestId /\ Header.type # type -> "error"
                       [] OTHER -> "stream"
<1>1. /\ todo # <<>> /\ Head(todo).op = "process" /\ Head(todo).op \in Inner
      /\ Head(todo).h.type # "badVersion"
      /\ UNCHANGED wire /\ UNCHANGED <<rdNext, buffStop, contentLen, paddingLen>>
      /\ UNCHANGED isBeginProcessed
  BY DEF StreamRecord, Top, Header, web, request, Inner
<1>2. ProcessAt(Head(todo)) /\ Ranges
  BY <1>1 DEF InStep, Placed, Top
<1>3. Status(status)
  BY DEF StreamRecord
<1>4. status # "error"
  <2>1. Status("error") => FCGI_errno'
    BY DEF Status
  <2> HIDE DEF status
  <2> QED BY <1>3, <2>1 DEF Sound
<1>5. status = "skip" => contentLen > 0
  <2>1. status = "skip" => Header.id # requestId
    OBVIOUS
  <2>2. ~(Header.id # requestId /\ contentLen = 0)
    BY DEF StreamRecord, Sound
  <2> HIDE DEF status
  <2> QED BY <1>2, <2>1, <2>2 DEF Ranges
<1>6. status # "begin"
  OBVIOUS
<1> HIDE DEF status
<1>7. rdNext = stop /\ stop <= buffStop /\ stop + Remaining \in Ends
  BY <1>1, <1>2 DEF ProcessAt
<1> QED BY <1>1, <1>3, <1>4, <1>5, <1>6, <1>7, StatusStep

LEMMA ValuesReadStep ==
  ASSUME Framed, InStep, ValuesRead, Sound'
  PROVE  InStep'
<1>1. /\ todo # <<>> /\ Head(todo).op = "values" /\ Head(todo).op \in Inner
      /\ UNCHANGED wire /\ UNCHANGED <<rdNext, buffStop, contentLen, paddingLen>>
      /\ UNCHANGED isBeginProcessed
  BY DEF ValuesRead, Top, web, request, Inner
<1>2. OtherwiseAt /\ isClosed
  BY <1>1 DEF InStep, Placed, Told, Top
<1>3. Status("management")
  <2>1. Status("management") \/ Status("error")
    BY DEF ValuesRead, Answer
  <2>2. Status("error") => FCGI_errno'
    BY DEF Status
  <2> QED BY <2>1, <2>2 DEF Sound
<1>4. rdNext = stop /\ stop <= buffStop /\ stop + Remaining \in Ends
  BY <1>2 DEF OtherwiseAt
<1> QED BY <1>1, <1>3, <1>4, StatusStep

LEMMA BeginBodyReadStep ==
  ASSUME Framed, InStep, BeginBodyRead, Sound'
  PROVE  InStep'
<1>1. /\ todo # <<>> /\ Head(todo).op = "beginBody" /\ Head(todo).op \in Inner
      /\ UNCHANGED wire /\ UNCHANGED <<rdNext, buffStop, contentLen, paddingLen>>
  BY DEF BeginBodyRead, Top, web, Inner
<1>2. OtherwiseAt
  BY <1>1 DEF InStep, Placed, Top
<1>3. Status("error") => FCGI_errno'
  BY DEF Status
<1>4. Len(ret.bytes) = HeaderLen /\ Status("begin") /\ isBeginProcessed' = TRUE
  BY <1>3 DEF BeginBodyRead, Sound
<1>5. rdNext = stop /\ contentLen = 0
  BY <1>1, <1>4 DEF InStep, Counted, Top
<1>6. stop <= buffStop /\ stop + Remaining \in Ends
  BY <1>2 DEF OtherwiseAt
<1> QED BY <1>1, <1>4, <1>5, <1>6, StatusStep

(* What is changed by a call that only puts others in its place.           *)
Quiet ==
  /\ UNCHANGED wire /\ UNCHANGED <<rdNext, stop, buffStop, contentLen, paddingLen, skip, eorStop>>
  /\ UNCHANGED <<isClosed, isBeginProcessed, ret>>

LEMMA QuietStep ==
  ASSUME Framed, InStep, Quiet, Stack(todo', Bytes), OtherwiseAt, Told', Counted',
         todo' = <<>> \/ Head(todo').op \notin {"fill", "process"},
         Inside(todo') => Inside(todo), Waiting(todo') => Waiting(todo)
  PROVE  InStep'
<1>0. wire' = wire /\ Bytes' = Bytes /\ Ends' = Ends
  BY WireStays DEF Quiet
<1>1. Stack(todo, Bytes)'
  BY <1>0
<1>2. Ranges'
  BY <1>0 DEF InStep, Ranges, Quiet
<1>3. Placed'
  <2>1. OtherwiseAt'
    BY <1>0 DEF OtherwiseAt, Remaining, Quiet
  <2>2. ~Top("fill")' /\ ~Top("process")'
    BY DEF Top
  <2> QED BY <2>1, <2>2 DEF Placed
<1>4. Nested'
  BY DEF InStep, Nested, Quiet
<1> QED BY <1>1, <1>2, <1>3, <1>4 DEF InStep

LEMMA ProcessBeginRecordStep ==
  ASSUME Framed, InStep, ProcessBeginRecord
  PROVE  InStep'
<1> DEFINE c == [op |-> "getStr", n |-> HeaderLen, got |-> <<>>]
           d == [op |-> "beginBody"]
           t == Tail(todo)
<1>1. /\ todo # <<>> /\ Head(todo).op = "process" /\ Head(todo).op \in Inner
      /\ Head(todo).h.type # "badVersion" /\ contentLen = HeaderLen
      /\ Quiet
  BY DEF ProcessBeginRecord, Then, Top, Header, web, buffer, record, Inner, Quiet
<1>2. todo' = <<c, d>> \o t
  <2>1. todo' = (<<c>> \o <<d>>) \o t
    BY DEF ProcessBeginRecord, Then, GetStr
  <2> QED BY <2>1, PairOfCalls
<1>3. ProcessAt(Head(todo)) /\ Ranges /\ Stack(todo, Bytes)
  BY <1>1 DEF InStep, Placed, Top
<1>4. /\ Stack(t, Bytes) /\ ~Inside(t) /\ t # <<>> /\ t[1].op = "fill" /\ t[1].header = <<>>
      /\ Waiting(t) => Waiting(todo)
      /\ Inside(todo)
  <2>1. Inside(todo)
    <3>1. Head(todo) = todo[1] /\ Len(todo) \in Nat \ {0}
      BY <1>1, <1>3, StackTail
    <3>2. 1 \in 1 .. Len(todo)
      BY <3>1
    <3> QED BY <1>1, <3>1, <3>2 DEF Inside
  <2> QED BY <1>1, <1>3, <2>1, InnerReturns
<1>5. /\ FrameOK(c, Bytes) /\ c.op = "getStr" /\ c.n = HeaderLen /\ Len(c.got) = 0
      /\ FrameOK(d, Bytes) /\ d.op = "beginBody"
  <2>1. HeaderLen \in Nat /\ <<>> \in Seq(Bytes) /\ Len(<<>>) = 0
    BY LengthsAssumption
  <2> QED BY <2>1 DEF FrameOK
<1> HIDE DEF c, d, t
<1>6. IsPutTwo(todo', Bytes, c, d, t)
  <2>1. IF d.op \in Bottom THEN t = <<>> ELSE t # <<>> /\ Under(d, t[1])
    BY <1>4, <1>5 DEF Bottom, Under, Inner
  <2>2. (d.op \in Inner => ~Inside(t)) /\ (c.op \in Inner => ~Inside(t) /\ d.op \notin Inner)
    BY <1>4, <1>5 DEF Inner
  <2>3. c.op \notin Bottom /\ Under(c, d)
    BY <1>5 DEF Bottom, Under, Inner
  <2> QED BY <1>2, <1>4, <1>5, <2>1, <2>2, <2>3, StackPutTwo
<1>7. OtherwiseAt
  BY <1>1, <1>3 DEF ProcessAt, OtherwiseAt, Ranges
<1>8. Told' /\ Head(todo').op \notin {"fill", "process"}
  BY <1>5, <1>6 DEF Told, Top, IsPutTwo
<1>9. Counted'
  <2>1. Head(todo') = c
    BY <1>6 DEF IsPutTwo
  <2>2. stop' - rdNext' = 0
    BY <1>1, <1>3 DEF ProcessAt, Ranges, Quiet
  <2>3. Len(Head(todo').got) + (stop' - rdNext') + contentLen' = HeaderLen
    BY <1>1, <1>3, <1>5, <2>1, <2>2 DEF Quiet, Ranges
  <2> QED BY <1>5, <2>1, <2>3 DEF Counted, Top
<1>10. (Inside(todo') => Inside(todo)) /\ (Waiting(todo') => Waiting(todo))
  BY <1>4, <1>5, <1>6 DEF IsPutTwo
<1>11. Stack(todo', Bytes)
  BY <1>6 DEF IsPutTwo
<1> QED BY <1>1, <1>7, <1>8, <1>9, <1>10, <1>11, QuietStep

LEMMA GetValuesStep ==
  ASSUME Framed, InStep, GetValues
  PROVE  InStep'
<1> DEFINE c == [op |-> "readParams", step |-> "nameLen", name |-> <<>>, nameLen |-> 0,
                 valueLen |-> 0, pairs |-> <<>>]
           d == [op |-> "values"]
           t == Tail(todo)
<1>1. /\ todo # <<>> /\ Head(todo).op = "process" /\ Head(todo).op \in Inner
      /\ Head(todo).h.type # "badVersion"
      /\ Quiet
  BY DEF GetValues, Then, Top, Header, web, buffer, record, request, Inner, Quiet
<1>2. todo' = <<c, d>> \o t
  <2>1. todo' = (<<c>> \o <<d>>) \o t
    BY DEF GetValues, Then, ReadParams
  <2> QED BY <2>1, PairOfCalls
<1>3. ProcessAt(Head(todo)) /\ Ranges /\ Stack(todo, Bytes)
  BY <1>1 DEF InStep, Placed, Top
<1>4. /\ Stack(t, Bytes) /\ ~Inside(t) /\ t # <<>> /\ t[1].op = "fill" /\ t[1].header = <<>>
      /\ Waiting(t) => Waiting(todo)
      /\ Inside(todo)
  <2>1. Inside(todo)
    <3>1. Head(todo) = todo[1] /\ Len(todo) \in Nat \ {0}
      BY <1>1, <1>3, StackTail
    <3>2. 1 \in 1 .. Len(todo)
      BY <3>1
    <3> QED BY <1>1, <3>1, <3>2 DEF Inside
  <2> QED BY <1>1, <1>3, <2>1, InnerReturns
<1>5. FrameOK(c, Bytes) /\ c.op = "readParams" /\ FrameOK(d, Bytes) /\ d.op = "values"
  <2>1. <<>> \in Seq(Bytes) /\ <<>> \in Seq(Seq(Bytes) \X Seq(Bytes))
    OBVIOUS
  <2>2. c \in Parameters(Bytes)
    BY <2>1 DEF Parameters, Parts
  <2> QED BY <2>2 DEF FrameOK
<1> HIDE DEF c, d, t
<1>6. IsPutTwo(todo', Bytes, c, d, t)
  <2>1. IF d.op \in Bottom THEN t = <<>> ELSE t # <<>> /\ Under(d, t[1])
    BY <1>4, <1>5 DEF Bottom, Under, Inner
  <2>2. (d.op \in Inner => ~Inside(t)) /\ (c.op \in Inner => ~Inside(t) /\ d.op \notin Inner)
    BY <1>4, <1>5 DEF Inner
  <2>3. c.op \notin Bottom /\ Under(c, d)
    BY <1>5 DEF Bottom, Under, Inner
  <2> QED BY <1>2, <1>4, <1>5, <2>1, <2>2, <2>3, StackPutTwo
<1>7. OtherwiseAt
  BY <1>1, <1>3 DEF ProcessAt, OtherwiseAt, Ranges
<1>8. Told' /\ Counted' /\ Head(todo').op \notin {"fill", "process"}
  BY <1>5, <1>6 DEF Told, Counted, Top, IsPutTwo
<1>10. (Inside(todo') => Inside(todo)) /\ (Waiting(todo') => Waiting(todo))
  BY <1>4, <1>5, <1>6 DEF IsPutTwo
<1>11. Stack(todo', Bytes)
  BY <1>6 DEF IsPutTwo
<1> QED BY <1>1, <1>7, <1>8, <1>10, <1>11, QuietStep

-----------------------------------------------------------------------------
(* FCGX_GetStr and ReadParams.                                              *)

LEMMA GetStrStepStep ==
  ASSUME Framed, InStep, GetStrStep
  PROVE  InStep'
<1>0. wire' = wire /\ Bytes' = Bytes /\ Ends' = Ends /\ Len(wire) \in Nat
  BY WireStays DEF GetStrStep, web
<1> DEFINE call  == Head(todo)
           count == IF isClosed THEN 0 ELSE Least(call.n - Len(call.got), stop - rdNext)
           part  == SubSeq(wire, rdNext + 1, rdNext + count)
           got   == call.got \o part
           c     == [op |-> "fill", header |-> <<>>]
           d     == [call EXCEPT !.got = got]
           t     == Tail(todo)
<1>1. /\ todo # <<>> /\ Head(todo).op = "getStr"
      /\ rdNext' = rdNext + count /\ stop' = stop /\ buffStop' = buffStop
      /\ contentLen' = contentLen /\ paddingLen' = paddingLen /\ skip' = skip /\ eorStop' = eorStop
      /\ isClosed' = isClosed /\ isBeginProcessed' = isBeginProcessed
      /\ IF Len(got) = call.n \/ isClosed
         THEN todo' = t /\ ret'.bytes = got
         ELSE todo' = (<<c>> \o <<d>>) \o t /\ ret' = ret
  <2>1. /\ todo # <<>> /\ Head(todo).op = "getStr" /\ stop' = stop /\ buffStop' = buffStop
        /\ contentLen' = contentLen /\ paddingLen' = paddingLen /\ skip' = skip /\ eorStop' = eorStop
        /\ isClosed' = isClosed /\ isBeginProcessed' = isBeginProcessed
    BY DEF GetStrStep, Top, record, request
  <2>2. rdNext' = rdNext + count
    BY Zenon DEF GetStrStep
  <2>3. IF Len(got) = call.n \/ isClosed THEN Return(got) ELSE Then(FillBuffProc \o <<d>>)
    BY Zenon DEF GetStrStep
  <2> HIDE DEF got, call, d, count
  <2> QED BY <2>1, <2>2, <2>3 DEF Return, Then, FillBuffProc, call
<1>2. OtherwiseAt /\ Ranges /\ Stack(todo, Bytes)
  BY <1>1 DEF InStep, Placed, Top
<1>3. /\ call = todo[1] /\ Stack(t, Bytes) /\ FrameOK(call, Bytes)
      /\ Len(todo) > 1 /\ Under(call, todo[2]) /\ t # <<>> /\ t[1] = todo[2] /\ Head(t) = todo[2]
      /\ Len(t) \in Nat
      /\ Inside(t) => Inside(todo)
      /\ Waiting(t) => Waiting(todo)
  <2>1. /\ Head(todo) = todo[1] /\ Len(t) = Len(todo) - 1 /\ Len(todo) \in Nat \ {0}
        /\ \A i \in 1 .. Len(todo) - 1 : t[i] = todo[i + 1]
        /\ Stack(t, Bytes) /\ FrameOK(todo[1], Bytes)
        /\ Inside(t) => Inside(todo)
        /\ Waiting(t) => Waiting(todo)
        /\ IF todo[1].op \in Bottom THEN Len(todo) = 1 ELSE Len(todo) > 1 /\ Under(todo[1], todo[2])
    BY <1>1, <1>2, StackTail
  <2> HIDE DEF t
  <2>2. Len(todo) > 1 /\ Under(call, todo[2]) /\ call = todo[1]
    BY <1>1, <2>1 DEF Bottom
  <2>3. t # <<>> /\ t[1] = todo[2]
    <3>1. 1 \in 1 .. Len(todo) - 1 /\ 1 + 1 = 2
      BY <2>1, <2>2
    <3> QED BY <2>1, <3>1
  <2>4. Head(t) = t[1]
    BY <2>1, <2>3, StackTail
  <2> QED BY <2>1, <2>2, <2>3, <2>4
<1>4. /\ call \in [op : {"getStr"}, n : Nat, got : Seq(Bytes)] /\ Len(call.got) <= call.n
      /\ Len(call.got) \in Nat /\ call.n \in Nat
  BY <1>1, <1>3 DEF FrameOK
<1> HIDE DEF t, c, d, call
<1>5. /\ count \in Nat /\ count <= call.n - Len(call.got) /\ count <= stop - rdNext
      /\ isClosed => count = 0
      /\ ~isClosed /\ count # call.n - Len(call.got) => count = stop - rdNext
      /\ stop - rdNext \in Nat /\ rdNext + count \in Nat
  BY <1>2, <1>4 DEF Ranges, OtherwiseAt, Least
<1> HIDE DEF count
<1>6. part \in Seq(Bytes) /\ Len(part) = count
  <2>1. wire \in Seq(Bytes) /\ \A i \in rdNext + 1 .. rdNext + count : i \in 1 .. Len(wire)
    BY <1>0, <1>2, <1>5 DEF Framed, Ranges, OtherwiseAt
  <2>2. \A i \in rdNext + 1 .. rdNext + count : wire[i] \in Bytes
    BY <2>1
  <2> DEFINE m == rdNext + 1
             n == rdNext + count
  <2>3. m \in Int /\ n \in Int
    BY <1>2, <1>5 DEF Ranges
  <2> HIDE DEF m, n
  <2>4. /\ SubSeq(wire, m, n) \in Seq(Bytes)
        /\ Len(SubSeq(wire, m, n)) = IF m <= n THEN n - m + 1 ELSE 0
    BY <2>2, <2>3, SubSeqProperties DEF m, n
  <2>5. part = SubSeq(wire, m, n)
    BY DEF m, n
  <2> HIDE DEF part
  <2>6. Len(part) = count
    <3>1. m <= n => n - m + 1 = count
      BY <1>2, <1>5 DEF m, n, Ranges
    <3>2. ~(m <= n) => count = 0
      BY <1>2, <1>5 DEF m, n, Ranges
    <3> QED BY <2>4, <2>5, <3>1, <3>2
  <2> QED BY <2>4, <2>5, <2>6
<1> HIDE DEF part
<1>7. got \in Seq(Bytes) /\ Len(got) = Len(call.got) + count
  <2>1. call.got \in Seq(Bytes)
    BY <1>4
  <2>2. got \in Seq(Bytes) /\ Len(got) = Len(call.got) + Len(part)
    BY <1>6, <2>1, ConcatProperties, Zenon
  <2> QED BY <1>6, <2>2
<1> HIDE DEF got
<1>8. rdNext' \in Nat /\ rdNext' <= stop /\ stop <= buffStop /\ stop + Remaining \in Ends
  BY <1>1, <1>2, <1>5 DEF Ranges, OtherwiseAt
<1>9. CASE Len(got) = call.n \/ isClosed
  <2>1. todo' = t /\ ret'.bytes = got
    BY <1>1, <1>9
  <2>2. Stack(todo, Bytes)'
    BY <1>0, <1>3, <2>1
  <2>3. Ranges'
    BY <1>0, <1>1, <1>2, <1>7, <1>8, <2>1 DEF Ranges
  <2>4. /\ Head(todo') = todo[2] /\ todo' # <<>>
        /\ \/ todo[2].op = "beginBody" /\ call.n = HeaderLen
           \/ todo[2].op = "partRead" /\ call.n = Wanted(todo[2])
           \/ todo[2].op = "handler"
    BY <1>1, <1>3, <2>1 DEF Under, call
  <2>5. isClosed => rdNext' = stop /\ contentLen = 0
    BY <1>1, <1>2, <1>5 DEF OtherwiseAt, Ranges
  <2>6. Placed'
    <3>1. OtherwiseAt'
      BY <1>0, <1>1, <1>8, <2>5 DEF OtherwiseAt, Remaining
    <3>2. ~Top("fill")' /\ ~Top("process")'
      BY <2>4 DEF Top
    <3> QED BY <3>1, <3>2 DEF Placed
  <2>7. Nested'
    BY <1>1, <1>3, <2>1 DEF InStep, Nested
  <2>8. Told'
    BY <1>1, <1>9, <2>1, <2>4 DEF Told, Top
  <2>9. Counted'
    <3>1. ASSUME todo[2].op = "beginBody", Len(got) = HeaderLen PROVE rdNext' = stop' /\ contentLen' = 0
      <4>1. CASE isClosed
        BY <1>1, <2>5, <4>1
      <4>2. CASE ~isClosed
        <5>1. Len(call.got) + (stop - rdNext) + contentLen = HeaderLen
          BY <1>1, <3>1, <4>2 DEF InStep, Counted, Top, call
        <5>2. Len(call.got) + count = HeaderLen
          BY <1>7, <3>1
        <5> QED BY <1>1, <1>2, <1>4, <1>5, <5>1, <5>2 DEF Ranges
      <4> QED BY <4>1, <4>2
    <3> QED BY <2>1, <2>4, <3>1 DEF Counted, Top
  <2> QED BY <2>2, <2>3, <2>6, <2>7, <2>8, <2>9 DEF InStep
<1>10. CASE Len(got) # call.n /\ ~isClosed
  <2>1. todo' = <<c, d>> \o t /\ ret' = ret
    BY <1>1, <1>10, PairOfCalls
  <2>2. /\ c.op = "fill" /\ c.header = <<>> /\ FrameOK(c, Bytes)
        /\ d.op = "getStr" /\ d.got = got /\ d.n = call.n /\ FrameOK(d, Bytes)
        /\ Len(d.got) < d.n
    <3>1. c.op = "fill" /\ c.header = <<>> /\ FrameOK(c, Bytes)
      BY DEF c, FrameOK
    <3>2. d \in [op : {"getStr"}, n : Nat, got : Seq(Bytes)] /\ d.got = got /\ d.n = call.n
      BY <1>4, <1>7 DEF d
    <3>3. Len(got) < call.n
      BY <1>4, <1>5, <1>7, <1>10
    <3> QED BY <3>1, <3>2, <3>3 DEF FrameOK
  <2>3. IsPutTwo(todo', Bytes, c, d, t)
    <3>1. Under(d, t[1])
      BY <1>1, <1>3, <2>2 DEF Under, Inner, call
    <3>2. IF d.op \in Bottom THEN t = <<>> ELSE t # <<>> /\ Under(d, t[1])
      BY <1>3, <2>2, <3>1 DEF Bottom
    <3>3. (d.op \in Inner => ~Inside(t)) /\ (c.op \in Inner => ~Inside(t) /\ d.op \notin Inner)
      BY <2>2 DEF Inner
    <3>4. c.op \notin Bottom /\ Under(c, d)
      BY <2>2 DEF Bottom, Under, Inner
    <3> QED BY <1>3, <2>1, <2>2, <3>2, <3>3, <3>4, StackPutTwo
  <2>4. Stack(todo, Bytes)'
    BY <1>0, <2>3 DEF IsPutTwo
  <2>5. Ranges'
    BY <1>0, <1>1, <1>2, <1>8, <2>1 DEF Ranges
  <2>6. rdNext' = stop /\ count = stop - rdNext
    <3>1. count # call.n - Len(call.got)
      BY <1>4, <1>5, <1>7, <1>10
    <3> QED BY <1>1, <1>2, <1>5, <1>10, <3>1 DEF Ranges
  <2>7. Placed'
    <3>1. Head(todo').header = <<>> /\ Len(Head(todo').header) = 0 /\ HeaderLen > 0 /\ HeaderLen \in Nat
      BY <2>2, <2>3, LengthsAssumption DEF IsPutTwo
    <3>2. rdNext' - Len(Head(todo').header) + (contentLen' + paddingLen') \in Ends'
      <4>1. rdNext' - 0 + (contentLen' + paddingLen') = stop + (contentLen + paddingLen)
        BY <1>1, <1>2, <2>6 DEF Ranges
      <4> QED BY <1>0, <1>8, <3>1, <4>1 DEF Remaining
    <3>3. Head(todo').header = SubSeq(wire', rdNext' - Len(Head(todo').header) + 1, rdNext')
      <4>1. rdNext' \in Nat
        BY <1>8
      <4>2. SubSeq(wire', rdNext' - 0 + 1, rdNext') = <<>>
        BY <4>1, NothingTaken
      <4> QED BY <3>1, <4>2
    <3>4. ~isClosed' /\ rdNext' <= buffStop' /\ rdNext' \in Nat
      BY <1>1, <1>8, <1>10, <2>6
    <3>5. FillAt(Head(todo).header)'
      <4>1. Len(Head(todo').header) \in Nat /\ Len(Head(todo').header) < HeaderLen
            /\ Len(Head(todo').header) <= rdNext'
        BY <3>1, <3>4
      <4> QED BY <3>1, <3>2, <3>3, <3>4, <4>1 DEF FillAt, Remaining
    <3>6. Top("fill")' /\ ~Top("process")'
      BY <2>2, <2>3 DEF Top, IsPutTwo
    <3> QED BY <3>5, <3>6 DEF Placed
  <2>8. Nested'
    <3>1. t[1].op # "readRequest"
      BY <1>1, <1>3 DEF Under, call
    <3>2. (Inside(todo') => Inside(todo)) /\ (Waiting(todo') => Waiting(todo))
      BY <1>3, <2>2, <2>3, <3>1 DEF IsPutTwo, Inner
    <3> QED BY <1>1, <3>2 DEF InStep, Nested
  <2>9. Told'
    BY <2>2, <2>3 DEF Told, Top, IsPutTwo
  <2>10. Counted'
    <3>1. todo'[2] = d /\ Head(todo') = c
      BY <2>3 DEF IsPutTwo
    <3>2. todo'[3] = todo[2]
      <4>1. 1 \in 1 .. Len(t) /\ 1 + 2 = 3
        <5>1. Len(t) # 0
          BY <1>3 DEF Stack
        <5> QED BY <1>3, <5>1
      <4> QED BY <1>3, <2>3, <4>1 DEF IsPutTwo
    <3>3. ASSUME todo[2].op = "beginBody" PROVE Len(got) + contentLen' = HeaderLen
      <4>1. Len(call.got) + (stop - rdNext) + contentLen = HeaderLen
        BY <1>1, <1>10, <3>3 DEF InStep, Counted, Top, call
      <4> QED BY <1>1, <1>2, <1>4, <1>5, <1>7, <2>6, <4>1 DEF Ranges
    <3> QED BY <2>2, <3>1, <3>2, <3>3 DEF Counted, Top
  <2> QED BY <2>4, <2>5, <2>7, <2>8, <2>9, <2>10 DEF InStep
<1> QED BY <1>9, <1>10

LEMMA ReadPartStep ==
  ASSUME Framed, InStep, ReadPart
  PROVE  InStep'
<1> DEFINE p == Head(todo)
           c == [op |-> "getStr", n |-> Wanted(p), got |-> <<>>]
           d == [p EXCEPT !.op = "partRead"]
           t == Tail(todo)
<1>1. todo # <<>> /\ p.op = "readParams" /\ Quiet
  BY DEF ReadPart, Then, Top, web, buffer, record, request, Quiet
<1>2. todo' = <<c, d>> \o t
  <2>1. todo' = (<<c>> \o <<d>>) \o t
    BY DEF ReadPart, Then, GetStr
  <2> QED BY <2>1, PairOfCalls
<1>3. OtherwiseAt /\ Stack(todo, Bytes)
  BY <1>1 DEF InStep, Placed, Top
<1>4. /\ p = todo[1] /\ p \in Parameters(Bytes) /\ Stack(t, Bytes) /\ t # <<>> /\ Under(p, t[1])
      /\ (t[1].op = "values" \/ (t[1].op = "readRequest" /\ t[1].step = "params"))
      /\ Inside(t) => Inside(todo)
      /\ Waiting(t) => Waiting(todo)
  <2>1. /\ Head(todo) = todo[1] /\ Len(t) = Len(todo) - 1 /\ Len(todo) \in Nat \ {0}
        /\ \A i \in 1 .. Len(todo) - 1 : t[i] = todo[i + 1]
        /\ Stack(t, Bytes) /\ FrameOK(todo[1], Bytes)
        /\ Inside(t) => Inside(todo)
        /\ Waiting(t) => Waiting(todo)
        /\ IF todo[1].op \in Bottom THEN Len(todo) = 1 ELSE Len(todo) > 1 /\ Under(todo[1], todo[2])
    BY <1>1, <1>3, StackTail
  <2> HIDE DEF t
  <2>2. Len(todo) > 1 /\ Under(p, todo[2])
    BY <1>1, <2>1 DEF Bottom
  <2>3. t # <<>> /\ t[1] = todo[2]
    <3>1. 1 \in 1 .. Len(todo) - 1 /\ 1 + 1 = 2
      BY <2>1, <2>2
    <3> QED BY <2>1, <3>1
  <2>4. p \in Parameters(Bytes)
    BY <1>1, <2>1 DEF FrameOK
  <2>5. (t[1].op = "values" \/ (t[1].op = "readRequest" /\ t[1].step = "params"))
    <3>1. p.op = "readParams" \/ p.op = "partRead"
      BY <1>1
    <3> HIDE DEF p
    <3>2. todo[2].op = "values" \/ (todo[2].op = "readRequest" /\ todo[2].step = "params")
      BY <2>2, <3>1, Zenon DEF Under
    <3> QED BY <2>3, <3>2
  <2> QED BY <2>1, <2>2, <2>3, <2>4, <2>5
<1>5. /\ d \in Parameters(Bytes) /\ d.op = "partRead" /\ d.step = p.step
      /\ d.nameLen = p.nameLen /\ d.valueLen = p.valueLen
  BY <1>4 DEF Parameters
<1>6. Wanted(p) \in Nat /\ Wanted(d) = Wanted(p)
  <2>1. p.step \in Parts /\ p.nameLen \in Nat /\ p.valueLen \in Nat
    BY <1>4 DEF Parameters
  <2>2. ExtraLen \in Nat
    BY LengthsAssumption
  <2> HIDE DEF p, d
  <2> QED BY <1>5, <2>1, <2>2 DEF Wanted, Parts
<1>7. FrameOK(c, Bytes) /\ c.op = "getStr" /\ c.n = Wanted(d) /\ FrameOK(d, Bytes)
  <2>1. <<>> \in Seq(Bytes) /\ Len(<<>>) = 0
    OBVIOUS
  <2> HIDE DEF p, d
  <2>2. FrameOK(c, Bytes) /\ c.op = "getStr" /\ c.n = Wanted(d)
    BY <1>6, <2>1 DEF FrameOK
  <2> QED BY <1>5, <2>2 DEF FrameOK
<1> HIDE DEF p, c, d, t
<1>8. IsPutTwo(todo', Bytes, c, d, t)
  <2>1. IF d.op \in Bottom THEN t = <<>> ELSE t # <<>> /\ Under(d, t[1])
    BY <1>4, <1>5 DEF Bottom, Under, Inner
  <2>2. (d.op \in Inner => ~Inside(t)) /\ (c.op \in Inner => ~Inside(t) /\ d.op \notin Inner)
    BY <1>5, <1>7 DEF Inner
  <2>3. c.op \notin Bottom /\ Under(c, d)
    BY <1>5, <1>7 DEF Bottom, Under, Inner
  <2> QED BY <1>2, <1>4, <1>7, <2>1, <2>2, <2>3, StackPutTwo
<1>9. Told' /\ Counted' /\ Head(todo').op \notin {"fill", "process"}
  BY <1>5, <1>7, <1>8 DEF Told, Counted, Top, IsPutTwo
<1>10. (Inside(todo') => Inside(todo)) /\ (Waiting(todo') => Waiting(todo))
  BY <1>4, <1>5, <1>7, <1>8 DEF IsPutTwo, Inner
<1>11. Stack(todo', Bytes)
  BY <1>8 DEF IsPutTwo
<1> QED BY <1>1, <1>3, <1>9, <1>10, <1>11, QuietStep

(* What was read of a pair is of the kind it is kept as.                   *)
LEMMA AfterPartKept ==
  ASSUME NEW B, \A b \in B : b[2] \in Nat, NEW p \in Parameters(B), NEW bytes \in Seq(B),
         Len(bytes) = Wanted(p)
  PROVE  AfterPart(p, bytes) \in Parameters(B)
<1>1. p.step \in Parts
  BY DEF Parameters
<1>2. ASSUME p.step \in {"nameLen", "valueLen"} PROVE bytes[1][2] \in Nat
  <2>1. 1 \in 1 .. Len(bytes)
    BY <1>2 DEF Wanted
  <2> QED BY <2>1
<1>3. CASE p.step = "nameLen"
  BY <1>2, <1>3 DEF AfterPart, Parameters, Parts
<1>4. CASE p.step = "nameMore"
  BY <1>4 DEF AfterPart, Parameters, Parts
<1>5. CASE p.step = "valueLen"
  BY <1>2, <1>5 DEF AfterPart, Parameters, Parts
<1>6. CASE p.step = "valueMore"
  BY <1>6 DEF AfterPart, Parameters, Parts
<1>7. CASE p.step = "name"
  BY <1>7 DEF AfterPart, Parameters, Parts
<1>8. CASE p.step = "value"
  <2>1. <<p.name, bytes>> \in Seq(B) \X Seq(B) /\ p.pairs \in Seq(Seq(B) \X Seq(B))
    BY DEF Parameters
  <2>2. Append(p.pairs, <<p.name, bytes>>) \in Seq(Seq(B) \X Seq(B))
    BY <2>1, AppendProperties
  <2>3. AfterPart(p, bytes) = [p EXCEPT !.pairs = Append(@, <<p.name, bytes>>), !.step = "nameLen"]
    BY <1>8 DEF AfterPart
  <2> QED BY <2>2, <2>3 DEF Parameters, Parts
<1> QED BY <1>1, <1>3, <1>4, <1>5, <1>6, <1>7, <1>8 DEF Parts

LEMMA PartReadStep ==
  ASSUME Framed, InStep, PartRead
  PROVE  InStep'
<1> DEFINE p == Head(todo)
           c == [AfterPart(p, ret.bytes) EXCEPT !.op = "readParams"]
           t == Tail(todo)
<1>1. todo # <<>> /\ p.op = "partRead" /\ Quiet /\ Len(ret.bytes) = Wanted(p) /\ todo' = <<c>> \o t
  BY DEF PartRead, Then, Top, web, buffer, record, request, Quiet
<1>2. OtherwiseAt /\ Stack(todo, Bytes) /\ Ranges
  BY <1>1 DEF InStep, Placed, Top
<1>3. /\ p = todo[1] /\ p \in Parameters(Bytes) /\ Stack(t, Bytes) /\ t # <<>>
      /\ (t[1].op = "values" \/ (t[1].op = "readRequest" /\ t[1].step = "params"))
      /\ Inside(t) => Inside(todo)
      /\ Waiting(t) => Waiting(todo)
  <2>1. /\ Head(todo) = todo[1] /\ Len(t) = Len(todo) - 1 /\ Len(todo) \in Nat \ {0}
        /\ \A i \in 1 .. Len(todo) - 1 : t[i] = todo[i + 1]
        /\ Stack(t, Bytes) /\ FrameOK(todo[1], Bytes)
        /\ Inside(t) => Inside(todo)
        /\ Waiting(t) => Waiting(todo)
        /\ IF todo[1].op \in Bottom THEN Len(todo) = 1 ELSE Len(todo) > 1 /\ Under(todo[1], todo[2])
    BY <1>1, <1>2, StackTail
  <2> HIDE DEF t
  <2>2. Len(todo) > 1 /\ Under(p, todo[2])
    BY <1>1, <2>1 DEF Bottom
  <2>3. t # <<>> /\ t[1] = todo[2]
    <3>1. 1 \in 1 .. Len(todo) - 1 /\ 1 + 1 = 2
      BY <2>1, <2>2
    <3> QED BY <2>1, <3>1
  <2>4. p \in Parameters(Bytes)
    BY <1>1, <2>1 DEF FrameOK
  <2>5. (t[1].op = "values" \/ (t[1].op = "readRequest" /\ t[1].step = "params"))
    <3>1. p.op = "readParams" \/ p.op = "partRead"
      BY <1>1
    <3> HIDE DEF p
    <3>2. todo[2].op = "values" \/ (todo[2].op = "readRequest" /\ todo[2].step = "params")
      BY <2>2, <3>1, Zenon DEF Under
    <3> QED BY <2>3, <3>2
  <2> QED BY <2>1, <2>3, <2>4, <2>5
<1> HIDE DEF p, t
<1>4. c \in Parameters(Bytes) /\ c.op = "readParams"
  <2>1. \A b \in Bytes : b[2] \in Nat
    <3>1. \A i \in 1 .. Len(wire) : wire[i][2] \in Nat
      BY DEF Framed, FramedBy
    <3>2. DOMAIN wire = 1 .. Len(wire)
      BY DEF Framed
    <3> QED BY <3>1, <3>2 DEF Bytes, ToSet
  <2>2. ret.bytes \in Seq(Bytes)
    BY <1>2 DEF Ranges
  <2>3. AfterPart(p, ret.bytes) \in Parameters(Bytes)
    BY <1>1, <1>3, <2>1, <2>2, AfterPartKept
  <2> QED BY <2>3 DEF Parameters
<1> HIDE DEF c
<1>5. FrameOK(c, Bytes)
  BY <1>4 DEF FrameOK
<1>6. IsPut(todo', Bytes, c, t)
  <2>1. IF c.op \in Bottom THEN t = <<>> ELSE t # <<>> /\ Under(c, t[1])
    BY <1>3, <1>4 DEF Bottom, Under, Inner
  <2>2. c.op \in Inner => ~Inside(t)
    BY <1>4 DEF Inner
  <2> QED BY <1>1, <1>3, <1>5, <2>1, <2>2, StackPut
<1>7. Told' /\ Counted' /\ Head(todo').op \notin {"fill", "process"}
  BY <1>4, <1>6 DEF Told, Counted, Top, IsPut
<1>8. (Inside(todo') => Inside(todo)) /\ (Waiting(todo') => Waiting(todo))
  BY <1>3, <1>4, <1>6 DEF IsPut, Inner
<1>9. Stack(todo', Bytes)
  BY <1>6 DEF IsPut
<1> QED BY <1>1, <1>2, <1>7, <1>8, <1>9, QuietStep

LEMMA ParamsEndStep ==
  ASSUME Framed, InStep, ParamsEnd
  PROVE  InStep'
<1> DEFINE p == Head(todo)
           t == Tail(todo)
<1>0. wire' = wire /\ Bytes' = Bytes /\ Ends' = Ends
  BY WireStays DEF ParamsEnd, web
<1>1. /\ todo # <<>> /\ p.op = "partRead" /\ p.step = "nameLen" /\ ret.bytes = <<>>
      /\ todo' = t /\ ret'.bytes = <<>> /\ rdNext' = rdNext /\ stop' = stop /\ buffStop' = buffStop
      /\ contentLen' = contentLen /\ paddingLen' = paddingLen /\ skip' = skip /\ eorStop' = eorStop
      /\ isClosed' = isClosed /\ isBeginProcessed' = isBeginProcessed
  BY DEF ParamsEnd, ReturnParams, Top, buffer, record, request
<1>2. OtherwiseAt /\ Ranges /\ Stack(todo, Bytes)
  BY <1>1 DEF InStep, Placed, Top
<1>3. isClosed
  <2>1. Wanted(p) = 1 /\ Len(ret.bytes) = 0
    BY <1>1 DEF Wanted
  <2>2. Len(ret.bytes) # Wanted(p) => isClosed
    BY <1>1 DEF InStep, Told, Top
  <2> QED BY <2>1, <2>2
<1>4. /\ Stack(t, Bytes) /\ t # <<>> /\ Head(t) = todo[2] /\ Under(p, todo[2])
      /\ Inside(t) => Inside(todo)
      /\ Waiting(t) => Waiting(todo)
  <2>1. /\ Head(todo) = todo[1] /\ Len(t) = Len(todo) - 1 /\ Len(todo) \in Nat \ {0}
        /\ \A i \in 1 .. Len(todo) - 1 : t[i] = todo[i + 1]
        /\ Stack(t, Bytes)
        /\ Inside(t) => Inside(todo)
        /\ Waiting(t) => Waiting(todo)
        /\ IF todo[1].op \in Bottom THEN Len(todo) = 1 ELSE Len(todo) > 1 /\ Under(todo[1], todo[2])
    BY <1>1, <1>2, StackTail
  <2> HIDE DEF t
  <2>2. Len(todo) > 1 /\ Under(p, todo[2])
    BY <1>1, <2>1 DEF Bottom
  <2>3. t # <<>> /\ t[1] = todo[2]
    <3>1. 1 \in 1 .. Len(todo) - 1 /\ 1 + 1 = 2
      BY <2>1, <2>2
    <3> QED BY <2>1, <3>1
  <2>4. Head(t) = t[1]
    BY <2>1, <2>3, StackTail
  <2> QED BY <2>1, <2>2, <2>3, <2>4
<1> HIDE DEF p, t
<1>5. Head(todo').op = "values" \/ (Head(todo').op = "readRequest" /\ Head(todo').step = "params")
  BY <1>1, <1>4 DEF Under
<1>6. Stack(todo, Bytes)'
  BY <1>0, <1>1, <1>4
<1>7. Ranges'
  <2>1. <<>> \in Seq(Bytes)
    OBVIOUS
  <2> QED BY <1>0, <1>1, <1>2, <2>1 DEF Ranges
<1>8. Placed'
  <2>1. OtherwiseAt'
    BY <1>0, <1>1, <1>2 DEF OtherwiseAt, Remaining
  <2>2. ~Top("fill")' /\ ~Top("process")'
    BY <1>5 DEF Top
  <2> QED BY <2>1, <2>2 DEF Placed
<1>9. Nested'
  BY <1>1, <1>4 DEF InStep, Nested
<1>10. Told' /\ Counted'
  BY <1>1, <1>3, <1>5 DEF Told, Counted, Top
<1> QED BY <1>6, <1>7, <1>8, <1>9, <1>10 DEF InStep

-----------------------------------------------------------------------------
(* ReadRequest and the handler, with no other call under theirs.           *)

LEMMA BottomTail ==
  ASSUME NEW B, Stack(todo, B), todo # <<>>, Head(todo).op \in Bottom
  PROVE  Tail(todo) = <<>>
<1>1. Len(Tail(todo)) = 0 /\ Stack(Tail(todo), B)
  <2>1. /\ Head(todo) = todo[1] /\ Len(Tail(todo)) = Len(todo) - 1 /\ Len(todo) \in Nat \ {0}
        /\ Stack(Tail(todo), B)
        /\ IF todo[1].op \in Bottom THEN Len(todo) = 1 ELSE Len(todo) > 1 /\ Under(todo[1], todo[2])
    BY StackTail
  <2> QED BY <2>1
<1> DEFINE t == Tail(todo)
<1>2. \E F : t \in Seq(F)
  BY <1>1 DEF Stack
<1>3. Len(t) = 0
  BY <1>1
<1> HIDE DEF t
<1>4. t = <<>>
  BY <1>2, <1>3
<1> QED BY <1>4 DEF t

LEMMA AllReturned ==
  ASSUME todo' = <<>>, Ranges', OtherwiseAt', skip' => contentLen' > 0 /\ ~eorStop'
  PROVE  InStep'
<1>1. Stack(todo, Bytes)' /\ ~Inside(todo') /\ ~Waiting(todo')
  <2>1. Stack(<<>>, Bytes')
    BY EmptyStack
  <2> QED BY <2>1, EmptyStack
<1>2. Placed' /\ Told' /\ Counted'
  BY DEF Placed, Told, Counted, Top
<1>3. Nested'
  BY <1>1 DEF Nested
<1> QED BY <1>1, <1>2, <1>3 DEF InStep

(* A call of an operation with nothing under way.                          *)
LEMMA CallsOnBottom ==
  ASSUME NEW B, NEW c, NEW d, FrameOK(c, B), FrameOK(d, B), d.op \in Bottom,
         c.op \in {"getStr", "readParams"}, Under(c, d), todo' = <<c>> \o <<d>>,
         d.op = "readRequest" => d.step # "begin"
  PROVE  /\ Stack(todo', B) /\ todo' # <<>> /\ Head(todo') = c /\ todo'[2] = d
         /\ ~Inside(todo') /\ ~Waiting(todo')
<1>1. todo' = <<c, d>> \o <<>>
  <2>1. <<c, d>> \o <<>> = <<c, d>>
    <3> DEFINE G == {c, d}
    <3>1. c \in G /\ d \in G
      OBVIOUS
    <3> HIDE DEF G
    <3>2. <<c, d>> \in Seq(G)
      BY <3>1
    <3> QED BY <3>2, ConcatEmptySeq
  <2> QED BY <2>1, PairOfCalls
<1>2. Stack(<<>>, B) /\ ~Inside(<<>>) /\ ~Waiting(<<>>)
  BY EmptyStack
<1>3. c.op \notin Bottom /\ c.op \notin Inner /\ d.op \notin Inner
  BY DEF Bottom, Inner
<1>4. IsPutTwo(todo', B, c, d, <<>>)
  <2>1. IF d.op \in Bottom THEN <<>> = <<>> ELSE <<>> # <<>> /\ Under(d, <<>>[1])
    OBVIOUS
  <2>2. (d.op \in Inner => ~Inside(<<>>)) /\ (c.op \in Inner => ~Inside(<<>>) /\ d.op \notin Inner)
    BY <1>3
  <2> HIDE DEF Inside
  <2>3. IsPutTwo(<<c, d>> \o <<>>, B, c, d, <<>>)
    BY <1>2, <1>3, <2>1, <2>2, StackPutTwo
  <2> QED BY <1>1, <2>3
<1> QED BY <1>2, <1>3, <1>4 DEF IsPutTwo

LEMMA ReadBeginStep ==
  ASSUME Framed, InStep, ReadBegin, Sound'
  PROVE  InStep'
<1>0. wire' = wire /\ Bytes' = Bytes /\ Ends' = Ends
  BY WireStays DEF ReadBegin, web
<1>1. /\ todo # <<>> /\ Head(todo).op = "readRequest" /\ Head(todo).step = "begin"
      /\ isBeginProcessed' = isBeginProcessed
  BY DEF ReadBegin, Top, request
<1>2. OtherwiseAt /\ Ranges /\ Stack(todo, Bytes)
  BY <1>1 DEF InStep, Placed, Top
<1>3. Tail(todo) = <<>>
  BY <1>1, <1>2, BottomTail DEF Bottom
<1>4. CASE ~isBeginProcessed \/ role = "other"
  <2>1. /\ todo' = <<>> /\ ret'.bytes = <<>> /\ rdNext' = rdNext /\ stop' = stop /\ buffStop' = buffStop
        /\ contentLen' = contentLen /\ paddingLen' = paddingLen /\ skip' = skip /\ eorStop' = eorStop
        /\ isClosed' = isClosed
    <3>1. Refuse
      BY <1>4, Zenon DEF ReadBegin
    <3> QED BY <1>3, <3>1 DEF Refuse, Return, buffer, record
  <2>2. Ranges'
    <3>1. <<>> \in Seq(Bytes)
      OBVIOUS
    <3> QED BY <1>0, <1>1, <1>2, <2>1, <3>1 DEF Ranges
  <2>3. OtherwiseAt'
    BY <1>0, <1>2, <2>1 DEF OtherwiseAt, Remaining
  <2> QED BY <2>1, <2>2, <2>3, AllReturned DEF InStep, Nested
<1>5. CASE isBeginProcessed /\ role # "other"
  <2> DEFINE c == [op |-> "readParams", step |-> "nameLen", name |-> <<>>, nameLen |-> 0,
                   valueLen |-> 0, pairs |-> <<>>]
             d == [op |-> "readRequest", step |-> "params"]
  <2>1. /\ rdNext' = rdNext /\ buffStop' = buffStop /\ ret' = ret
        /\ eorStop' = FALSE /\ skip' = FALSE /\ contentLen' = 0 /\ paddingLen' = 0
        /\ stop' = rdNext /\ isClosed' = FALSE
        /\ mixedUp' = (mixedUp \/ paddingLen > 0)
        /\ todo' = (<<c>> \o <<d>>) \o Tail(todo)
    BY <1>5 DEF ReadBegin, SetReaderType, Then, ReadParams
  <2>2. todo' = <<c>> \o <<d>>
    <3>1. <<c, d>> \o <<>> = <<c, d>>
      <4> DEFINE G == {c, d}
      <4>1. c \in G /\ d \in G
        OBVIOUS
      <4> HIDE DEF G, c, d
      <4>2. <<c, d>> \in Seq(G)
        BY <4>1
      <4> QED BY <4>2, ConcatEmptySeq
    <3> HIDE DEF c, d
    <3> QED BY <1>3, <2>1, <3>1, PairOfCalls
  <2>3. rdNext = stop /\ contentLen = 0 /\ paddingLen = 0
    <3>1. ~(paddingLen > 0)
      BY <2>1, Zenon DEF Sound
    <3>2. rdNext = stop /\ contentLen = 0
      BY <1>1, <1>5 DEF InStep, Told, Top
    <3> QED BY <1>2, <3>1, <3>2 DEF Ranges
  <2>4. /\ FrameOK(c, Bytes) /\ c.op = "readParams" /\ FrameOK(d, Bytes)
        /\ d.op = "readRequest" /\ d.step = "params"
    <3>1. <<>> \in Seq(Bytes) /\ <<>> \in Seq(Seq(Bytes) \X Seq(Bytes))
      OBVIOUS
    <3>2. c \in Parameters(Bytes)
      BY <3>1 DEF Parameters, Parts
    <3> QED BY <3>2 DEF FrameOK
  <2> HIDE DEF c, d
  <2>5. /\ Stack(todo', Bytes) /\ todo' # <<>> /\ Head(todo') = c
        /\ ~Inside(todo') /\ ~Waiting(todo')
    BY <2>2, <2>4, CallsOnBottom DEF Bottom, Under, Inner
  <2>6. Ranges'
    BY <1>0, <1>1, <1>2, <2>1 DEF Ranges
  <2>7. Placed'
    <3>1. stop' + (contentLen' + paddingLen') = stop + (contentLen + paddingLen)
      BY <2>1, <2>3
    <3>2. OtherwiseAt'
      BY <1>0, <1>2, <2>1, <2>3, <3>1 DEF OtherwiseAt, Remaining, Ranges
    <3>3. ~Top("fill")' /\ ~Top("process")'
      BY <2>4, <2>5 DEF Top
    <3> QED BY <3>2, <3>3 DEF Placed
  <2>8. Nested' /\ Told' /\ Counted'
    BY <2>1, <2>4, <2>5 DEF Nested, Told, Counted, Top
  <2>9. Stack(todo, Bytes)'
    BY <1>0, <2>5
  <2> QED BY <2>6, <2>7, <2>8, <2>9 DEF InStep
<1> QED BY <1>2, <1>4, <1>5 DEF Ranges

LEMMA ReadRequestStep ==
  ASSUME Framed, InStep, ReadRequest, Sound'
  PROVE  InStep'
<1>0. wire' = wire /\ Bytes' = Bytes /\ Ends' = Ends
  BY WireStays DEF ReadRequest, web
<1>1. /\ todo # <<>> /\ Head(todo).op = "readRequest" /\ Head(todo).step = "params"
      /\ isBeginProcessed' = isBeginProcessed
  BY DEF ReadRequest, Top, request
<1>2. OtherwiseAt /\ Ranges /\ Stack(todo, Bytes)
  BY <1>1 DEF InStep, Placed, Top
<1>3. Tail(todo) = <<>> /\ <<>> \in Seq(Bytes)
  BY <1>1, <1>2, BottomTail DEF Bottom
<1>4. CASE ~ret.ok
  <2>1. /\ todo' = <<>> /\ ret'.bytes = <<>> /\ rdNext' = rdNext /\ stop' = stop /\ buffStop' = buffStop
        /\ contentLen' = contentLen /\ paddingLen' = paddingLen /\ skip' = skip /\ eorStop' = eorStop
        /\ isClosed' = isClosed
    <3>1. Refuse
      BY <1>4, Zenon DEF ReadRequest
    <3> QED BY <1>3, <3>1 DEF Refuse, Return, buffer, record
  <2>2. Ranges'
    BY <1>0, <1>1, <1>2, <1>3, <2>1 DEF Ranges
  <2>3. OtherwiseAt'
    BY <1>0, <1>2, <2>1 DEF OtherwiseAt, Remaining
  <2> QED BY <2>1, <2>2, <2>3, AllReturned DEF InStep, Nested
<1>5. CASE ret.ok
  <2>1. /\ rdNext' = rdNext /\ buffStop' = buffStop /\ ret'.bytes = <<>>
        /\ eorStop' = FALSE /\ skip' = FALSE /\ contentLen' = 0 /\ paddingLen' = 0
        /\ stop' = rdNext /\ isClosed' = FALSE
        /\ mixedUp' = (mixedUp \/ paddingLen > 0)
        /\ todo' = <<>>
    <3>1. SetReaderType("stdin") /\ Return(<<>>) /\ UNCHANGED <<rdNext, buffStop>>
      BY <1>5, Zenon DEF ReadRequest
    <3> QED BY <1>3, <3>1 DEF SetReaderType, Return
  <2>2. rdNext = stop /\ contentLen = 0 /\ paddingLen = 0
    <3>1. ~(paddingLen > 0)
      BY <2>1, Zenon DEF Sound
    <3>2. isClosed
      BY <1>1, <1>5 DEF InStep, Told, Top
    <3> QED BY <1>2, <3>1, <3>2 DEF Ranges, OtherwiseAt
  <2>3. Ranges'
    BY <1>0, <1>1, <1>2, <1>3, <2>1 DEF Ranges
  <2>4. OtherwiseAt'
    <3>1. stop' + (contentLen' + paddingLen') = stop + (contentLen + paddingLen)
      BY <2>1, <2>2
    <3> QED BY <1>0, <1>2, <2>1, <2>2, <3>1 DEF OtherwiseAt, Remaining, Ranges
  <2> QED BY <2>1, <2>3, <2>4, AllReturned
<1> QED BY <1>4, <1>5

LEMMA CallGetStrStep ==
  ASSUME Framed, InStep, NEW n \in GetSizes, CallGetStr(n)
  PROVE  InStep'
<1> DEFINE c == [op |-> "getStr", n |-> n, got |-> <<>>]
           d == [op |-> "handler", n |-> n]
<1>1. todo = <<>> /\ Quiet /\ todo' = <<c>> \o <<d>>
  BY DEF CallGetStr, GetStr, web, buffer, record, request, Quiet
<1>2. OtherwiseAt
  BY <1>1 DEF InStep, Placed, Top
<1>3. FrameOK(c, Bytes) /\ c.op = "getStr" /\ FrameOK(d, Bytes) /\ d.op = "handler"
  <2>1. n \in Nat /\ <<>> \in Seq(Bytes) /\ Len(<<>>) = 0
    BY LengthsAssumption
  <2> QED BY <2>1 DEF FrameOK
<1> HIDE DEF c, d
<1>4. /\ Stack(todo', Bytes) /\ todo' # <<>> /\ Head(todo') = c /\ todo'[2] = d
      /\ ~Inside(todo') /\ ~Waiting(todo')
  BY <1>1, <1>3, CallsOnBottom DEF Bottom, Under, Inner
<1>5. Told' /\ Counted'
  BY <1>3, <1>4 DEF Told, Counted, Top
<1> QED BY <1>1, <1>2, <1>3, <1>4, <1>5, QuietStep

LEMMA GotStrStep ==
  ASSUME Framed, InStep, GotStr
  PROVE  InStep'
<1>0. wire' = wire /\ Bytes' = Bytes /\ Ends' = Ends
  BY WireStays DEF GotStr, web
<1>1. /\ todo # <<>> /\ Head(todo).op = "handler" /\ todo' = Tail(todo) /\ ret'.bytes = <<>>
      /\ rdNext' = rdNext /\ stop' = stop /\ buffStop' = buffStop
      /\ contentLen' = contentLen /\ paddingLen' = paddingLen /\ skip' = skip /\ eorStop' = eorStop
      /\ isClosed' = isClosed /\ isBeginProcessed' = isBeginProcessed
  BY DEF GotStr, Return, Top, buffer, record, request
<1>2. OtherwiseAt /\ Ranges /\ Stack(todo, Bytes)
  BY <1>1 DEF InStep, Placed, Top
<1>3. Tail(todo) = <<>> /\ <<>> \in Seq(Bytes)
  BY <1>1, <1>2, BottomTail DEF Bottom
<1>4. Ranges'
  BY <1>0, <1>1, <1>2, <1>3 DEF Ranges
<1>5. OtherwiseAt'
  BY <1>0, <1>1, <1>2 DEF OtherwiseAt, Remaining
<1> QED BY <1>1, <1>3, <1>4, <1>5, AllReturned DEF InStep, Nested

-----------------------------------------------------------------------------
(* The invariant holds.                                                     *)

LEMMA InitInv ==
  ASSUME Init
  PROVE  IInv
<1> DEFINE c == [op |-> "fill", header |-> <<>>]
           d == [op |-> "readRequest", step |-> "begin"]
<1>1. Framed
  <2> DEFINE recs == sent.records
             w == FlattenSeq([i \in DOMAIN recs |-> RecordBytes(recs[i])])
  <2>1. sent \in Requests /\ wire = w
    BY Zenon DEF Init
  <2>2. w \in Seq(ToSet(w)) /\ \E E : FramedBy(w, E)
    BY <2>1, WireIsFramed
  <2> HIDE DEF w
  <2> QED BY <2>1, <2>2 DEF Framed, Bytes, Ends
<1>2. /\ rdNext = 0 /\ stop = 0 /\ buffStop = 0
      /\ contentLen = 0 /\ paddingLen = 0 /\ skip = FALSE /\ eorStop = FALSE
      /\ isClosed = FALSE /\ isBeginProcessed = FALSE
      /\ todo = <<c>> \o <<d>> /\ ret.bytes = <<>>
  BY DEF Init, FillBuffProc
<1>3. /\ FrameOK(c, Bytes) /\ c.op = "fill" /\ c.header = <<>>
      /\ FrameOK(d, Bytes) /\ d.op = "readRequest" /\ d.step = "begin"
  BY DEF FrameOK
<1> HIDE DEF c, d
<1>4. Stack(todo, Bytes) /\ todo # <<>> /\ Head(todo) = c /\ todo[2] = d /\ ~Inside(todo)
  <2>1. Stack(<<>>, Bytes) /\ ~Inside(<<>>) /\ ~Waiting(<<>>)
    BY EmptyStack
  <2>2. IsPut(<<d>> \o <<>>, Bytes, d, <<>>)
    <3>1. IF d.op \in Bottom THEN <<>> = <<>> ELSE <<>> # <<>> /\ Under(d, <<>>[1])
      BY <1>3 DEF Bottom
    <3>2. d.op \in Inner => ~Inside(<<>>)
      BY <2>1
    <3> HIDE DEF Inside
    <3> QED BY <1>3, <2>1, <3>1, <3>2, StackPut
  <2>3. <<d>> \o <<>> = <<d>>
    <3> DEFINE G == {d}
    <3>1. d \in G
      OBVIOUS
    <3> HIDE DEF G
    <3>2. <<d>> \in Seq(G)
      BY <3>1
    <3> QED BY <3>2, ConcatEmptySeq
  <2> DEFINE u == <<d>>
  <2>4. Stack(u, Bytes) /\ u # <<>> /\ u[1] = d /\ Len(u) = 1 /\ ~Inside(u)
    BY <1>3, <2>1, <2>2, <2>3 DEF IsPut, Inner
  <2>5. todo = <<c>> \o u
    BY <1>2
  <2> HIDE DEF u
  <2>6. IsPut(todo, Bytes, c, u)
    <3>1. IF c.op \in Bottom THEN u = <<>> ELSE u # <<>> /\ Under(c, u[1])
      BY <1>3, <2>4 DEF Bottom, Under, Inner
    <3>2. c.op \in Inner => ~Inside(u)
      BY <2>4
    <3> QED BY <1>3, <2>4, <2>5, <3>1, <3>2, StackPut
  <2>7. todo[2] = d
    <3>1. 1 \in 1 .. Len(u) /\ 1 + 1 = 2
      BY <2>4
    <3> QED BY <2>4, <2>6, <3>1 DEF IsPut
  <2> QED BY <1>3, <2>4, <2>6, <2>7 DEF IsPut, Inner
<1>5. Ranges
  <2>1. <<>> \in Seq(Bytes) /\ Len(wire) \in Nat
    BY <1>1 DEF Framed
  <2>2. ret.bytes \in Seq(Bytes) /\ buffStop \in 0 .. Len(wire)
    BY <1>2, <2>1
  <2> QED BY <1>2, <2>2 DEF Ranges
<1>6. Placed
  <2>1. 0 \in Ends
    BY <1>1 DEF Framed, FramedBy
  <2>2. Head(todo).header = <<>> /\ Len(Head(todo).header) = 0 /\ HeaderLen > 0 /\ HeaderLen \in Nat
    BY <1>3, <1>4, LengthsAssumption
  <2>3. SubSeq(wire, 0 - 0 + 1, 0) = <<>>
    BY NothingTaken
  <2>4. FillAt(Head(todo).header)
    <3>1. rdNext - Len(Head(todo).header) + (contentLen + paddingLen) = 0
      BY <1>2, <2>2
    <3>2. Head(todo).header = SubSeq(wire, rdNext - Len(Head(todo).header) + 1, rdNext)
      BY <1>2, <2>2, <2>3
    <3> QED BY <1>2, <2>1, <2>2, <3>1, <3>2 DEF FillAt, Remaining
  <2>5. Top("fill") /\ ~Top("process")
    BY <1>3, <1>4 DEF Top
  <2> QED BY <2>4, <2>5 DEF Placed
<1>7. Nested /\ Told /\ Counted
  BY <1>2, <1>3, <1>4 DEF Nested, Told, Counted, Top
<1> QED BY <1>1, <1>4, <1>5, <1>6, <1>7 DEF IInv, InStep

(* An error or a mix-up is never forgotten, and no step sends anything.    *)
LEMMA SoundBefore ==
  ASSUME [Next]_vars, Sound'
  PROVE  Sound /\ UNCHANGED wire
<1> USE DEF web, buffer, record, request, handler, Sound
<1>1. CASE OSRead
  BY <1>1 DEF OSRead
<1>2. CASE OSReadFails
  BY <1>2 DEF OSReadFails, SetError
<1>3. CASE Deliver
  BY <1>3 DEF Deliver
<1>4. CASE SkipRecord
  BY <1>4 DEF SkipRecord
<1>5. CASE EndOfRecord
  BY <1>5 DEF EndOfRecord
<1>6. CASE FillHeader
  BY <1>6 DEF FillHeader
<1>7. CASE CallProcessHeader
  BY <1>7 DEF CallProcessHeader
<1>8. CASE ProcessHeader
  <2>1. BadVersion => Sound /\ UNCHANGED wire
    BY DEF BadVersion, Status
  <2>2. BeginMalformed => Sound /\ UNCHANGED wire
    BY DEF BeginMalformed, Status
  <2>3. BeginAgain => Sound /\ UNCHANGED wire
    <3>1. BeginAgain => UNCHANGED mixedUp /\ UNCHANGED wire
      BY Zenon DEF BeginAgain
    <3>2. BeginAgain => \E b \in BOOLEAN : FCGI_errno' = (FCGI_errno \/ b)
      BY DEF BeginAgain, Answer, Status
    <3>3. QED
      BY <3>1, <3>2, Zenon
  <2>4. ProcessBeginRecord => Sound /\ UNCHANGED wire
    BY DEF ProcessBeginRecord
  <2>5. GetValues => Sound /\ UNCHANGED wire
    BY DEF GetValues
  <2>6. UnknownManagement => Sound /\ UNCHANGED wire
    BY DEF UnknownManagement, Answer, Status
  <2>7. StreamRecord => Sound /\ UNCHANGED wire
    BY DEF StreamRecord, Status
  <2> QED BY <1>8, <2>1, <2>2, <2>3, <2>4, <2>5, <2>6, <2>7 DEF ProcessHeader
<1>9. CASE BeginBodyRead
  BY <1>9 DEF BeginBodyRead, Status
<1>10. CASE ValuesRead
  BY <1>10 DEF ValuesRead, Answer, Status
<1>11. CASE GetStrStep
  BY <1>11 DEF GetStrStep
<1>12. CASE ReadPart
  BY <1>12 DEF ReadPart
<1>13. CASE PartRead
  BY <1>13 DEF PartRead
<1>14. CASE ParamsEnd
  BY <1>14 DEF ParamsEnd
<1>15. CASE PartMissing
  BY <1>15 DEF PartMissing, SetError
<1>16. CASE ReadBegin
  BY <1>16 DEF ReadBegin, Refuse, SetReaderType
<1>17. CASE ReadRequest
  BY <1>17 DEF ReadRequest, Refuse, SetReaderType
<1>18. CASE GotStr
  BY <1>18 DEF GotStr
<1>19. CASE \E n \in GetSizes : CallGetStr(n)
  BY <1>19 DEF CallGetStr
<1>20. CASE Over
  BY <1>20 DEF Over, vars
<1>21. CASE UNCHANGED vars
  BY <1>21 DEF vars
<1> QED BY <1>1, <1>2, <1>3, <1>4, <1>5, <1>6, <1>7, <1>8, <1>9, <1>10, <1>11, <1>12, <1>13, <1>14,
           <1>15, <1>16, <1>17, <1>18, <1>19, <1>20, <1>21 DEF Next, Library

LEMMA NextInv ==
  ASSUME IInv, [Next]_vars
  PROVE  IInv'
<1>1. Framed /\ UNCHANGED wire => Framed'
  BY WireStays
<1>2. CASE ~Sound'
  <2>1. UNCHANGED wire
    BY DEF Next, Library, ProcessHeader, Over, vars, web, OSRead, OSReadFails, Deliver, SkipRecord,
           EndOfRecord, FillHeader, CallProcessHeader, BadVersion, BeginMalformed, BeginAgain,
           ProcessBeginRecord, GetValues, UnknownManagement, StreamRecord, BeginBodyRead, ValuesRead,
           GetStrStep, ReadPart, PartRead, ParamsEnd, PartMissing, ReadBegin, ReadRequest, GotStr,
           CallGetStr
  <2> QED BY <1>1, <1>2, <2>1 DEF IInv
<1>3. CASE Sound'
  <2>1. Sound /\ UNCHANGED wire /\ Framed /\ InStep
    BY <1>3, SoundBefore DEF IInv
  <2>2. InStep'
    <3>1. CASE OSRead
      BY <2>1, <3>1, OSReadStep
    <3>2. CASE OSReadFails
      BY <1>3, <3>2 DEF OSReadFails, SetError, Sound
    <3>3. CASE Deliver
      BY <2>1, <3>3, DeliverStep
    <3>4. CASE SkipRecord
      BY <2>1, <3>4, SkipRecordStep
    <3>5. CASE EndOfRecord
      BY <2>1, <3>5, EndOfRecordStep
    <3>6. CASE FillHeader
      BY <2>1, <3>6, FillHeaderStep
    <3>7. CASE CallProcessHeader
      BY <2>1, <3>7, CallProcessHeaderStep
    <3>8. CASE ProcessHeader
      <4>1. ~BadVersion /\ ~BeginMalformed
        BY <1>3 DEF BadVersion, BeginMalformed, Status, Sound
      <4>2. CASE BeginAgain
        BY <1>3, <2>1, <4>2, BeginAgainStep
      <4>3. CASE ProcessBeginRecord
        BY <2>1, <4>3, ProcessBeginRecordStep
      <4>4. CASE GetValues
        BY <2>1, <4>4, GetValuesStep
      <4>5. CASE UnknownManagement
        BY <1>3, <2>1, <4>5, UnknownManagementStep
      <4>6. CASE StreamRecord
        BY <1>3, <2>1, <4>6, StreamRecordStep
      <4> QED BY <3>8, <4>1, <4>2, <4>3, <4>4, <4>5, <4>6 DEF ProcessHeader
    <3>9. CASE BeginBodyRead
      BY <1>3, <2>1, <3>9, BeginBodyReadStep
    <3>10. CASE ValuesRead
      BY <1>3, <2>1, <3>10, ValuesReadStep
    <3>11. CASE GetStrStep
      BY <2>1, <3>11, GetStrStepStep
    <3>12. CASE ReadPart
      BY <2>1, <3>12, ReadPartStep
    <3>13. CASE PartRead
      BY <2>1, <3>13, PartReadStep
    <3>14. CASE ParamsEnd
      BY <2>1, <3>14, ParamsEndStep
    <3>15. CASE PartMissing
      BY <1>3, <3>15 DEF PartMissing, SetError, Sound
    <3>16. CASE ReadBegin
      BY <1>3, <2>1, <3>16, ReadBeginStep
    <3>17. CASE ReadRequest
      BY <1>3, <2>1, <3>17, ReadRequestStep
    <3>18. CASE GotStr
      BY <2>1, <3>18, GotStrStep
    <3>19. CASE \E n \in GetSizes : CallGetStr(n)
      BY <2>1, <3>19, CallGetStrStep
    <3>20. CASE UNCHANGED vars
      <4>1. /\ UNCHANGED <<wire, rdNext, stop, buffStop, contentLen, paddingLen, skip, eorStop>>
            /\ UNCHANGED <<isClosed, isBeginProcessed, todo, ret>>
        BY <3>20 DEF vars, web, buffer, record, request
      <4>2. Bytes' = Bytes /\ Ends' = Ends
        BY <4>1 DEF Bytes, Ends
      <4>3. Stack(todo, Bytes)' /\ Nested' /\ Told' /\ Counted'
        BY <2>1, <4>1, <4>2 DEF InStep, Nested, Told, Counted, Top
      <4>4. Ranges'
        BY <2>1, <4>1, <4>2 DEF InStep, Ranges
      <4>5. Placed'
        BY <2>1, <4>1, <4>2 DEF InStep, Placed, Top, FillAt, ProcessAt, OtherwiseAt, Remaining
      <4> QED BY <4>3, <4>4, <4>5 DEF InStep
    <3> QED BY <3>1, <3>2, <3>3, <3>4, <3>5, <3>6, <3>7, <3>8, <3>9, <3>10, <3>11, <3>12, <3>13, <3>14,
               <3>15, <3>16, <3>17, <3>18, <3>19, <3>20 DEF Next, Library, Over
  <2> QED BY <1>1, <2>1, <2>2 DEF IInv
<1> QED BY <1>2, <1>3

LEMMA InvGives ==
  ASSUME IInv
  PROVE  HeadersAreHeaders
<1> SUFFICES ASSUME Sound, NEW i \in DOMAIN todo, todo[i].op = "process" PROVE todo[i].framed
  BY DEF HeadersAreHeaders, Sound
<1>1. InStep
  BY DEF IInv
<1>2. i \in 1 .. Len(todo) /\ todo # <<>> /\ Head(todo) = todo[1] /\ Len(todo) \in Nat
  <2>1. PICK F : todo \in Seq(F)
    BY <1>1 DEF InStep, Stack
  <2> QED BY <2>1
<1>3. i = 1
  <2> SUFFICES ASSUME i # 1 PROVE FALSE
    OBVIOUS
  <2> DEFINE j == i - 1
  <2>1. j \in 1 .. Len(todo) /\ j + 1 = i /\ j # Len(todo)
    BY <1>2
  <2> HIDE DEF j
  <2>2. todo[j].op \notin Bottom /\ Under(todo[j], todo[i]) /\ FrameOK(todo[j], Bytes)
    BY <1>1, <2>1 DEF InStep, Stack
  <2> QED BY <2>2 DEF Under, FrameOK, Bottom, Inner
<1>4. ProcessAt(Head(todo))
  BY <1>1, <1>2, <1>3 DEF InStep, Placed, Top
<1> QED BY <1>2, <1>3, <1>4 DEF ProcessAt

(* However the bytes of a request are cut into records and into reads, and *)
(* whatever other records are in between, FillBuffProc gives ProcessHeader *)
(* a header that the web server put there, until there was an error or one *)
(* of the three mix-ups that HeadersAreHeaders names.                      *)
THEOREM HeadersAreFound == Spec => []HeadersAreHeaders
<1>1. Init => IInv
  BY InitInv
<1>2. IInv /\ [Next]_vars => IInv'
  BY NextInv
<1>3. IInv => HeadersAreHeaders
  BY InvGives
<1> QED BY <1>1, <1>2, <1>3, PTL DEF Spec

=============================================================================
