-------------------------- MODULE MultipartParser --------------------------
(***************************************************************************)
(* Server/MultipartParser.h: the incremental parser of multipart/form-data *)
(* bodies.  feed() is given the body in pieces of any length; it works on  *)
(* copies of the members state, flags and index, which it writes back only *)
(* when it reaches the end of the piece, while the marks and lookbehind    *)
(* are the members themselves.  One action handles one byte.               *)
(***************************************************************************)
EXTENDS MultipartHandler

CONSTANT
  MaxFailures     (* bound: calls of write() and mkstemp() that fail        *)

VARIABLES
  parser,         (* the members of MultipartParser                         *)
  feed,           (* the locals of feed(), and the piece it was given       *)
  form,           (* reader and handler, to whom the callbacks go           *)
  failures

parse == <<parser, feed, form, failures>>

boundary     == parser.boundary
boundarySize == Len(boundary)
UNMARKED     == 0
NoMarks      == [field |-> UNMARKED, value |-> UNMARKED, data |-> UNMARKED]

setBoundary(b) == [boundary |-> <<"CR", "LF", "-", "-">> \o b, state |-> "START", flags |-> {},
                   index |-> 0, marks |-> NoMarks, lookbehind |-> <<>>]
NoFeed == [on |-> FALSE, state |-> "ERROR", flags |-> {}, index |-> 0, i |-> 0, buffer |-> <<>>]

(* feed(buffer) begins.                                                    *)
Feed(p, buffer) ==
  [on |-> TRUE, state |-> p.state, flags |-> p.flags, index |-> p.index,
   i |-> 1, buffer |-> buffer]

i      == feed.i
c      == feed.buffer[i]
In(state) == feed.on /\ i <= Len(feed.buffer) /\ feed.state \in state
Bytes(from, to) == IF from = UNMARKED THEN <<>> ELSE SubSeq(feed.buffer, from, to)

ToState(state, index) == feed' = [feed EXCEPT !.state = state, !.index = index, !.i = i + 1]
Stay == ToState(feed.state, feed.index)
Mark(which, at) == parser' = [parser EXCEPT !.marks[which] = at]
Silent == UNCHANGED <<form, failures>>

(* setError and return i: the bytes before it are what was fed.            *)
setError ==
  /\ parser' = [parser EXCEPT !.state = "ERROR"]
  /\ feed' = [feed EXCEPT !.on = FALSE]
  /\ Silent

(* One of the callbacks that writes to a file, which may fail.             *)
DataCallback(bytes) ==
  \E written \in BOOLEAN :
    /\ ~written => Writes(form, bytes) /\ failures < MaxFailures
    /\ failures' = failures + (IF written THEN 0 ELSE 1)
    /\ form' = IF bytes = <<>> THEN form ELSE OnPartData(form, bytes, written)

-----------------------------------------------------------------------------
(* START, START_BOUNDARY: the body begins with the boundary's line.        *)
FirstLine == SubSeq(boundary, 3, boundarySize) \o <<"CR", "LF">>

StartBoundary ==
  /\ In({"START", "START_BOUNDARY"})
  /\ LET n == IF feed.state = "START" THEN 0 ELSE feed.index
     IN  IF c # FirstLine[n + 1] THEN setError
         ELSE /\ UNCHANGED <<parser, failures>>
              /\ IF n + 1 = Len(FirstLine)
                 THEN ToState("HEADER_FIELD_START", 0) /\ form' = cbPartBegin(form)
                 ELSE ToState("START_BOUNDARY", n + 1) /\ UNCHANGED form

Letters == {"x", "b", "Content-Disposition", "Content-Type"}

(* HEADER_FIELD_START, HEADER_FIELD: a header's name up to its colon, or   *)
(* the empty line.                                                         *)
HeaderField ==
  /\ In({"HEADER_FIELD_START", "HEADER_FIELD"})
  /\ LET start == feed.state = "HEADER_FIELD_START"
         mark  == IF start THEN i ELSE parser.marks.field
         n     == (IF start THEN 0 ELSE feed.index) + 1
     IN  \/ /\ c = "CR"
            /\ ToState("HEADERS_ALMOST_DONE", n - 1) /\ Mark("field", UNMARKED) /\ Silent
         \/ /\ c \in Letters \cup {"-"}
            /\ ToState("HEADER_FIELD", n) /\ Mark("field", mark) /\ Silent
         \/ /\ c = ":" /\ n > 1
            /\ ToState("HEADER_VALUE_START", n) /\ Mark("field", UNMARKED)
            /\ form' = cbHeaderField(form, Bytes(mark, i - 1))
            /\ UNCHANGED failures
         \/ /\ c = ":" => n = 1
            /\ c \notin Letters \cup {"-", "CR"}
            /\ setError

(* HEADER_VALUE_START, HEADER_VALUE: a header's value up to its CR.        *)
HeaderValue ==
  /\ In({"HEADER_VALUE_START", "HEADER_VALUE"})
  /\ UNCHANGED failures
  /\ LET start == feed.state = "HEADER_VALUE_START"
         mark  == IF start THEN i ELSE parser.marks.value
     IN  \/ start /\ c = " " /\ Stay /\ UNCHANGED <<parser, form>>
         \/ /\ ~(start /\ c = " ") /\ c # "CR"
            /\ ToState("HEADER_VALUE", feed.index) /\ Mark("value", mark) /\ UNCHANGED form
         \/ /\ c = "CR"
            /\ ToState("HEADER_VALUE_ALMOST_DONE", feed.index) /\ Mark("value", UNMARKED)
            /\ form' = cbHeaderEnd(cbHeaderValue(form, Bytes(mark, i - 1)))

HeaderValueAlmostDone ==
  /\ In({"HEADER_VALUE_ALMOST_DONE"})
  /\ IF c = "LF" THEN ToState("HEADER_FIELD_START", feed.index) /\ Silent /\ UNCHANGED parser
     ELSE setError

HeadersAlmostDone ==
  /\ In({"HEADERS_ALMOST_DONE"})
  /\ IF c # "LF" THEN setError
     ELSE \E mkstemp \in BOOLEAN :
            /\ form' = OnPartBegin(form, mkstemp)
            /\ ~mkstemp => form'.err /\ failures < MaxFailures
            /\ failures' = failures + (IF mkstemp THEN 0 ELSE 1)
            /\ ToState("PART_DATA_START", feed.index) /\ UNCHANGED parser

-----------------------------------------------------------------------------
(* PART_DATA_START, PART_DATA: processPartData.  index counts the bytes of *)
(* the boundary just seen, which lookbehind keeps, and one more for the    *)
(* first byte after it.                                                    *)

InData == In({"PART_DATA_START", "PART_DATA"})
DataMark == IF feed.state = "PART_DATA_START" THEN i ELSE parser.marks.data

(* The byte the code looks at next: while the byte a boundary away cannot  *)
(* be in a boundary, none can begin before it.                             *)
Next_i ==
  CHOOSE j \in i..(Len(feed.buffer) + 1) :
    /\ (j - i) % boundarySize = 0
    /\ j + boundarySize - 1 <= Len(feed.buffer) => feed.buffer[j + boundarySize - 1] \in ToSet(boundary)
    /\ \A k \in i..(j - 1) : (k - i) % boundarySize = 0 =>
         /\ k + boundarySize - 1 <= Len(feed.buffer)
         /\ feed.buffer[k + boundarySize - 1] \notin ToSet(boundary)

LookAt == IF feed.index = 0 THEN Next_i ELSE i
Byte == feed.buffer[LookAt]

(* No boundary begins here: the byte stays with the marked data.           *)
PlainData ==
  /\ InData /\ feed.index = 0
  /\ LookAt <= Len(feed.buffer) => Byte # boundary[1]
  /\ feed' = [feed EXCEPT !.state = "PART_DATA", !.i = LookAt + 1]
  /\ Mark("data", DataMark) /\ Silent

(* One more byte of the boundary.  The first ends the data before it.      *)
MatchBoundary ==
  /\ InData /\ feed.index < boundarySize
  /\ LookAt <= Len(feed.buffer) /\ Byte = boundary[feed.index + 1]
  /\ feed' = [feed EXCEPT !.state = "PART_DATA", !.i = LookAt + 1, !.index = @ + 1]
  /\ parser' = [parser EXCEPT !.marks.data = IF feed.index = 0 THEN UNMARKED ELSE DataMark,
                              !.lookbehind = Append(SubSeq(@, 1, feed.index), Byte)]
  /\ IF feed.index = 0 /\ DataMark # UNMARKED THEN DataCallback(Bytes(DataMark, LookAt - 1)) ELSE Silent

(* The byte after the boundary: another part, or the end.                  *)
AfterBoundary ==
  /\ InData /\ feed.index = boundarySize /\ c \in {"CR", "-"}
  /\ feed' = [feed EXCEPT !.i = i + 1, !.index = @ + 1,
                          !.flags = @ \cup {IF c = "CR" THEN "part" ELSE "last"}]
  /\ parser' = [parser EXCEPT !.lookbehind = Append(SubSeq(@, 1, feed.index), c)]
  /\ Silent

NextPart ==
  /\ InData /\ feed.index = boundarySize + 1 /\ "part" \in feed.flags /\ c = "LF"
  /\ feed' = [feed EXCEPT !.state = "HEADER_FIELD_START", !.i = i + 1, !.index = 0,
                          !.flags = @ \ {"part"}]
  /\ form' = cbPartBegin(OnPartEnd(form))
  /\ UNCHANGED <<parser, failures>>

LastPart ==
  /\ InData /\ feed.index = boundarySize + 1 /\ "part" \notin feed.flags /\ c = "-"
  /\ ToState("END", feed.index)
  /\ parser' = [parser EXCEPT !.lookbehind = Append(SubSeq(@, 1, feed.index), c)]
  /\ form' = OnPartEnd(form)
  /\ UNCHANGED failures

(* Deviation: what was kept is forgotten.                                  *)
FalseLeadForgotten ==
  /\ InData /\ feed.index > 0
  /\ \/ feed.index < boundarySize /\ c # boundary[feed.index + 1]
     \/ feed.index = boundarySize /\ c \notin {"CR", "-"}
     \/ feed.index = boundarySize + 1 /\ c # (IF "part" \in feed.flags THEN "LF" ELSE "-")
  /\ feed' = [feed EXCEPT !.state = "PART_DATA", !.index = 0]
  /\ Silent
  /\ Mark("data", i)

(* It was no boundary: what was kept is data, and the byte is looked at    *)
(* again, since a boundary may begin with it.                              *)
FalseLead ==
  /\ InData /\ feed.index > 0
  /\ \/ feed.index < boundarySize /\ c # boundary[feed.index + 1]
     \/ feed.index = boundarySize /\ c \notin {"CR", "-"}
     \/ feed.index = boundarySize + 1 /\ c # (IF "part" \in feed.flags THEN "LF" ELSE "-")
  /\ feed' = [feed EXCEPT !.state = "PART_DATA", !.index = 0]
  /\ DataCallback(SubSeq(parser.lookbehind, 1, feed.index))
  /\ Mark("data", i)

(* END, ERROR: the rest is not taken, and the locals are lost.             *)
Stopped ==
  /\ In({"END", "ERROR"})
  /\ feed' = [feed EXCEPT !.on = FALSE]
  /\ Silent /\ UNCHANGED parser

(* The end of the piece: what is marked is handed over, and the mark goes  *)
(* on at the beginning of the next.                                        *)
Rest(which) == Bytes(parser.marks[which], Len(feed.buffer))

EndOfBuffer ==
  /\ feed.on /\ i > Len(feed.buffer)
  /\ LET marked == {w \in DOMAIN parser.marks : parser.marks[w] # UNMARKED}
         marks == [w \in DOMAIN NoMarks |-> IF w \in marked THEN 1 ELSE UNMARKED]
     IN  /\ parser' = [parser EXCEPT !.state = feed.state, !.flags = feed.flags,
                                     !.index = feed.index, !.marks = marks]
         /\ IF "data" \in marked THEN DataCallback(Rest("data"))
            ELSE /\ form' = cbHeaderValue(cbHeaderField(form, Rest("field")), Rest("value"))
                 /\ UNCHANGED failures
  /\ feed' = [feed EXCEPT !.on = FALSE]

FeedByte ==
  \/ StartBoundary \/ HeaderField \/ HeaderValue \/ HeaderValueAlmostDone \/ HeadersAlmostDone
  \/ PlainData \/ MatchBoundary \/ AfterBoundary \/ NextPart \/ LastPart \/ FalseLead
  \/ Stopped \/ EndOfBuffer

=============================================================================
