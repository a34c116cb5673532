----------------------------- MODULE JsonWriter -----------------------------
(***************************************************************************)
(* The other writers of libCommon/jsoncpp/jsoncpp.cpp: Json::FastWriter    *)
(* with its line feed, and the three that lay a document out for a person, *)
(* Json::StyledWriter, StyledStreamWriter and BuiltStyledStreamWriter.     *)
(* Comments are left out.                                                  *)
(***************************************************************************)
EXTENDS Json

CONSTANT RightMargin        (* rightMargin_                                 *)

FastWrite(v) == writeValue(v) \o <<"LF">>

(* The writers by what they put: an indentation a level, what stands       *)
(* between a name and its value, and whether all arrays are broken up.     *)
Style(kind, indentation, colon, all) ==
  [kind |-> kind, indentation |-> indentation, colon |-> colon, all |-> all,
   comma |-> IF indentation = <<>> THEN <<",">> ELSE <<",", " ">>,
   space |-> IF indentation = <<>> THEN <<>> ELSE <<" ">>]
SpacedColon == <<" ", ":", " ">>

StyledWriter == Style("string", <<" ", " ", " ">>, SpacedColon, FALSE)
StyledStreamWriter(indentation) ==
  [Style("stream", indentation, SpacedColon, FALSE) EXCEPT !.comma = <<",", " ">>, !.space = <<" ">>]

(* StreamWriterBuilder::newStreamWriter.                                   *)
newStreamWriter(indentation, commentStyle, yaml) ==
  Style("built", indentation,
        IF yaml THEN <<":", " ">> ELSE IF indentation = <<>> THEN <<":">> ELSE SpacedColon,
        commentStyle = "All")

-----------------------------------------------------------------------------
(* What has been written, how deep it is, and indented_ of the two writers *)
(* that cannot look back at the document.                                  *)

Writing(doc, level, indented) == [doc |-> doc, level |-> level, indented |-> indented]
PutText(w, text) == [w EXCEPT !.doc = @ \o text]
Deeper(w, by) == [w EXCEPT !.level = @ + by]
AtLineStart(w, indented) == [w EXCEPT !.indented = indented]

writeIndent(style, w) ==
  LET margin == FlattenSeq([n \in 1..w.level |-> style.indentation])
      last == IF w.doc = <<>> THEN "" ELSE Last(w.doc)
  IN  IF style.kind = "string"
      THEN IF last = " " THEN w
           ELSE PutText(w, (IF last \in {"", "LF"} THEN <<>> ELSE <<"LF">>) \o margin)
      ELSE IF style.kind = "built" /\ style.indentation = <<>> THEN w
      ELSE PutText(w, <<"LF">> \o margin)

writeWithIndent(style, w, text) ==
  AtLineStart(PutText(IF w.indented THEN w ELSE writeIndent(style, w), text), FALSE)

(* isMultineArray: many elements, one that is not empty, or a long line.   *)
Hollow(v) == v.type \notin {"array", "object"} \/ v.kids = <<>>
LongLine(v) ==
  FoldLeft(LAMBDA length, k : length + Len(writeValue(k[2])), 4 + (Len(v.kids) - 1) * 2, v.kids) >= RightMargin
isMultineArray(v) ==
  \/ Len(v.kids) * 3 >= RightMargin
  \/ \E k \in ToSet(v.kids) : ~Hollow(k[2])
  \/ LongLine(v)

RECURSIVE writeStyled(_, _, _)
writeStyled(style, w, v) ==
  LET size == Len(v.kids)
      comma(i) == IF i = size THEN <<>> ELSE <<",">>
      \* a member and an element of an array that is broken up
      member(done, i) ==
        LET named == PutText(writeWithIndent(style, done, valueToQuotedString(v.kids[i][1])), style.colon)
        IN  PutText(writeStyled(style, named, v.kids[i][2]), comma(i))
      line(done) == IF done.indented THEN done ELSE writeIndent(style, done)
      element(done, i) ==
        LET placed == AtLineStart(line(done), style.kind # "string")
        IN  PutText(AtLineStart(writeStyled(style, placed, v.kids[i][2]), FALSE), comma(i))
      block(open, Item(_, _), close) ==
        writeWithIndent(style,
          Deeper(FoldLeftDomain(Item, Deeper(writeWithIndent(style, w, <<open>>), 1), v.kids), -1),
          <<close>>)
  IN  IF Hollow(v) THEN PutText(w, writeValue(v))
      ELSE IF v.type = "object" THEN block("{", member, "}")
      ELSE IF style.all \/ isMultineArray(v) THEN block("[", element, "]")
      ELSE PutText(w, <<"[">> \o style.space
                  \o FlattenSeq([i \in 1..size |-> (IF i = 1 THEN <<>> ELSE style.comma)
                                                   \o writeValue(v.kids[i][2])])
                  \o style.space \o <<"]">>)

WriteStyled(v) == writeStyled(StyledWriter, Writing(<<>>, 0, FALSE), v).doc \o <<"LF">>
WriteStream(indentation, v) ==
  writeStyled(StyledStreamWriter(indentation), Writing(<<>>, 0, TRUE), v).doc \o <<"LF">>
WriteBuilt(builder, v) == writeStyled(builder, Writing(<<>>, 0, TRUE), v).doc

=============================================================================
