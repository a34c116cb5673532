-------------------------- MODULE MultipartHandler --------------------------
(***************************************************************************)
(* Server/MultipartHandler.cpp and Server/MultipartReader.h: the callbacks *)
(* of the multipart parser.  The reader collects the headers of a part;    *)
(* the handler keeps a text field in memory and a file field in a          *)
(* temporary file.  Both are one record, a form, and a callback is an      *)
(* operator on it.                                                         *)
(*                                                                         *)
(* A byte is a symbol, and so is a word the code never takes apart: a      *)
(* header's name, a field's name, a separator.  A temporary file is named  *)
(* by the number mkstemp has given.                                        *)
(***************************************************************************)
EXTENDS Naturals, Sequences, SequencesExt

NoFd == 0
Part(type) == [type |-> type, value |-> <<>>, size |-> 0, fd |-> NoFd, path |-> 0]

(* headers, name, value: of the reader; key: m_currentKey; data: m_mapData *)
(* as pairs of key and part, in the order of the multimap, where equal     *)
(* keys stay in the order of their insertion; err: m_iErrCode is not       *)
(* ERR_OK.  open and disk are the process's descriptors and the directory. *)
NewForm == [headers |-> <<>>, name |-> <<>>, value |-> <<>>,
            key |-> <<>>, data |-> <<>>, err |-> FALSE,
            open |-> {}, disk |-> {}, made |-> 0]

(* The non-empty pieces of s between the symbols sep.                      *)
SplitString(s, sep) ==
  LET cuts == {0, Len(s) + 1} \cup {i \in 1..Len(s) : s[i] = sep}
      ends == {c \in cuts : c - 1 > 0 /\ c - 1 \notin cuts}
      start(c) == CHOOSE b \in cuts : b < c /\ \A d \in cuts : d < c => d <= b
      sorted == SetToSortSeq(ends, <)
  IN  [n \in DOMAIN sorted |-> SubSeq(s, start(sorted[n]) + 1, sorted[n] - 1)]

(* SplitFormData: an attribute is kept if it is exactly name=value.        *)
SplitFormData(value) ==
  LET pairs == {kv \in {SplitString(a, "=") : a \in ToSet(SplitString(value, "; "))} : Len(kv) = 2}
  IN  [name \in {kv[1] : kv \in pairs} |-> (CHOOSE kv \in pairs : kv[1] = name)[2]]

-----------------------------------------------------------------------------
(* MultipartReader's callbacks for headers.                                *)

cbPartBegin(f) == [f EXCEPT !.headers = <<>>, !.name = <<>>, !.value = <<>>]
cbHeaderField(f, bytes) == [f EXCEPT !.name = @ \o bytes]
cbHeaderValue(f, bytes) == [f EXCEPT !.value = @ \o bytes]
cbHeaderEnd(f) ==
  [f EXCEPT !.headers = Append(@, <<f.name, f.value>>), !.name = <<>>, !.value = <<>>]

(* MultipartHandler::OnPartBegin, and the reader forgets the headers.  A   *)
(* part with a filename gets a temporary file, if mkstemp can make one.    *)
OnPartBegin(f, mkstemp) ==
  LET disposition == {h \in ToSet(f.headers) : h[1] = <<"Content-Disposition">>}
      attrs == IF disposition = {} THEN << >> ELSE SplitFormData((CHOOSE h \in disposition : TRUE)[2])
      file  == <<"filename">> \in DOMAIN attrs
      made  == file /\ mkstemp
      n     == f.made + 1
      key   == IF <<"name">> \in DOMAIN attrs THEN attrs[<<"name">>] ELSE <<>>
      part  == [Part(IF file THEN 1 ELSE 0)
                  EXCEPT !.fd = IF made THEN n ELSE NoFd, !.path = IF made THEN n ELSE 0]
      g     == [f EXCEPT !.key = key, !.data = Append(@, <<key, part>>), !.err = @ \/ (file /\ ~mkstemp)]
  IN  cbPartBegin(IF made THEN [g EXCEPT !.made = n, !.open = @ \cup {n}, !.disk = @ \cup {n}] ELSE g)

(* m_mapData.find(m_currentKey): the first with the key, 0 if none.        *)
CurrentPart(f) == SelectInSeq(f.data, LAMBDA d : d[1] = f.key)

(* A short write closes and removes the part's file, drops the part and    *)
(* fails the form.                                                         *)
DropPart(f, n) ==
  [f EXCEPT !.open = @ \ {f.data[n][2].fd}, !.disk = @ \ {f.data[n][2].path},
            !.data = RemoveAt(@, n), !.key = <<>>, !.err = TRUE]

(* OnPartData: bytes for the current part.                                 *)
OnPartData(f, bytes, written) ==
  LET n == CurrentPart(f)
      d == f.data[n][2]
      longer == [d EXCEPT !.value = @ \o bytes, !.size = @ + Len(bytes)]
      keep(part) == [f EXCEPT !.data[n][2] = part]
  IN  IF f.key = <<>> \/ n = 0 \/ (d.type = 1 /\ d.fd = NoFd) THEN f
      ELSE IF d.type = 0 THEN keep([longer EXCEPT !.size = 0])
      ELSE IF written THEN keep(longer)
      ELSE DropPart(f, n)

(* The part's data are written to a file: such a call may fail.            *)
Writes(f, bytes) ==
  /\ f.key # <<>> /\ bytes # <<>>
  /\ CurrentPart(f) # 0 /\ f.data[CurrentPart(f)][2].fd # NoFd

(* OnPartEnd: the part is complete, and its file is closed.                *)
OnPartEndOpen(f) == [f EXCEPT !.key = <<>>]   \* deviation: without close()
OnPartEnd(f) ==
  LET n == CurrentPart(f)
  IN  [ IF n = 0 THEN f
        ELSE [f EXCEPT !.open = @ \ {f.data[n][2].fd}, !.data[n][2].fd = NoFd]
        EXCEPT !.key = <<>>]

=============================================================================
