---------------------------- MODULE ServerConfig ----------------------------
(***************************************************************************)
(* Server/ServerConfig.cpp: the settings main reads before it starts the   *)
(* workers.  Of the eight settings there is the number of workers, which   *)
(* Manager takes as it is, and one text for the seven texts.               *)
(***************************************************************************)
EXTENDS Json

CONSTANTS
  Cores,        (* std::thread::hardware_concurrency()                      *)
  ConfigFiles   (* the text of a file, what it means, whether it is whole   *)

VARIABLES
  settings,     (* the static members                                       *)
  loaded        (* the file that was read, and what Load returned           *)

configVars == <<settings, loaded>>

Defaults == [threadCount |-> Cores, logPath |-> <<"Server.log">>]

(* isInt and asInt of a value that was read: a double may be one.          *)
WholeToken(v) == v.type = "real" /\ ToSet(v.s) \subseteq DOMAIN Digits \cup {"-"}
NumberOf(v) ==
  IF v.type # "real" THEN v.n
  ELSE LET digits == SelectSeq(v.s, LAMBDA x : x # "-")
           n == FoldLeft(LAMBDA a, x : 10 * a + Digits[x], 0, digits)
       IN  IF v.s[1] = "-" THEN -n ELSE n
isIntRead(v) ==
  /\ v.type \in {"int", "uint"} \/ WholeToken(v)
  /\ -MaxInt - 1 <= NumberOf(v) /\ NumberOf(v) <= MaxInt

Found(root, name) == SelectSeq(root.kids, LAMBDA k : k[1] = name)

GetStr(root, name, value) ==
  LET found == Found(root, name)
  IN  IF found # <<>> /\ found[1][2].type = "string" THEN found[1][2].s ELSE value
GetInt(root, name, value) ==
  LET found == Found(root, name)
  IN  IF found # <<>> /\ isIntRead(found[1][2]) THEN NumberOf(found[1][2]) ELSE value

ConfigInit == settings = Defaults /\ loaded = <<>>

(* Load; what cannot be opened reads as an empty text.  The exception of   *)
(* the reader is not caught.                                               *)
Load ==
  /\ loaded = <<>>
  /\ \E file \in ConfigFiles : \E r \in {parseDocument(file.text)} :
       LET ok == r.ok /\ r.value.type = "object"
       IN  /\ ~r.threw
           /\ settings' = IF ok THEN [threadCount |-> GetInt(r.value, <<"threadCount">>, settings.threadCount),
                                      logPath |-> GetStr(r.value, <<"logPath">>, settings.logPath)]
                          ELSE settings
           /\ loaded' = <<file, ok>>

(* The settings are those of the file where it has them in the type they   *)
(* need, the last of two with one name, and the defaults elsewhere and for *)
(* a file that is none or is cut off; Load says which of the two it was.   *)
ConfigAsWritten ==
  loaded # <<>> => /\ settings = loaded[1].means
                   /\ loaded[2] = loaded[1].whole

=============================================================================
