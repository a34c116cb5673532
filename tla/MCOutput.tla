------------------------------ MODULE MCOutput ------------------------------
(***************************************************************************)
(* What the program writes, for TLC: a request's streams; a call of        *)
(* FCGX_VFPrintF, whose text a stream takes or fails to take; or the files *)
(* behind the log.  A run is about one of them, the scene.                 *)
(***************************************************************************)
EXTENDS MCFcgiWriter, FcgiPrintf, LogFiles

VARIABLE scene

outputVars == <<scene, vars, printf, logVars>>

SomeFiles == [f \in Names |-> IF f = 0 THEN 1 ELSE -1]

MCInit ==
  /\ scene \in {"streams", "printf", "files"}
  /\ IF scene = "streams" THEN Init ELSE keepConnection = FALSE /\ Init
  /\ IF scene = "printf" THEN PrintfInit ELSE PrintfInit /\ printf.todo = <<>>
  /\ IF scene = "files" THEN LogInit ELSE disk = SomeFiles /\ LogInit

Output == scene = "streams" /\ Next /\ UNCHANGED <<scene, printf, logVars>>
Printf == scene = "printf" /\ PrintfNext /\ UNCHANGED <<scene, vars, logVars>>
Files  == scene = "files" /\ LogNext /\ UNCHANGED <<scene, vars, printf>>

(* No call of a setter and no line need ever come.                         *)
NothingLogged == scene = "files" /\ UNCHANGED outputVars

MCNext == Output \/ Printf \/ Files \/ NothingLogged

MCSpec == MCInit /\ [][MCNext]_outputVars

(* Formats: every conversion on its own, and some of them in a row.        *)
Digits(n) == [by |-> "digits", n |-> n]
Star(n) == [by |-> "star", n |-> n]

MCWidths == {NotGiven, Digits(99), Digits(100), Digits(150), Star(-120), Star(1000000), Digits(1000000)}
MCPrecisions == {NotGiven, Digits(0), Digits(90), Digits(300), Star(-1), Star(1000000)}

Argument(length, prefix) == [length |-> length, prefix |-> prefix, exp |-> 0, cast |-> 0, null |-> FALSE]
NullPointer == [Argument(0, 0) EXCEPT !.null = TRUE]
Floating(exp, cast) == [Argument(0, 1) EXCEPT !.exp = exp, !.cast = cast]

(* Long doubles: rounded up, too small and too large for a double.         *)
MCArguments(op, size) ==
  CASE op = "d" -> {Argument(1, 0), Argument(22, 2)}
    [] op = "c" -> {Argument(n, 0) : n \in 0..1}
    [] op = "s" -> {Argument(n, 0) : n \in {0, 90, 91, 400}} \cup {NullPointer}
    [] op \in {"e", "f"} -> {Floating(e, e) : e \in {-1000, 0, 1, 4, 10, 1024}} \cup
         IF size = "L" THEN {Floating(4, 5), Floating(-16000, 0), Floating(1024, 0), Floating(16384, 0)}
         ELSE {}
    [] OTHER -> {Argument(14, 0)}

MCConversions ==
  UNION {{Piece(op, size, flags, w, p, a) :
            flags \in {0, 5, 6}, w \in MCWidths, p \in MCPrecisions, a \in MCArguments(op, size)} :
         op \in {"c", "s", "n", "%", "other", "d", "f", "e", "p"}, size \in {" ", "l", "L"}}

Literal == Piece("literal", " ", 0, NotGiven, NotGiven, Argument(10, 0))
MCSome == {c \in MCConversions : c.size = " " /\ c.flags = 0 /\ c.width \in {NotGiven, Digits(150)}
                                /\ c.precision \in {NotGiven, Digits(300)}}

MCFormats ==
  {<<>>} \cup {<<c>> : c \in MCConversions}
  \cup {<<Literal, c1, c2>> : c1 \in MCSome, c2 \in MCSome}
=============================================================================
