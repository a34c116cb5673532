----------------------------- MODULE MCHandler -----------------------------
(***************************************************************************)
(* What a handler learns and does, for TLC: a request as clients send it,  *)
(* this program's own HttpSender among them; or the file of settings, a    *)
(* series of calls of Json::Value, one call of Helper, or the calls of a   *)
(* handler's Redis and MySQL clients.                                      *)
(***************************************************************************)
EXTENDS HttpEnv, JsonValue, ServerConfig, BaseHandler

VARIABLE scene

dataVars == <<envVars, valueVars, configVars, called>>
allVars == <<scene, dataVars, vars>>

B == <<"b">>

(* A form as RFC 2046 has it.                                              *)
Header(field) ==
  <<"Content-Disposition", ":", " ", "form-data", "; ", "name", "=", field.key>>
  \o (IF field.file THEN <<"; ", "filename", "=", "f">> ELSE <<>>) \o <<"CR", "LF">>
Encapsulated(field) ==
  <<"-", "-">> \o B \o <<"CR", "LF">> \o Header(field) \o <<"CR", "LF">> \o field.value \o <<"CR", "LF">>
MultipartBody(fields, epilogue) ==
  FlattenSeq([n \in DOMAIN fields |-> Encapsulated(fields[n])]) \o <<"-", "-">> \o B \o <<"-", "-">> \o epilogue

Field(key, file, value) == [key |-> key, file |-> file, value |-> value]

Request(kind, type, body) ==
  [kind |-> kind, body |-> body, fields |-> <<>>, pairs |-> <<>>, path |-> <<>>, langs |-> <<>>,
   json |-> JsonNull, deep |-> FALSE,
   envp |-> "REQUEST_METHOD" :> <<"POST">> @@ "CONTENT_TYPE" :> type
            @@ "CONTENT_LENGTH" :> valueToString(Len(body)) @@ "QUERY_STRING" :> <<>>]

MultipartType == <<"multipart/form-data", ";", " ", "boundary", "=">> \o B

Form(fields, epilogue) ==
  [Request("form", MultipartType, MultipartBody(fields, epilogue)) EXCEPT !.fields = fields]
Cut(f, n) == [f EXCEPT !.kind = "cut", !.body = SubSeq(@, 1, n)]

Bytes1 == UNION {[1..n -> {"x", "b", "CR", "LF", "-"}] : n \in 0..2}
Tricky == {<<"CR", "LF", "-", "-", "x">>, <<"CR", "CR", "LF", "-", "-">>, <<"CR", "LF", "CR", "LF", "-">>,
           <<"x", "x", "b", "x", "x", "x">>, <<"x", "CR", "LF">>, <<"x", "x", "x", "x", "x", "x", "b">>}

OneField == {Form(<<Field("k", file, v)>>, e) :
               file \in BOOLEAN, v \in Bytes1 \cup Tricky, e \in {<<"CR", "LF">>}}
TwoFields == {Form(<<Field("k", f1, v1), Field("l", f2, v2)>>, e) :
               f1 \in BOOLEAN, f2 \in BOOLEAN, v1 \in {<<>>, <<"x">>, <<"CR", "LF", "-", "-", "x">>},
               v2 \in {<<>>, <<"b", "CR">>}, e \in {<<>>, <<"CR", "LF">>}}
CutForms == {Cut(Form(<<Field("k", TRUE, <<"x">>), Field("l", TRUE, <<"b", "x">>)>>, <<>>), n) : n \in 0..50}
(* No CONTENT_LENGTH, or one of zero, or another content type.             *)
Bodiless == {[Form(<<Field("k", TRUE, <<"x">>)>>, <<>>)
                EXCEPT !.kind = "cut", !.envp = "REQUEST_METHOD" :> method @@ e] :
               method \in {<<"PUT">>, <<"PATCH">>},
               e \in {"CONTENT_TYPE" :> MultipartType, "CONTENT_TYPE" :> <<"text/plain">>,
                      "CONTENT_TYPE" :> MultipartType @@ "CONTENT_LENGTH" :> <<"0">>}}
SameName == {Form(<<Field("k", f, <<"x">>), Field("k", f, <<"b">>)>>, <<>>) : f \in BOOLEAN}

(* Url-encoded pairs: what is not a letter is escaped, a space is a plus.  *)
Escaped(s) ==
  LET E(x) == CASE x = " " -> <<"+">> [] x = "%" -> <<"%", "2", "5">> [] x = "&" -> <<"%", "2", "6">>
                [] x = "=" -> <<"%", "3", "D">> [] OTHER -> <<x>>
  IN  FlattenSeq([n \in DOMAIN s |-> E(s[n])])
Joined(pieces, separator) ==
  FlattenSeq([n \in DOMAIN pieces |-> (IF n = 1 THEN <<>> ELSE separator) \o pieces[n]])
UrlEncoded(pairs, separator) ==
  Joined([n \in DOMAIN pairs |-> Escaped(pairs[n][1]) \o <<"=">> \o Escaped(pairs[n][2])], separator)

Url(pairs) ==
  LET path == [n \in DOMAIN pairs |-> pairs[n][1]]
  IN  [Request("url", <<"application/x-www-form-urlencoded">>, UrlEncoded(pairs, <<"&">>))
        EXCEPT !.pairs = pairs, !.path = path, !.langs = <<<<"en", "_", "x">>, <<"x">>>>,
               !.envp = [@ EXCEPT !["QUERY_STRING"] = UrlEncoded(pairs, <<"&">>)]
                 @@ "HTTP_COOKIE" :> UrlEncoded(pairs, <<";", " ">>)
                 @@ "PATH_INFO" :> <<"/">> \o Joined([n \in DOMAIN path |-> Escaped(path[n])], <<"/">>)
                 @@ "HTTP_ACCEPT_LANGUAGE" :> <<"en", "-", "x", ";", "q", ",", " ", "x", " ">>
                 @@ "SERVER_PORT" :> <<"8", "0">> @@ "HTTP_HOST" :> <<"x">>]

Pairs == {<<"a">>, <<"=">>} \X {<<>>, <<"x">>, <<"&">>, <<"%", "x">>, <<" ", "=">>}
UrlRequests == {Url(ps) : ps \in UNION {[1..n -> Pairs] : n \in 1..2}}
                 \cup {Url([n \in 1..3 |-> <<<<"a">>, vs[n]>>]) : vs \in [1..3 -> {<<>>, <<"x">>}]}

(* JSON: what a client writes, and the value it means.                     *)
Json(text, value) == [Request("json", <<"application/json">>, text) EXCEPT !.json = value]
Number(n) == IF -32 <= n /\ n <= 63 THEN Integer(n) ELSE Real(valueToString(n))
InArray(value) == Array(<<<<<<>>, value>>>>)
Str(s) == <<"quote">> \o s \o <<"quote">>

Numbers == {Json(<<"[">> \o valueToString(n) \o <<"]">>, InArray(Number(n))) : n \in -35..70 \cup {320, 639}}
Strings == {Json(<<"[">> \o Str(s[1]) \o <<"]">>, InArray(String(s[2]))) : s \in
  {<<<<"x">>, <<"x">>>>, <<<<"esc", "n", "x">>, <<"LF", "x">>>>, <<<<"esc", "quote">>, <<"quote">>>>,
   <<<<"esc", "esc">>, <<"esc">>>>, <<<<"esc", "u", "0041", "x">>, <<"A", "x">>>>,
   <<<<"esc", "u", "D83D", "esc", "u", "DE00">>, <<"astral">>>>, <<<<"}", ",">>, <<"}", ",">>>>}}
One == <<<<"a">>, Integer(1)>>
Objects == {Json(<<"{", " ">> \o Str(<<"a">>) \o <<":", " ", "1", ",", "comment">> \o Str(<<"b">>)
                   \o <<":", "[", "true", ",", "null", "]", "}">>,
                 Object(<<One, <<<<"b">>, Array(<<<<<<>>, Bool(TRUE)>>, <<<<>>, JsonNull>>>>)>>>>)),
            Json(<<"{">> \o Str(<<"a">>) \o <<":", "1", "2", ",">> \o Str(<<"a">>) \o <<":", "1", "}">>,
                 Object(<<One>>))}
InBrackets(token, value) == Json(<<"[">> \o token \o <<"]">>, InArray(value))
Fractions == {InBrackets(token, Real(token)) : token \in
              {<<"-", ".", "5">>, <<"1", ".">>, <<"0", ".", "1", "e", "3", "0", "9">>, <<"6", "4", "e", "-", "9", "9">>,
               <<"0", "e", "9", "9", "9">>}}
             \cup {InBrackets(token, JsonNull) : token \in
              {<<"-", "e", "5">>, <<"-", ".", "e", "5">>, <<"1", "e">>, <<"1", "e", "9", "9", "9">>,
               <<"1", "0", ".", "5", "e", "3", "0", "8">>}}
BrokenJson == {Json(<<"{">> \o Str(<<"a">>) \o <<":", "1", ",">> \o Str(<<"a">>) \o <<":">> \o text, value) :
              <<text, value>> \in {<<<<"}">>, Object(<<One>>)>>, <<<<"-", "e", "5", "}">>, Object(<<One>>)>>,
                                  <<<<"[", "]", "x">>, Object(<<<<<<"a">>, Array(<<>>)>>>>)>>}}
Written == {Json(writeValue(v), v) : v \in
  {Object(<<>>), Array(<<>>), Object(<<One, <<<<"b">>, String(<<"LF", "ctl">>)>>>>),
   InArray(Object(<<<<<<"k">>, Bool(FALSE)>>>>)), InArray(Real(<<"6", "4">>)), InArray(Integer(-32))}}
Nested(n) == [k \in 1..n |-> "["] \o [k \in 1..n |-> "]"]
Deep == {[Json(Nested(5), Array(<<>>)) EXCEPT !.deep = TRUE], Json(Nested(4), InArray(InArray(InArray(Array(<<>>)))))}

MCGarbage == {<<>>, <<"1">>, <<"}">>}

(* A map of parameters, sorted by name, in a request of HttpSender.        *)
Sent(kind, pairs, curl) ==
  LET r == Received(curl)
  IN  [Request(kind, r.type, r.body) EXCEPT !.pairs = pairs]
Address == <<"x">>
SentParams == {ps \in UNION {[1..n -> {<<"a">>, <<"b">>} \X {<<>>, <<"x">>, <<"%", "x", " ">>, <<"&", "=", "high", "LF">>}] :
                             n \in 0..2} : Len(ps) = 2 => ps[1][1] = <<"a">> /\ ps[2][1] = <<"b">>}
PlainParams == {ps \in SentParams : \A n \in DOMAIN ps : ps[n][2] \in {<<>>, <<"x">>}}

(* A form as it was posted; its query is that of a GET to the same url.    *)
SentForm(ps) ==
  LET posted == Url(ps)
      gotten(asked) == Received(SendGetRequest(asked, << >>, ps)).query
      sent == Received(SendUrlencodedPostRequest(Address, "Host" :> <<"x">>, ps))
  IN  {[posted EXCEPT !.body = sent.body,
          !.envp = [@ EXCEPT !["CONTENT_TYPE"] = sent.type, !["REQUEST_METHOD"] = sent.method,
                             !["CONTENT_LENGTH"] = valueToString(Len(sent.body)),
                             !["QUERY_STRING"] = IF ps \in PlainParams THEN gotten(Address) ELSE @]]}
SentForms == UNION {SentForm(ps) : ps \in SentParams \ {<<>>}}
SentJson ==
  {[Sent("json", ps, SendParamsPostRequest(Address, << >>, ps)) EXCEPT !.json = ParamJson(ps)] : ps \in SentParams}
Unread == {Sent("other", ps, curl) : ps \in {<<<<<<"a">>, <<"x">>>>>>},
             curl \in {SendXmlPostRequest(Address, << >>, <<"x">>),
                       SendInkeNtyJsonPostRequest(Address, << >>, <<<<<<"a">>, <<"x">>>>>>)}}

(* What the writers for people write.                                      *)
El(v) == <<<<>>, v>>
Builders ==
  {newStreamWriter(margin, comments, yaml) :
     margin \in {<<>>, <<"HT">>}, comments \in {"All", "None"}, yaml \in BOOLEAN}
WrittenAll(v) ==
  {WriteStyled(v), WriteStream(<<"HT">>, v), WriteStream(<<>>, v)} \cup {WriteBuilt(b, v) : b \in Builders}
LaidOut ==
  UNION {{Json(text, v) : text \in WrittenAll(v)} : v \in
    {Array(<<>>), Array([n \in 1..2 |-> El(Integer(n))]), Array([n \in 1..5 |-> El(Integer(n))]),
     Array(<<El(Array(<<>>)), El(Array(<<El(Integer(3))>>))>>),
     Object(<<One, <<<<"b">>, Array(<<El(Object(<<One>>)), El(String(<<"x", "LF">>))>>)>>, <<<<"c">>, Object(<<>>)>>>>),
     Array(<<El(String([n \in 1..12 |-> "x"])), El(JsonNull), El(Real(<<"6", "4">>))>>)}}

-----------------------------------------------------------------------------
(* Settings.  Each part of the file: what is written, and what it means.   *)
CountTexts == {<<<<>>, 3>>, <<<<"4">>, 4>>, <<<<"4", ".", "0">>, 4>>, <<<<"-", "1">>, -1>>, <<<<"0">>, 0>>,
               <<<<"8">>, 3>>, <<<<"-", "8">>, -8>>, <<<<"4", ".", "5">>, 3>>, <<Str(<<"4">>), 3>>, <<<<"true">>, 3>>}
PathTexts == {<<<<>>, <<"Server.log">>>>, <<Str(<<"x", "esc", "esc">>), <<"x", "esc">>>>, <<<<"1">>, <<"Server.log">>>>}
Entry(name, text) == IF text = <<>> THEN <<>> ELSE <<Str(<<name>>) \o <<":", " ">> \o text>>
FileOf(entries) == <<"comment", "{", "LF">> \o Joined(entries, <<",", "LF">>) \o <<"}", "LF">>
ConfigFile(text, count, path, whole) ==
  [text |-> text, whole |-> whole, means |-> [threadCount |-> count, logPath |-> path]]
WholeFiles ==
  {ConfigFile(FileOf(Entry("threadCount", n[1]) \o Entry("logPath", p[1])), n[2], p[2], TRUE) :
     n \in CountTexts, p \in PathTexts}
  \cup {ConfigFile(FileOf(Entry("threadCount", n[1]) \o Entry("logPath", <<"null">>) \o Entry("threadCount", <<"5">>)),
                   5, <<"Server.log">>, TRUE) : n \in CountTexts}
CutFile == FileOf(Entry("threadCount", <<"4">>) \o Entry("logPath", Str(<<"x">>)))
MCConfigFiles ==
  WholeFiles \cup {ConfigFile(SubSeq(CutFile, 1, n), 3, <<"Server.log">>, FALSE) : n \in 0..(Len(CutFile) - 2)}
  \cup {ConfigFile(<<"[">> \o CutFile \o <<"]">>, 3, <<"Server.log">>, FALSE)}

(* Values and paths.                                                       *)
Index(k) == [kind |-> "array", key |-> k]
Name(k) == [kind |-> "object", key |-> k]
MCPaths == {<<>>, <<Index(0)>>, <<Index(1)>>, <<Index(2)>>, <<Name(0)>>, <<Name(1)>>,
            <<Index(0), Name(1)>>, <<Index(2), Index(1)>>, <<Name(1), Index(1)>>, <<Name(0), Name(1)>>}
MCScalars ==
  {JsonNull, Bool(FALSE), Bool(TRUE), Text(<<>>), Text(<<1>>), Text(<<1, 2>>), Text(<<2>>)}
  \cup {Integer(n) : n \in -32..7} \cup {Unsigned(n) : n \in 0..63} \cup {Double(h) : h \in -70..132}
MCStored == {JsonNull, Integer(1)}

(* Calls of Helper.                                                        *)
MCTexts ==
  UNION {[1..n -> {"a", "5", "%", "esc", "'", "HT", "NUL"}] : n \in 0..4}
  \cup UNION {[1..n -> {"%", "4", "D", "x", "+", " "}] : n \in 0..3} \cup [1..5 -> {"a", "b"}]
MCPatterns == {<<"a">>, <<"a", "b">>, <<"a", "a">>, <<"esc", "HT">>}
MCBytes == UNION {[1..n -> {0, 1, 65, 128, 191, 195, 228, 252, 255}] : n \in 0..3}
             \cup {<<65, 66, 67, 68, 69>>, <<65, 66, 67, 68, 69, 255>>, <<240, 128, 128, 128, 65, 252>>}
MCXorKeys == {<<>>, <<1>>, <<255, 65>>}
MCDays == 0..24854

MCRequests ==
  OneField \cup TwoFields \cup CutForms \cup Bodiless \cup SameName \cup UrlRequests
  \cup Numbers \cup Fractions \cup BrokenJson \cup Strings \cup Objects \cup Written \cup Deep
  \cup SentForms \cup SentJson \cup Unread \cup LaidOut

-----------------------------------------------------------------------------
\* a request of Requests, for the scenes without one
Init1 == request = [client |-> Form(<<Field("k", FALSE, <<>>)>>, <<"CR", "LF">>), bufSize |-> 1] /\ EnvInit
MCInit ==
  /\ scene \in {"request", "value", "config", "call", "clients"}
  /\ IF scene = "request" THEN EnvInit ELSE Init1
  /\ IF scene = "value" THEN ValueInit ELSE root = JsonNull /\ ValueInit
  /\ IF scene = "clients" THEN Init ELSE store = [db \in DBs |-> FALSE] /\ Init
  /\ ConfigInit /\ HelperInit

HandleRequest ==
  scene = "request" /\ EnvNext /\ UNCHANGED <<scene, valueVars, configVars, called, vars>>
UseValue   == scene = "value" /\ ValueNext /\ UNCHANGED <<scene, envVars, configVars, called, vars>>
ReadConfig == scene = "config" /\ Load /\ UNCHANGED <<scene, envVars, valueVars, called, vars>>
CallHelper ==
  scene = "call" /\ HelperNext /\ UNCHANGED <<scene, envVars, valueVars, configVars, vars>>
UseClients == scene = "clients" /\ Next /\ UNCHANGED <<scene, dataVars>>
Over ==
  /\ \/ scene = "value" /\ (done = MaxCalls \/ strayed)
     \/ scene = "config" /\ loaded # <<>>
     \/ scene = "call" /\ called # NoCall
  /\ UNCHANGED allVars

MCNext == HandleRequest \/ UseValue \/ ReadConfig \/ CallHelper \/ UseClients \/ Over

MCSpec == MCInit /\ [][MCNext]_allVars

(* The two clients share no state: calls to Redis are followed only from   *)
(* the states in which MySQL is as it was after Init().                    *)
OneClientAtATime == call = Idle \/ (sql = Connected /\ stmt = "none")

(* What a client or this program wrote as JSON is read as it was meant:    *)
(* the body of a request (JsonAsSent), and the file of settings            *)
(* (ConfigAsWritten).                                                      *)
JsonAsMeant == JsonAsSent /\ ConfigAsWritten
=============================================================================
