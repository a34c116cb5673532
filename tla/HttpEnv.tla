------------------------------- MODULE HttpEnv ------------------------------
(***************************************************************************)
(* Server/HttpEnv.cpp, Server/Request.cpp and MultipartHandler::DoParse:   *)
(* what a handler learns of its request.  ParseHeader decodes the FastCGI  *)
(* parameters, ParseBody reads the body from the stream by its content     *)
(* type: a JSON document, url-encoded fields, or a multipart form, fed to  *)
(* the parser piece by piece.  The destructor removes the uploaded files.  *)
(*                                                                         *)
(* A handler calls the two in any order and any number of times.  Of the   *)
(* stream only the bytes are kept; FastCGI input is module FcgiReader.     *)
(***************************************************************************)
EXTENDS MultipartParser, HttpSender, FiniteSets, TLC

CONSTANTS
  Requests,     (* requests: parameters, the body that arrives, what was    *)
                (* sent in it                                               *)
  BufSizes,     (* DoParse's buf_size                                       *)
  Garbage       (* what may stand in memory behind a buffer                 *)

VARIABLES
  request,      (* the client's request and DoParse's buf_size; constant    *)
  env,          (* the members of HttpEnv                                   *)
  parsed,       (* m_headerParsed, m_bodyParsed, in the order they were set *)
  stdin,        (* what is left in the stream                               *)
  at,           (* where ParseBody is                                       *)
  rest          (* what is left of the buffer being fed                     *)

envVars == <<request, env, parsed, stdin, at, rest, parse>>

-----------------------------------------------------------------------------
(* percentEscapedToRealBytes: %XX is the byte of two hex digits, of which  *)
(* one that is none counts as 0; what is cut off at the end is dropped.    *)

Nibble(x) == IF x \in DOMAIN Hex THEN Hex[x] ELSE 0
ByteOf(high, low) == ByteNamed(16 * Nibble(high) + Nibble(low))

percentEscapedToRealBytes(s) ==
  LET step(a, x) ==
        CASE a.state = "NORMAL" /\ x = "%" -> [a EXCEPT !.state = "FIRST"]
          [] a.state = "NORMAL" -> [a EXCEPT !.out = Append(@, IF x = "+" THEN " " ELSE x)]
          [] a.state = "FIRST" -> [a EXCEPT !.state = "SECOND", !.high = x]
          [] OTHER -> [a EXCEPT !.state = "NORMAL", !.out = Append(@, ByteOf(a.high, x))]
  IN  FoldLeft(step, [state |-> "NORMAL", high |-> "", out |-> <<>>], s).out

(* decodeUrlEncoded: the pairs from position p on.  A name ends at "=", a  *)
(* value before a separator or with the last byte.                         *)
RECURSIVE decodeFrom(_, _, _)
decodeFrom(data, p, separator) ==
  LET equals == {q \in p..Len(data) : data[q] = "="}
      eq == CHOOSE q \in equals : \A r \in equals : q <= r
      size == Len(separator)
      ends == {q \in (eq + 1)..Len(data) :
                 q = Len(data) \/ SubSeq(data, q, q + size - 1) = separator}
      end == CHOOSE q \in ends : \A r \in ends : q <= r
      pair(to) == <<percentEscapedToRealBytes(SubSeq(data, p, eq - 1)),
                    percentEscapedToRealBytes(SubSeq(data, eq + 1, to))>>
  IN  IF equals = {} \/ eq = Len(data) THEN <<>>
      ELSE IF end = Len(data) THEN <<pair(end)>>
      ELSE <<pair(end - 1)>> \o decodeFrom(data, end + size, separator)
decodeAllAlike(data, separator) == decodeFrom(data, 1, <<"&">>)   \* deviation: one separator
decodeUrlEncoded(data, separator) == decodeFrom(data, 1, separator)

-----------------------------------------------------------------------------
(* ParseHeader.  A parameter with an empty value leaves its member as it   *)
(* is, and HttpEnv's constructor initializes no number.                    *)

Methods == {"HEAD", "GET", "POST", "PUT", "DELETE", "TRACE", "OPTIONS", "CONNECT"}
TextVariables ==
  {"HTTP_HOST", "HTTP_ACCEPT", "SERVER_ADDR", "REMOTE_ADDR", "SCRIPT_NAME", "REQUEST_URI",
   "HTTP_REFERER", "DOCUMENT_ROOT", "HTTP_USER_AGENT", "HTTP_AUTHORIZATION", "HTTP_ACCEPT_CHARSET"}

(* uint16_t ports; the others do not come near their width here.           *)
NumberVariables ==
  [name \in {"SERVER_PORT", "REMOTE_PORT", "HTTP_KEEP_ALIVE", "HTTP_IF_NONE_MATCH"} |->
     IF name \in {"SERVER_PORT", "REMOTE_PORT"} THEN 2^16 ELSE 2^30]

atoi(s) ==
  LET upTo == CHOOSE n \in 0..Len(s) : /\ \A m \in 1..n : s[m] \in DOMAIN Digits
                                       /\ n < Len(s) => s[n + 1] \notin DOMAIN Digits
  IN  FoldLeft(LAMBDA v, x : 10 * v + Digits[x], 0, SubSeq(s, 1, upTo))

(* The first character counts for a slash, whatever it is.                 *)
pathInfo(value) ==
  LET pieces == SplitString(Tail(value), "/")
  IN  IF value = <<>> THEN <<>> ELSE [n \in DOMAIN pieces |-> percentEscapedToRealBytes(pieces[n])]

(* Everything before a semicolon, without the spaces around it.            *)
Language(group) ==
  LET upTo == SelectInSeq(group, LAMBDA x : x = ";")
      text == IF upTo = 0 THEN group ELSE SubSeq(group, 1, upTo - 1)
      used == {n \in DOMAIN text : text[n] # " "}
      dash == SelectInSeq(text, LAMBDA x : x = "-")
      put  == IF dash = 0 THEN text ELSE [text EXCEPT ![dash] = "_"]
  IN  IF used = {} THEN <<>>
      ELSE SubSeq(put, CHOOSE n \in used : \A m \in used : n <= m,
                       CHOOSE n \in used : \A m \in used : m <= n)

acceptLanguages(value) ==
  LET commas == {0} \cup {n \in 1..(Len(value) - 1) : value[n] = ","}
      starts == SetToSortSeq(commas, <)
      upTo(n) == CHOOSE e \in n..Len(value) :
                   (\A m \in (n + 1)..e : value[m] # ",") /\ (e < Len(value) => value[e + 1] = ",")
  IN  IF value = <<>> THEN <<>>
      ELSE [n \in DOMAIN starts |-> Language(SubSeq(value, starts[n] + 1, upTo(starts[n])))]

contentTypeOf(value) ==
  LET semicolon == SelectInSeq(value, LAMBDA x : x = ";")
  IN  IF semicolon = 0 THEN value ELSE SubSeq(value, 1, semicolon - 1)

boundaryOf(value) ==
  LET equals == {n \in DOMAIN value : value[n] = "=" /\ \E m \in 1..n : value[m] = ";"}
  IN  IF equals = {} THEN <<>>
      ELSE SubSeq(value, 1 + (CHOOSE n \in equals : \A m \in equals : n <= m), Len(value))

ParseHeaderOf(envp, length) ==
  LET given == {name \in DOMAIN envp : envp[name] # <<>>}
      value(name) == IF name \in given THEN envp[name] ELSE <<>>
      type == value("CONTENT_TYPE")
  IN  [text |-> [name \in given \cap TextVariables |-> envp[name]],
       requestMethod |-> IF "REQUEST_METHOD" \notin given THEN "uninitialized"
                         ELSE IF envp["REQUEST_METHOD"][1] \in Methods THEN envp["REQUEST_METHOD"][1]
                         ELSE "ERROR",
       numbers |-> [name \in given \cap DOMAIN NumberVariables |->
                      atoi(envp[name]) % NumberVariables[name]],
       contentType |-> contentTypeOf(type), boundary |-> boundaryOf(type),
       contentLength |-> IF "CONTENT_LENGTH" \in given THEN atoi(envp["CONTENT_LENGTH"]) ELSE length,
       pathInfo |-> pathInfo(value("PATH_INFO")),
       acceptLanguages |-> acceptLanguages(value("HTTP_ACCEPT_LANGUAGE")),
       gets |-> decodeUrlEncoded(value("QUERY_STRING"), <<"&">>),
       cookies |-> decodeUrlEncoded(value("HTTP_COOKIE"), <<";", " ">>),
       posts |-> env.posts, files |-> env.files, jsons |-> env.jsons]

NewEnv == [text |-> << >>, numbers |-> << >>, requestMethod |-> "uninitialized", contentType |-> <<>>,
           boundary |-> <<>>, contentLength |-> 0, pathInfo |-> <<>>, acceptLanguages |-> <<>>,
           gets |-> <<>>, cookies |-> <<>>, posts |-> <<>>, files |-> <<>>, jsons |-> JsonNull]

EnvInit ==
  /\ request \in [client : Requests, bufSize : BufSizes]
  /\ env = NewEnv /\ parsed = <<>> /\ stdin = request.client.body
  /\ at = "idle" /\ rest = <<>>
  /\ parser = setBoundary(<<>>) /\ feed = NoFeed /\ form = NewForm /\ failures = 0

ParseHeader ==
  /\ at = "idle" /\ "header" \notin ToSet(parsed)
  /\ \E length \in {0, 3} : env' = ParseHeaderOf(request.client.envp, length)
  /\ parsed' = Append(parsed, "header")
  /\ UNCHANGED <<request, stdin, at, rest, parse>>

-----------------------------------------------------------------------------
(* Request::ParseBody and HttpEnv::ParsePostBuffer.                        *)

BeginBody(type) ==
  /\ at = "idle" /\ "body" \notin ToSet(parsed)
  /\ env.contentType = type
  /\ parsed' = Append(parsed, "body")
  /\ UNCHANGED request

(* From the stream: up to n bytes, fewer only at the end of the stream.        *)
FCGX_GetStr(n) == SubSeq(stdin, 1, IF n < Len(stdin) THEN n ELSE Len(stdin))
Left(n) == SubSeq(stdin, n + 1, Len(stdin))

(* The buffer is read as a string, to the first zero wherever that is; the *)
(* result of parse is not tested, and its exception not caught.            *)
parseJson ==
  /\ BeginBody(<<"application/json">>)
  /\ \E behind \in Garbage : \E r \in {parseDocument(FCGX_GetStr(env.contentLength) \o behind)} :
       /\ env' = [env EXCEPT !.jsons = r.value]
       /\ at' = IF r.threw THEN "terminated" ELSE "idle"
  /\ stdin' = Left(env.contentLength)
  /\ UNCHANGED <<rest, parse>>

parseUrlEncoded ==
  /\ BeginBody(<<"application/x-www-form-urlencoded">>)
  /\ env' = [env EXCEPT !.posts = @ \o decodeUrlEncoded(FCGX_GetStr(env.contentLength), <<"&">>)]
  /\ stdin' = Left(env.contentLength)
  /\ UNCHANGED <<at, rest, parse>>

OtherBody ==
  /\ at = "idle" /\ BeginBody(env.contentType)
  /\ env.contentType \notin {<<"application/json">>, <<"application/x-www-form-urlencoded">>,
                             <<"multipart/form-data">>}
  /\ UNCHANGED <<env, stdin, at, rest, parse>>

(* DoParse: a short form in one buffer as long as the content should be,   *)
(* a long one in pieces.                                                   *)
Chunked == env.contentLength > request.bufSize
StartFeed(buffer) == rest' = buffer /\ feed' = Feed(parser', buffer)

DoParse ==
  /\ BeginBody(<<"multipart/form-data">>)
  /\ parser' = IF env.contentLength = 0 THEN parser ELSE setBoundary(env.boundary)
  /\ IF env.contentLength = 0 THEN UNCHANGED <<at, rest, stdin, feed>>
     ELSE IF Chunked THEN at' = "reading" /\ UNCHANGED <<rest, stdin, feed>>
     ELSE LET got == FCGX_GetStr(env.contentLength)
          IN  /\ at' = "feeding" /\ stdin' = Left(env.contentLength)
              /\ StartFeed(got \o [n \in 1..(env.contentLength - Len(got)) |-> "NUL"])
  /\ UNCHANGED <<env, form, failures>>

ReadChunk ==
  /\ at = "reading"
  /\ stdin # <<>>
  /\ stdin' = Left(request.bufSize)
  /\ UNCHANGED <<request, env, parsed, parser, form, failures>>
  /\ at' = "feeding" /\ StartFeed(FCGX_GetStr(request.bufSize))

FeedStep ==
  /\ at = "feeding" /\ FeedByte
  /\ UNCHANGED <<request, env, parsed, stdin, at, rest>>

Fed == IF i > Len(feed.buffer) THEN Len(feed.buffer) ELSE i - 1
Unfed == SubSeq(rest, Fed + 1, Len(rest))
stopped == parser.state \in {"END", "ERROR"}

(* feed() returned: the inner loop goes on with what it did not take.      *)
FeedAgain ==
  /\ at = "feeding" /\ ~feed.on
  /\ Unfed # <<>> /\ ~stopped
  /\ UNCHANGED <<request, env, parsed, stdin, at, parser, form, failures>>
  /\ StartFeed(Unfed)

FedAll ==
  /\ at = "feeding" /\ ~feed.on
  /\ Unfed = <<>> \/ stopped
  /\ at' = IF Chunked THEN "reading" ELSE "done"
  /\ rest' = <<>> /\ feed' = NoFeed
  /\ UNCHANGED <<request, env, parsed, stdin, parser, form, failures>>

(* The end of DoParse and parseMultipart: the parts are moved unless one   *)
(* failed.  The callbacks' handler goes, with whatever it still has open.  *)
Fields(type) == SelectSeq(form.data, LAMBDA d : d[2].type = type)

MoveParts ==
  /\ \/ at = "done"
     \/ at = "reading" /\ stdin = <<>>
  /\ LET text == Fields(0)
         file == Fields(1)
     IN  env' = IF form.err THEN env
                ELSE [env EXCEPT !.posts = @ \o [n \in DOMAIN text |-> <<text[n][1], text[n][2].value>>],
                                 !.files = @ \o file]
  /\ at' = "idle"
  /\ UNCHANGED <<request, parsed, stdin, rest, parse>>

(* ~HttpEnv(), with the last reference to the request.                     *)
DestroyEnv ==
  /\ at = "idle"
  /\ at' = "destroyed"
  /\ form' = [form EXCEPT !.disk = @ \ {f[2].path : f \in ToSet(env.files)}]
  /\ UNCHANGED <<request, env, parsed, stdin, rest, parser, feed, failures>>

EnvGone == at \in {"destroyed", "terminated"} /\ UNCHANGED envVars

EnvNext ==
  \/ ParseHeader \/ parseJson \/ parseUrlEncoded \/ OtherBody \/ DoParse
  \/ ReadChunk \/ FeedStep \/ FeedAgain \/ FedAll \/ MoveParts \/ DestroyEnv \/ EnvGone

EnvSpec == EnvInit /\ [][EnvNext]_envVars

-----------------------------------------------------------------------------
BodyRead == at \in {"idle", "destroyed"} /\ parsed = <<"header", "body">>

(* A complete form of fields with different names comes out as it was sent *)
(* wherever the pieces it is fed in are cut, whatever its data have in     *)
(* common with the boundary: every text field with its value, every file   *)
(* with its bytes; or, if a file cannot be written, none of them does.     *)
(* Only the entry without a name that the bytes after the end of the form  *)
(* can leave is not counted.                                               *)
Distinct(fields) == \A m, n \in DOMAIN fields : fields[m].key = fields[n].key => m = n
Complete == request.client.kind = "form" /\ Distinct(request.client.fields)
SentOf(isFile) ==
  LET some == SelectSeq(request.client.fields, LAMBDA f : f.file = isFile)
  IN  [n \in DOMAIN some |-> <<<<some[n].key>>, some[n].value>>]
Named(s) == SelectSeq(s, LAMBDA d : d[1] # <<>>)

FormAsSent ==
  BodyRead /\ Complete =>
    IF form.err THEN failures > 0 /\ env.posts = <<>> /\ env.files = <<>>
    ELSE /\ Named(env.posts) = SentOf(FALSE)
         /\ [n \in DOMAIN env.files |-> <<env.files[n][1], env.files[n][2].value>>] = SentOf(TRUE)
         /\ \A n \in DOMAIN env.files : env.files[n][2].size = Len(env.files[n][2].value)

(* When the request is gone, so are its temporary files, even those of a   *)
(* body that broke off, unless a write failed; and no descriptor is left   *)
(* open by a complete form, even if one did.                               *)
NothingLeft ==
  at = "destroyed" =>
    /\ ~form.err => form.disk = {}
    /\ Complete => form.open = {}

(* Url-encoded fields come out as they were sent, in the query, in the     *)
(* cookies and in the body, except for a last one whose value is empty;    *)
(* and the parts of the path and the languages do.                         *)
Decoded(pairs) == IF pairs # <<>> /\ Last(pairs)[2] = <<>> THEN Front(pairs) ELSE pairs

UrlFieldsAsSent ==
  request.client.kind = "url" =>
    /\ env.contentType # <<>> =>
         /\ env.gets = Decoded(request.client.pairs) /\ env.cookies = env.gets
         /\ env.pathInfo = request.client.path /\ env.acceptLanguages = request.client.langs
    /\ BodyRead => env.posts = Decoded(request.client.pairs)

(* A JSON body that is an object or an array is read as it was sent,       *)
(* whatever stands behind it in memory; only one nested deeper than the    *)
(* reader's limit ends the process.  Of one with an error, as is a number  *)
(* out of double's range, what stands before the error is read.            *)
JsonAsSent ==
  request.client.kind = "json" =>
    /\ BodyRead => env.jsons = request.client.json
    /\ at = "terminated" => request.client.deep

=============================================================================
