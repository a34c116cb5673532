----------------------------- MODULE HttpSender -----------------------------
(***************************************************************************)
(* libCommon/HttpSender.cpp: the requests this program sends.  Headers are *)
(* a function of their names; parameters, a map in the code, are pairs in  *)
(* the order of their names.  What libcurl makes of the options is         *)
(* Received.                                                               *)
(***************************************************************************)
EXTENDS JsonWriter, Helper

(* CurlEasyHandler and SetCurlHeaders: the options that are set.           *)
CurlEasyHandler(url, post) == [url |-> url, post |-> post, headers |-> << >>, body |-> <<>>]
SetCurlHeaders(curl, headers) == [curl EXCEPT !.headers = headers]
PostFields(curl, text) == [curl EXCEPT !.body = CString(text)]
Typed(headers, type) == ("Content-Type" :> type) @@ headers

Parameters(params) ==
  FlattenSeq([n \in DOMAIN params |->
    (IF n = 1 THEN <<>> ELSE <<"&">>) \o params[n][1] \o <<"=">> \o params[n][2]])
Encoded(params) == [n \in DOMAIN params |-> <<urlEncode(params[n][1]), urlEncode(params[n][2])>>]
ParamJson(params) ==
  IF params = <<>> THEN JsonNull ELSE Object([n \in DOMAIN params |-> <<params[n][1], String(params[n][2])>>])

SendGetRequest(url, headers, params) ==
  LET joint == IF "?" \in ToSet(url) THEN <<"&">> ELSE <<"?">>
  IN  SetCurlHeaders(CurlEasyHandler(url \o joint \o Parameters(params), FALSE), headers)

SendJsonPostRequest(url, headers, json) ==
  PostFields(SetCurlHeaders(CurlEasyHandler(url, TRUE), Typed(headers, <<"application/json">>)),
             FastWrite(json))
SendParamsPostRequest(url, headers, params) == SendJsonPostRequest(url, headers, ParamJson(params))

SendUrlencodedPostRequest(url, headers, params) ==
  PostFields(SetCurlHeaders(CurlEasyHandler(url, TRUE), Typed(headers, <<"application/x-www-form-urlencoded">>)),
             Parameters(Encoded(params)))

SendXmlPostRequest(url, headers, xml) ==
  PostFields(SetCurlHeaders(CurlEasyHandler(url, TRUE), Typed(headers, <<"application/xml">>)), xml)

(* The headers are copied and never set.                                   *)
SendInkeNtyJsonPostRequest(url, headers, params) ==
  PostFields(CurlEasyHandler(url, TRUE), FastWrite(ParamJson(params)))

-----------------------------------------------------------------------------
(* What the server's parameters are then: the query of the url, and for a  *)
(* post libcurl's own content type where none was given.                   *)
Received(curl) ==
  LET question == SelectInSeq(curl.url, LAMBDA x : x = "?")
      given == "Content-Type" \in DOMAIN curl.headers
  IN  [method |-> IF curl.post THEN <<"POST">> ELSE <<"GET">>,
       query |-> IF question = 0 THEN <<>> ELSE SubSeq(curl.url, question + 1, Len(curl.url)),
       type |-> IF given THEN curl.headers["Content-Type"]
                ELSE IF curl.post THEN <<"application/x-www-form-urlencoded">> ELSE <<>>,
       body |-> curl.body]

=============================================================================
