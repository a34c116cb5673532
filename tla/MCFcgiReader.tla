---------------------------- MODULE MCFcgiReader ----------------------------
(***************************************************************************)
(* FcgiReader for TLC: headers of two bytes, and a handful of requests, of *)
(* two parameters and up to three bytes of body, cut into records in       *)
(* different ways and mixed with records of other kinds.                   *)
(***************************************************************************)
EXTENDS FcgiReader

Data(x, n) == [i \in 1 .. n |-> <<"data", 0, x, i>>]

(* A pair with short lengths, and one whose value has a long one.          *)
Pair1 == <<Data("a", 1), Data("b", 1)>>
Pair2 == <<Data("c", 1), Data("d", 2)>>
Pair1Bytes == <<<<"len", 1>>, <<"len", 1>>>> \o Pair1[1] \o Pair1[2]
Pair2Bytes == <<<<"len", 1>>, <<"long", 2>>, <<"len", 0>>>> \o Pair2[1] \o Pair2[2]

Body == Data("x", 3)

Record(t, id, bytes, n) == [type |-> t, id |-> id, content |-> bytes, pad |-> n]

Begin(r, n)   == Record("begin", 1, [i \in 1 .. HeaderLen |-> <<"begin", 0, r>>], n)
Params(bytes, n) == Record("params", 1, bytes, n)
Stdin(bytes, n)  == Record("stdin", 1, bytes, n)
Values        == Record("getValues", 0, <<<<"len", 1>>, <<"len", 0>>>> \o Data("v", 1), 2)
Unknown(n)    == Record("unknown", 0, Data("u", n), 0)
Foreign(t, n) == Record(t, 2, Data("f", n), 0)
BeginOther    == [Begin("responder", 0) EXCEPT !.id = 2]

Request(records, ps, bs) == [records |-> records, params |-> ps, body |-> bs]

Plain ==
  Request(<<Begin("responder", 0), Params(Pair1Bytes, 1), Params(<<>>, 0),
            Stdin(Body, 1), Stdin(<<>>, 0)>>, <<Pair1>>, Body)

(* A pair cut in the middle, the body in two records.                      *)
Cut ==
  Request(<<Begin("responder", 0), Params(SubSeq(Pair2Bytes, 1, 4), 0),
            Params(SubSeq(Pair2Bytes, 5, 6), 2), Params(<<>>, 0),
            Stdin(SubSeq(Body, 1, 2), 0), Stdin(SubSeq(Body, 3, 3), 1), Stdin(<<>>, 0)>>,
          <<Pair2>>, Body)

(* Other records in between.                                               *)
Mixed ==
  Request(<<Values, Begin("responder", 0), BeginOther, Params(Pair1Bytes, 0), Values,
            Params(Pair2Bytes, 0), Foreign("params", 2), Params(<<>>, 0),
            Unknown(0), Stdin(Body, 0), Foreign("stdin", 1), Stdin(<<>>, 0)>>,
          <<Pair1, Pair2>>, Body)

(* Requests that mix records up.                                           *)
PaddedBegin ==
  Request(<<Begin("responder", 1), Params(Pair1Bytes, 0), Params(<<>>, 0), Stdin(<<>>, 0)>>,
          <<Pair1>>, <<>>)
Swallowed ==
  Request(<<Begin("responder", 0), Params(Pair1Bytes, 0), Foreign("params", 0),
            Params(Pair2Bytes, 0), Params(<<>>, 0), Stdin(<<>>, 0)>>, <<Pair1, Pair2>>, <<>>)
UnknownContent ==
  Request(<<Begin("responder", 0), Unknown(2), Params(Pair1Bytes, 0), Params(<<>>, 0),
            Stdin(<<>>, 0)>>, <<Pair1>>, <<>>)

(* Requests to refuse.                                                     *)
BadRole    == Request(<<Begin("other", 0)>>, <<>>, <<>>)
BadOrder   == Request(<<Begin("responder", 0), Stdin(Body, 0)>>, <<>>, Body)
OldVersion == Request(<<Record("badVersion", 1, <<>>, 0)>>, <<>>, <<>>)
ShortBegin == Request(<<Record("begin", 1, Data("s", 1), 0)>>, <<>>, <<>>)

MCRequests == {Plain, Cut, Mixed, PaddedBegin, Swallowed, UnknownContent,
               BadRole, BadOrder, OldVersion, ShortBegin}

(* A well formed request on its own, for the runs that refute a comment.   *)
MCCut    == {Cut}
MCPadded == {PaddedBegin}

(* A misread header ends the request with an error, is a record of a byte  *)
(* of the body, or one of management with a byte to answer.                *)
MCMisread ==
  {[type |-> t[1], id |-> t[2], clen |-> 1, plen |-> 0] :
     t \in {<<"badVersion", 0>>, <<"stdin", 1>>, <<"unknown", 0>>}}
=============================================================================
