----------------------------- MODULE RedisHelp -----------------------------
(***************************************************************************)
(* libCommon/RedisHelp.cpp: the Redis client of a request handler.  Nearly *)
(* every function sends its command through redisCommandMy, which connects *)
(* again when the connection is gone and then sends the command again.     *)
(*                                                                         *)
(* The functions are rows of tables: how a function sends, its command,    *)
(* the replies it takes for success, and those that make it say that the   *)
(* key is there.  Of the data only the key of the call is kept, and of it  *)
(* only in which databases it is; other clients set and remove it, and it  *)
(* expires.  hiredis and the server are external: a context is null, open, *)
(* or broken after an error, when further commands get no reply.  A reply  *)
(* may be lost before or after the server has applied the command.         *)
(*                                                                         *)
(* m_ip, m_port and m_Auth, which a new connection uses, hold the server's *)
(* from the handler's constructor on: RedisConnect and Auth set them.      *)
(***************************************************************************)
EXTENDS Naturals, Sequences

CONSTANTS
  DBs,          (* databases; a new connection is in 0                      *)
  MaxValues     (* bound: values or keys given to the functions that loop   *)

ASSUME RedisAssumption == 0 \in DBs /\ DBs \subseteq Nat /\ MaxValues \in Nat \ {0}

VARIABLES
  conn,         (* the handler's redisContext and the server's side of it   *)
  store,        (* in which databases the key is                            *)
  call,         (* the function being called and where it is                *)
  selected,     (* history: the database of the last SelectDB to return     *)
                (* true                                                     *)
  astray,       (* history: since then the connection was replaced, or that *)
                (* SelectDB was refused                                     *)
  hist          (* history of the command: times applied, where; of the     *)
                (* call: connected again, databases the key was seen in     *)

redis == <<conn, store, call, selected, astray, hist>>

-----------------------------------------------------------------------------
(* Commands: what they leave of a key that is there (TRUE) or is not, and  *)
(* the type of their reply.  "busy" is the error redisCommandMy retries.   *)

Types   == {"string", "array", "integer", "nil", "status", "error", "busy"}
Replies == [type : Types \cup {"none"}, hit : BOOLEAN]
NoReply == [type |-> "none", hit |-> FALSE]

Put  == [there \in BOOLEAN |-> {TRUE}]
Drop == [there \in BOOLEAN |-> {FALSE}]
Take == [there \in BOOLEAN |-> IF there THEN BOOLEAN ELSE {FALSE}]
Keep == [there \in BOOLEAN |-> {there}]

Always(type) == [there \in BOOLEAN |-> type]
OrNil(type)  == [there \in BOOLEAN |-> IF there THEN type ELSE "nil"]

Command(leaves, types) == [leaves |-> leaves, types |-> types, select |-> FALSE]
Read(types) == Command(Keep, types)
Exists == Read(Always("integer"))
SelectNothing == Read(Always("status"))   (* deviation: no SELECT is sent   *)
Select == [Read(Always("status")) EXCEPT !.select = TRUE]
Write  == Command(Put, Always("integer"))
Del    == Command(Drop, Always("integer"))
TakeOut == Command(Take, Always("integer"))
Pop    == Command(Take, OrNil("string"))

(* A function: `by` is how it sends its command, `ok` the types of reply   *)
(* it returns true for, `found` the <<type, not empty>> of reply that set  *)
(* its parameter keyExist, fieldExist or isMem.                            *)
Fn(by, command, ok, found) ==
  [by |-> by, command |-> command, ok |-> ok, found |-> found]
Send(command, ok)       == Fn("one", command, ok, {})
Ask(command, ok, found) == Fn("one", command, ok, found)
CheckThenAsk(type, ok)  == Fn("checked", Read(Always(type)), ok, Types \X BOOLEAN)
Some(type) == {<<type, TRUE>>}

(* The functions in the order of the file.                                 *)
KeyFunctions ==
  [SelectDB   |-> Send(Select, Types),
   DelKey     |-> Send(Del, Types),
   SetKeyTTL  |-> Send(Read(Always("integer")), Types),
   GetKeyTTL  |-> Ask(Read(Always("integer")), {"integer"}, Some("integer")),
   GetAllKeys |-> Ask(Read(Always("array")), {"array"}, {"array"} \X BOOLEAN),
   SetKey     |-> Send(Command(Put, Always("status")), Types)]

StringFunctions ==
  [GetStrValue      |-> Ask(Read(OrNil("string")), Types, Some("string")),
   GetBatchStrValue |-> Send(Read(Always("array")), Types \cup {"none"}),
   SetStrValue      |-> Send(Command(Put, Always("status")), Types),
   IsKeyExist       |-> Ask(Exists, {"integer"}, Some("integer"))]

SetFunctions ==
  [IsSetMember       |-> Ask(Read(Always("integer")), {"integer"}, Some("integer")),
   GetSetValue       |-> CheckThenAsk("array", {"array"}),
   mGetSetInterValue |-> Fn("checked twice", Read(Always("array")), {"array"}, Types \X BOOLEAN),
   AddSetValue       |-> Send(Write, Types),
   SetSetValue       |-> Fn("each or delete", Write, Types, {})]

SetAndHashWrites ==
  [RemSetValue      |-> Send(TakeOut, Types),
   batchAddSetValue |-> Fn("argv", Write, {"integer"}, {}),
   batchRemSetValue |-> Fn("argv", TakeOut, {"integer"}, {}),
   AddHashValue     |-> Send(Write, Types),
   delHashValue     |-> Send(TakeOut, Types),
   incrHashValue    |-> Send(Write, Types)]

HashReads ==
  [isMemInHash       |-> Ask(Read(Always("integer")), {"integer"}, Some("integer")),
   getHashAllValue   |-> Ask(Read(Always("array")), {"array"}, Some("array")),
   GetHashFieldValue |-> Ask(Read(OrNil("string")), {"string", "nil"}, Some("string"))]

HashBatches ==
  [mSetHashValue |-> Fn("argv", Command(Put, Always("status")), {"status"}, {}),
   mGetHashValue |-> Send(Read(Always("array")), {"array"}),
   getListLen    |-> CheckThenAsk("integer", {"string", "integer"})]

ListPushes ==
  [LPUSHList          |-> Send(Write, Types),
   RPUSHList          |-> Send(Write, Types),
   RPUSHListAndGetLen |-> Send(Write, {"integer"}),
   RPUSHListBinMem    |-> Send(Write, {"integer"}),
   LPUSHXList         |-> Send(Read(Always("integer")), Types),
   RPUSHXList         |-> Send(Read(Always("integer")), Types),
   batchRPUSHList     |-> Fn("each", Write, Types, {})]

ListPops ==
  [batchLPUSHList |-> Fn("each", Write, Types, {}),
   RPOPList       |-> Ask(Pop, {"string", "nil"}, Some("string")),
   LPOPList       |-> Ask(Pop, {"string", "nil"}, Some("string")),
   LPOPListBinMem |-> Ask(Pop, {"string", "nil"}, Some("string")),
   LREMList       |-> Send(TakeOut, Types)]

RangesAndScores ==
  [LRANGEList           |-> CheckThenAsk("array", Types),
   addBinMemToSortedSet |-> Send(Write, {"integer"}),
   addMemToSortedSet    |-> Send(Write, {"integer"}),
   getStrMembers        |-> Send(Read(Always("array")), {"nil", "array"})]

ScoreFunctions ==
  [incrBinMemScore        |-> Send(Command(Put, Always("string")), {"string"}),
   UnionPreDaysPlayCntSet |-> Send(Write, {"integer"}),
   incrMemScore           |-> Send(Command(Put, Always("string")), {"string"}),
   getScoreByMember       |-> Send(Read(OrNil("string")), {"nil", "string"})]

RankFunctions ==
  [getDescRankByMember |-> Send(Read(OrNil("integer")), {"nil", "integer"}),
   getRevIntMembers    |-> Send(Read(Always("array")), {"nil", "array"}),
   getBinMemsByScore   |-> Send(Read(Always("array")), {"nil", "array"})]

SortedSetRemovals ==
  [decrScore              |-> Send(Command(Put, Always("string")), {"string"}),
   remRangeByScore        |-> Send(TakeOut, {"integer"}),
   remMemFromSortedSet    |-> Send(TakeOut, {"integer"}),
   getTotalCountSortedSet |-> Send(Read(Always("integer")), {"integer"})]

Pipelines ==
  [PipeGetHashAllValue |-> Fn("pipe", Read(Always("array")), Types, {}),
   PipeZrevrange       |-> Fn("pipe", Read(Always("array")), Types, {})]

Tables == {KeyFunctions, StringFunctions, SetFunctions, SetAndHashWrites, HashReads,
           HashBatches, ListPushes, ListPops, RangesAndScores, ScoreFunctions,
           RankFunctions, SortedSetRemovals, Pipelines}
Names == UNION {DOMAIN t : t \in Tables}
Functions == [f \in Names |-> (CHOOSE t \in Tables : f \in DOMAIN t)[f]]

(* The functions that return at once if they are given nothing.            *)
EmptyArguments ==
  [GetBatchStrValue |-> TRUE, mGetHashValue |-> FALSE,
   getBinMemsByScore |-> FALSE, remRangeByScore |-> FALSE]

-----------------------------------------------------------------------------
(* The context.                                                             *)

Null   == [state |-> "null",   db |-> 0, authed |-> FALSE, unread |-> <<>>]
Broken == [state |-> "broken", db |-> 0, authed |-> FALSE, unread |-> <<>>]
Fresh  == [state |-> "open",   db |-> 0, authed |-> FALSE, unread |-> <<>>]

Idle == [fn |-> "none", arg |-> 0, at |-> "idle", todo |-> <<>>,
         reply |-> NoReply, ret |-> TRUE, found |-> FALSE]

InitRedis ==
  /\ conn = Null /\ call = Idle
  /\ store \in [DBs -> BOOLEAN]
  /\ selected = 0 /\ astray = FALSE
  /\ hist = [applied |-> 0, where |-> {}, again |-> FALSE, seen |-> {}]

(* What AUTH makes of a new connection: it is accepted, refused, or the    *)
(* connection breaks.  RedisConnect gives that connection or none.         *)
Auth == {[Fresh EXCEPT !.authed = TRUE], Fresh, Broken}
RedisConnect == {Null, Fresh}

Seen(h) == [h EXCEPT !.seen = @ \cup {d \in DBs : store'[d]}]

(* The server applies the command; so the store, and the history, change.  *)
Apply(c) ==
  LET d == conn.db IN
  /\ \E t \in c.leaves[store[d]] : store' = [store EXCEPT ![d] = t]
  /\ hist' = Seen([hist EXCEPT !.applied = @ + 1, !.where = @ \cup {d}])

(* The command the call is at.                                             *)
Current ==
  CASE Head(call.todo) = "exists" -> Exists
    [] Head(call.todo) = "delete" -> Del
    [] OTHER -> Functions[call.fn].command

(* redisvCommand or redisCommandArgv: the command is answered by r.  A     *)
(* connection that is not authenticated has every command refused.         *)
Exchange(r) ==
  \/ /\ r = NoReply
     /\ conn.state = "broken" \/ conn.state = "open"
     /\ conn' = Broken /\ UNCHANGED <<store, hist>>
  \/ /\ conn.state = "open" /\ r.type \in {"error", "busy"} /\ ~r.hit
     /\ UNCHANGED <<conn, store, hist>>
  \/ /\ conn.state = "open" /\ conn.authed
     /\ Apply(Current)
     /\ \/ r = NoReply /\ conn' = Broken
        \/ /\ r = [type |-> Current.types[store[conn.db]], hit |-> store[conn.db]]
           /\ conn' = [conn EXCEPT !.db = IF Current.select THEN call.arg ELSE @]

At(from) == call.at = from
Return(ret, found) ==
  call' = [call EXCEPT !.at = "returned", !.todo = <<>>, !.ret = ret, !.found = found]

-----------------------------------------------------------------------------
(* redisCommandMy                                                           *)

(* On no context: connect and authenticate, whatever AUTH says.            *)
ConnectFirst ==
  /\ At("start") /\ conn.state = "null"
  /\ \/ /\ call' = [call EXCEPT !.at = "first"]
        /\ conn' \in Auth
        /\ hist' = [hist EXCEPT !.again = TRUE] /\ astray' = TRUE
     \/ /\ call' = [call EXCEPT !.at = "reply", !.reply = NoReply]
        /\ UNCHANGED <<conn, hist, astray>>
  /\ UNCHANGED <<store, selected>>

(* Then the command is sent, and its reply is dropped.                     *)
SendFirst ==
  /\ At("first")
  /\ \E r \in Replies : Exchange(r)
  /\ call' = [call EXCEPT !.at = "send"]
  /\ UNCHANGED <<selected, astray>>

Answered(r, at) ==
  call' = [call EXCEPT !.reply = r, !.at = IF r.type = "busy" THEN "busy" ELSE at]

(* Deviation: sending again whatever the reply is.                         *)
SendAlwaysTwice ==
  /\ At("send") \/ (At("start") /\ conn.state # "null")
  /\ \E r \in Replies :
       /\ Exchange(r)
       /\ call' = [call EXCEPT !.reply = r, !.at = IF r = NoReply THEN "retry" ELSE "busy"]
  /\ UNCHANGED <<selected, astray>>

SendCommand ==
  /\ At("send") \/ (At("start") /\ conn.state # "null")
  /\ \E r \in Replies :
       /\ Exchange(r)
       /\ Answered(r, IF r = NoReply THEN "retry" ELSE "reply")
  /\ UNCHANGED <<selected, astray>>

(* Without a reply: free the context and connect again; the selected       *)
(* database is not selected again.                                         *)
Reconnect ==
  /\ At("retry")
  /\ \/ conn' \in Auth /\ call' = [call EXCEPT !.at = "resend"]
     \/ conn' = Null /\ call' = [call EXCEPT !.at = "reply"]
  /\ hist' = [hist EXCEPT !.again = TRUE] /\ astray' = TRUE
  /\ UNCHANGED <<store, selected>>

Resend ==
  /\ At("resend")
  /\ \E r \in Replies : Exchange(r) /\ Answered(r, "reply")
  /\ UNCHANGED <<selected, astray>>

(* A conflict with another client: once more.                              *)
SendAfterBusy ==
  /\ At("busy")
  /\ \E r \in Replies :
       /\ Exchange(r)
       /\ call' = [call EXCEPT !.reply = r, !.at = "reply"]
  /\ UNCHANGED <<selected, astray>>

redisCommandMy ==
  ConnectFirst \/ SendFirst \/ SendCommand \/ Reconnect \/ Resend \/ SendAfterBusy

-----------------------------------------------------------------------------
(* The functions.                                                           *)

Commands(f, n) ==
  CASE Functions[f].by = "checked"       -> <<"exists", "own">>
    [] Functions[f].by = "checked twice" -> <<"exists", "exists", "own">>
    [] Functions[f].by \in {"each", "each or delete"} -> [i \in 1 .. n |-> "own"]
    [] OTHER -> <<"own">>

FirstStep(f) ==
  CASE Functions[f].by = "argv" -> IF conn.state = "null" THEN "crashed" ELSE "argv"
    [] Functions[f].by = "pipe" -> IF conn.state = "null" THEN "refused" ELSE "append"
    [] OTHER -> "start"

(* A call of function f, with n values or keys, and for SelectDB database  *)
(* d.  SelectDB alone, and the pipelines, test the context first.          *)
Begin(f, n, d) ==
  /\ f # "SelectDB" => d = 0
  /\ Functions[f].by \notin {"each", "each or delete", "pipe"} => n = 1
  /\ LET refused == FirstStep(f) = "refused" \/ (f = "SelectDB" /\ conn.state = "null")
     IN call' = [Idle EXCEPT !.fn = f, !.arg = d,
                    !.todo = IF Functions[f].by = "pipe" THEN [i \in 1 .. n |-> i]
                             ELSE Commands(f, n),
                    !.at = IF refused \/ n = 0 THEN "returned" ELSE FirstStep(f),
                    !.ret = ~refused]
  /\ hist' = [applied |-> 0, where |-> {}, again |-> FALSE, seen |-> {e \in DBs : store[e]}]
  /\ UNCHANGED <<conn, store, selected, astray>>

BeginEmpty(f) ==
  /\ f \in DOMAIN EmptyArguments
  /\ call' = [Idle EXCEPT !.fn = f, !.at = "returned", !.ret = EmptyArguments[f]]
  /\ hist' = [applied |-> 0, where |-> {}, again |-> FALSE, seen |-> {}]
  /\ UNCHANGED <<conn, store, selected, astray>>

NextCommand(todo, ret) ==
  /\ call' = [call EXCEPT !.at = "start", !.todo = todo, !.ret = ret]
  /\ hist' = [hist EXCEPT !.applied = 0]

(* Deviation: true for any reply.                                          *)
OneReplyBelieved ==
  LET f == Functions[call.fn]  r == call.reply IN
  /\ At("reply") /\ Len(call.todo) = 1
  /\ f.by \in {"one", "argv", "checked", "checked twice"}
  /\ Return(r # NoReply, <<r.type, r.hit>> \in f.found)
  /\ UNCHANGED <<conn, store, selected, astray, hist>>

(* One command: the result is what the tables say of the reply.            *)
OneReply ==
  LET f == Functions[call.fn]  r == call.reply IN
  /\ At("reply") /\ Len(call.todo) = 1
  /\ f.by \in {"one", "argv", "checked", "checked twice"}
  /\ Return(r.type \in f.ok, <<r.type, r.hit>> \in f.found)
  /\ IF call.fn = "SelectDB" /\ r # NoReply
     THEN selected' = call.arg /\ astray' = (r.type # "status")
     ELSE UNCHANGED <<selected, astray>>
  /\ UNCHANGED <<conn, store, hist>>

(* IsKeyExist first: no such key is a success.                             *)
CheckReply ==
  LET r == call.reply IN
  /\ At("reply") /\ Len(call.todo) > 1
  /\ Functions[call.fn].by \in {"checked", "checked twice"}
  /\ IF r.type = "integer" /\ r.hit
     THEN NextCommand(Tail(call.todo), call.ret)
     ELSE Return(r.type = "integer", FALSE) /\ UNCHANGED hist
  /\ UNCHANGED <<conn, store, selected, astray>>

(* One command per value: the first without a reply ends the loop, and     *)
(* SetSetValue deletes the key then.                                       *)
EachReply ==
  LET by == Functions[call.fn].by IN
  /\ At("reply") /\ by \in {"each", "each or delete"}
  /\ IF call.reply = NoReply
     THEN IF by = "each or delete" /\ call.ret
          THEN NextCommand(<<"delete">>, FALSE)
          ELSE Return(FALSE, FALSE) /\ UNCHANGED hist
     ELSE IF Len(call.todo) > 1
          THEN NextCommand(Tail(call.todo), call.ret)
          ELSE Return(call.ret, FALSE) /\ UNCHANGED hist
  /\ UNCHANGED <<conn, store, selected, astray>>

(* redisCommandArgv: neither connects again nor repeats.                   *)
SendArgv ==
  /\ At("argv")
  /\ \E r \in Replies :
       /\ Exchange(r)
       /\ call' = [call EXCEPT !.reply = r, !.at = "reply"]
  /\ UNCHANGED <<selected, astray>>

(* A pipeline: append a command per key, those memory fails for left out;  *)
(* then collect a reply per command, whatever becomes of the others.       *)
AppendCommands ==
  /\ At("append")
  /\ \E n \in 0 .. Len(call.todo) : \E keys \in [1 .. n -> DOMAIN call.todo] :
       /\ \A i, j \in 1 .. n : i < j => keys[i] < keys[j]
       /\ call' = [call EXCEPT !.at = "collect", !.todo = keys]
       /\ conn' = IF conn.state = "open" THEN [conn EXCEPT !.unread = keys] ELSE conn
  /\ UNCHANGED <<store, selected, astray, hist>>

(* Deviation: giving up at the first reply that is an error.               *)
CollectUntilError ==
  /\ At("collect") /\ call.todo # <<>>
  /\ \/ /\ conn' = Broken /\ call' = [call EXCEPT !.todo = Tail(@)]
     \/ /\ conn.state = "open" /\ conn' = [conn EXCEPT !.unread = Tail(@)]
        /\ \/ conn.authed /\ call' = [call EXCEPT !.todo = Tail(@)]
           \/ Return(FALSE, FALSE)
  /\ UNCHANGED <<store, selected, astray, hist>>

CollectReply ==
  /\ At("collect") /\ call.todo # <<>>
  /\ \/ conn' = Broken
     \/ conn.state = "open" /\ conn' = [conn EXCEPT !.unread = Tail(@)]
  /\ call' = [call EXCEPT !.todo = Tail(@)]
  /\ UNCHANGED <<store, selected, astray, hist>>

CollectedAll ==
  /\ At("collect") /\ call.todo = <<>>
  /\ Return(TRUE, FALSE)
  /\ UNCHANGED <<conn, store, selected, astray, hist>>

Done ==
  /\ At("returned")
  /\ call' = Idle
  /\ hist' = [applied |-> 0, where |-> {}, again |-> FALSE, seen |-> {}]
  /\ UNCHANGED <<conn, store, selected, astray>>

(* Other clients set and remove the key; it expires.                       *)
OtherClient ==
  /\ \E d \in DBs : store' = [store EXCEPT ![d] = ~@]
  /\ hist' = IF At("idle") THEN hist ELSE Seen(hist)
  /\ UNCHANGED <<conn, call, selected, astray>>

Function == OneReply \/ CheckReply \/ EachReply \/ SendArgv
            \/ AppendCommands \/ CollectReply \/ CollectedAll \/ Done

BeginFunction ==
  /\ At("idle")
  /\ \E f \in Names : BeginEmpty(f) \/ \E n \in 0 .. MaxValues, d \in DBs : Begin(f, n, d)

-----------------------------------------------------------------------------
(* Properties.                                                              *)

(* redisCommandMy repeats a command, incrHashValue's or RPUSHList's too,   *)
(* that the server may have applied: but only if it connected again, and   *)
(* three times at most.  On a living connection no retry doubles it.       *)
AppliedOnce == hist.applied <= (IF hist.again THEN 3 ELSE 1)

(* The functions that return true whatever the reply is.                   *)
Trusting == {f \in Names : "error" \in Functions[f].ok}

(* A function that looks at its reply returns true only if its command was *)
(* applied, however often connections broke on the way.                    *)
SuccessIsApplied ==
  At("returned") /\ call.ret /\ call.fn \in Names \ (Trusting \cup DOMAIN EmptyArguments)
    => hist.applied >= 1

(* After SelectDB returned true commands go to that database, unless the   *)
(* server refused it, which is not noticed, or the connection was replaced *)
(* since, which is not either: redisCommandMy does not select again.       *)
RightDatabase ==
  ~astray /\ call.fn # "SelectDB"
    => hist.where \subseteq {selected} /\ (conn.state = "open" => conn.db = selected)

(* "keyExist": a function that reports the key saw it during the call, in  *)
(* the database it asked, though it may test and read in two commands.     *)
(* GetAllKeys is left out, which reports keys whatever it finds.           *)
FoundWasThere ==
  At("returned") /\ call.ret /\ call.found /\ call.fn # "GetAllKeys" /\ ~hist.again
    => conn.db \in hist.seen \/ conn.state # "open"

(* Replies stay in step with commands: a pipeline collects the reply of    *)
(* each of its commands and leaves none for the next command's caller.     *)
RepliesInStep ==
  conn.state = "open" => conn.unread = IF At("collect") THEN call.todo ELSE <<>>

=============================================================================
