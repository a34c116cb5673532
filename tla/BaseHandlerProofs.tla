------------------------- MODULE BaseHandlerProofs -------------------------
(***************************************************************************)
(* Theorems about BaseHandler, for any databases, any number of values and *)
(* calls of all the functions in any order: a command is not sent more     *)
(* often than redisCommandMy connects again, what a function reports is    *)
(* so, commands go to the database selected and replies stay in step.      *)
(*                                                                         *)
(* Of the tables the proofs need a few facts about each row (Row).  What a *)
(* call reports when it returns rests on what its last reply implies while *)
(* it is there (Replied, Hit), and, for the functions that test the key    *)
(* before they read it, on what the test has shown (Tested).               *)
(***************************************************************************)
EXTENDS BaseHandler, SequenceTheorems, TLAPS

-----------------------------------------------------------------------------
(* The tables.                                                              *)

Answers == {"string", "array", "integer", "nil", "status"}
Bys     == {"one", "argv", "checked", "checked twice", "each", "each or delete", "pipe"}
CommandType ==
  [leaves : [BOOLEAN -> SUBSET BOOLEAN], types : [BOOLEAN -> Answers], select : BOOLEAN]

Checks(fn) == fn.by \in {"checked", "checked twice"}

(* What the proofs need to know of a row of the tables.                    *)
Row(f, fn) ==
  /\ fn.by \in Bys /\ fn.command \in CommandType
  /\ fn.command.select = (f = "SelectDB")
  /\ f = "SelectDB" => fn.by = "one" /\ fn.found = {} /\ \A b \in BOOLEAN : fn.command.types[b] = "status"
  /\ "error" \notin fn.ok => /\ fn.by \notin {"each", "each or delete", "pipe"}
                             /\ "busy" \notin fn.ok /\ "none" \notin fn.ok
  /\ f # "GetAllKeys" /\ ~Checks(fn) => \A t \in Types \cup {"none"} : <<t, FALSE>> \notin fn.found

LEMMA CommandsType ==
  /\ \A t \in Answers : Always(t) \in [BOOLEAN -> Answers] /\ OrNil(t) \in [BOOLEAN -> Answers]
  /\ \A t \in [BOOLEAN -> Answers] :
       /\ Read(t) \in CommandType /\ Read(t).select = FALSE
       /\ \A l \in {Put, Drop, Take, Keep} : Command(l, t) \in CommandType /\ Command(l, t).select = FALSE
<1>1. {Put, Drop, Take, Keep} \subseteq [BOOLEAN -> SUBSET BOOLEAN]
  BY DEF Put, Drop, Take, Keep
<1>2. \A t \in Answers : Always(t) \in [BOOLEAN -> Answers] /\ OrNil(t) \in [BOOLEAN -> Answers]
  BY DEF Always, OrNil, Answers
<1> QED BY <1>1, <1>2 DEF Command, CommandType, Read

LEMMA SimpleCommands ==
  \A c \in {Exists, Write, Del, TakeOut, Pop} : c \in CommandType /\ c.select = FALSE
<1>1. "integer" \in Answers /\ "string" \in Answers
  BY DEF Answers
<1> QED BY <1>1, CommandsType DEF Exists, Write, Del, TakeOut, Pop

LEMMA KeyFunctionsRows == \A f \in DOMAIN KeyFunctions : Row(f, KeyFunctions[f])
<1>1. DOMAIN KeyFunctions = {"SelectDB", "DelKey", "SetKeyTTL", "GetKeyTTL", "GetAllKeys", "SetKey"}
  BY DEF KeyFunctions
<1>2. /\ Row("DelKey", KeyFunctions.DelKey) /\ Row("SetKeyTTL", KeyFunctions.SetKeyTTL)
      /\ Row("GetKeyTTL", KeyFunctions.GetKeyTTL) /\ Row("GetAllKeys", KeyFunctions.GetAllKeys)
      /\ Row("SetKey", KeyFunctions.SetKey)
  BY CommandsType, SimpleCommands DEF KeyFunctions, Row, Send, Ask, CheckThenAsk, Some, Fn, Bys, Checks, Types, Answers
<1>3. Row("SelectDB", KeyFunctions.SelectDB)
  BY DEF KeyFunctions, Row, Send, Fn, Select, Read, Command, CommandType, Bys, Checks, Keep, Always, Answers, Types
<1> QED BY <1>1, <1>2, <1>3

LEMMA StringFunctionsRows == \A f \in DOMAIN StringFunctions : Row(f, StringFunctions[f])
<1>1. DOMAIN StringFunctions = {"GetStrValue", "GetBatchStrValue", "SetStrValue", "IsKeyExist"}
  BY DEF StringFunctions
<1>2. /\ Row("GetStrValue", StringFunctions.GetStrValue) /\ Row("GetBatchStrValue", StringFunctions.GetBatchStrValue)
      /\ Row("SetStrValue", StringFunctions.SetStrValue) /\ Row("IsKeyExist", StringFunctions.IsKeyExist)
  BY CommandsType, SimpleCommands DEF StringFunctions, Row, Send, Ask, CheckThenAsk, Some, Fn, Bys, Checks, Types, Answers
<1> QED BY <1>1, <1>2

LEMMA SetFunctionsRows == \A f \in DOMAIN SetFunctions : Row(f, SetFunctions[f])
<1>1. DOMAIN SetFunctions = {"IsSetMember", "GetSetValue", "mGetSetInterValue", "AddSetValue",
                             "SetSetValue"}
  BY DEF SetFunctions
<1>2. /\ Row("IsSetMember", SetFunctions.IsSetMember) /\ Row("GetSetValue", SetFunctions.GetSetValue)
      /\ Row("mGetSetInterValue", SetFunctions.mGetSetInterValue) /\ Row("AddSetValue", SetFunctions.AddSetValue)
      /\ Row("SetSetValue", SetFunctions.SetSetValue)
  BY CommandsType, SimpleCommands DEF SetFunctions, Row, Send, Ask, CheckThenAsk, Some, Fn, Bys, Checks, Types, Answers
<1> QED BY <1>1, <1>2

LEMMA SetAndHashWritesRows == \A f \in DOMAIN SetAndHashWrites : Row(f, SetAndHashWrites[f])
<1>1. DOMAIN SetAndHashWrites = {"RemSetValue", "batchAddSetValue", "batchRemSetValue",
                                 "AddHashValue", "delHashValue", "incrHashValue"}
  BY DEF SetAndHashWrites
<1>2. /\ Row("RemSetValue", SetAndHashWrites.RemSetValue) /\ Row("batchAddSetValue", SetAndHashWrites.batchAddSetValue)
      /\ Row("batchRemSetValue", SetAndHashWrites.batchRemSetValue) /\ Row("AddHashValue", SetAndHashWrites.AddHashValue)
      /\ Row("delHashValue", SetAndHashWrites.delHashValue) /\ Row("incrHashValue", SetAndHashWrites.incrHashValue)
  BY CommandsType, SimpleCommands DEF SetAndHashWrites, Row, Send, Ask, CheckThenAsk, Some, Fn, Bys, Checks, Types, Answers
<1> QED BY <1>1, <1>2

LEMMA HashReadsRows == \A f \in DOMAIN HashReads : Row(f, HashReads[f])
<1>1. DOMAIN HashReads = {"isMemInHash", "getHashAllValue", "GetHashFieldValue"}
  BY DEF HashReads
<1>2. /\ Row("isMemInHash", HashReads.isMemInHash) /\ Row("getHashAllValue", HashReads.getHashAllValue)
      /\ Row("GetHashFieldValue", HashReads.GetHashFieldValue)
  BY CommandsType, SimpleCommands DEF HashReads, Row, Send, Ask, CheckThenAsk, Some, Fn, Bys, Checks, Types, Answers
<1> QED BY <1>1, <1>2

LEMMA HashBatchesRows == \A f \in DOMAIN HashBatches : Row(f, HashBatches[f])
<1>1. DOMAIN HashBatches = {"mSetHashValue", "mGetHashValue", "getListLen"}
  BY DEF HashBatches
<1>2. /\ Row("mSetHashValue", HashBatches.mSetHashValue) /\ Row("mGetHashValue", HashBatches.mGetHashValue)
      /\ Row("getListLen", HashBatches.getListLen)
  BY CommandsType, SimpleCommands DEF HashBatches, Row, Send, Ask, CheckThenAsk, Some, Fn, Bys, Checks, Types, Answers
<1> QED BY <1>1, <1>2

LEMMA ListPushesRows == \A f \in DOMAIN ListPushes : Row(f, ListPushes[f])
<1>1. DOMAIN ListPushes = {"LPUSHList", "RPUSHList", "RPUSHListAndGetLen", "RPUSHListBinMem",
                           "LPUSHXList", "RPUSHXList", "batchRPUSHList"}
  BY DEF ListPushes
<1>2. /\ Row("LPUSHList", ListPushes.LPUSHList) /\ Row("RPUSHList", ListPushes.RPUSHList)
      /\ Row("RPUSHListAndGetLen", ListPushes.RPUSHListAndGetLen) /\ Row("RPUSHListBinMem", ListPushes.RPUSHListBinMem)
      /\ Row("LPUSHXList", ListPushes.LPUSHXList) /\ Row("RPUSHXList", ListPushes.RPUSHXList)
      /\ Row("batchRPUSHList", ListPushes.batchRPUSHList)
  BY CommandsType, SimpleCommands DEF ListPushes, Row, Send, Ask, CheckThenAsk, Some, Fn, Bys, Checks, Types, Answers
<1> QED BY <1>1, <1>2

LEMMA ListPopsRows == \A f \in DOMAIN ListPops : Row(f, ListPops[f])
<1>1. DOMAIN ListPops = {"batchLPUSHList", "RPOPList", "LPOPList", "LPOPListBinMem", "LREMList"}
  BY DEF ListPops
<1>2. /\ Row("batchLPUSHList", ListPops.batchLPUSHList) /\ Row("RPOPList", ListPops.RPOPList)
      /\ Row("LPOPList", ListPops.LPOPList) /\ Row("LPOPListBinMem", ListPops.LPOPListBinMem)
      /\ Row("LREMList", ListPops.LREMList)
  BY CommandsType, SimpleCommands DEF ListPops, Row, Send, Ask, CheckThenAsk, Some, Fn, Bys, Checks, Types, Answers
<1> QED BY <1>1, <1>2

LEMMA RangesAndScoresRows == \A f \in DOMAIN RangesAndScores : Row(f, RangesAndScores[f])
<1>1. DOMAIN RangesAndScores = {"LRANGEList", "addBinMemToSortedSet", "addMemToSortedSet",
                                "getStrMembers"}
  BY DEF RangesAndScores
<1>2. /\ Row("LRANGEList", RangesAndScores.LRANGEList) /\ Row("addBinMemToSortedSet", RangesAndScores.addBinMemToSortedSet)
      /\ Row("addMemToSortedSet", RangesAndScores.addMemToSortedSet) /\ Row("getStrMembers", RangesAndScores.getStrMembers)
  BY CommandsType, SimpleCommands DEF RangesAndScores, Row, Send, Ask, CheckThenAsk, Some, Fn, Bys, Checks, Types, Answers
<1> QED BY <1>1, <1>2

LEMMA ScoreFunctionsRows == \A f \in DOMAIN ScoreFunctions : Row(f, ScoreFunctions[f])
<1>1. DOMAIN ScoreFunctions = {"incrBinMemScore", "UnionPreDaysPlayCntSet", "incrMemScore",
                               "getScoreByMember"}
  BY DEF ScoreFunctions
<1>2. /\ Row("incrBinMemScore", ScoreFunctions.incrBinMemScore) /\ Row("UnionPreDaysPlayCntSet", ScoreFunctions.UnionPreDaysPlayCntSet)
      /\ Row("incrMemScore", ScoreFunctions.incrMemScore) /\ Row("getScoreByMember", ScoreFunctions.getScoreByMember)
  BY CommandsType, SimpleCommands DEF ScoreFunctions, Row, Send, Ask, CheckThenAsk, Some, Fn, Bys, Checks, Types, Answers
<1> QED BY <1>1, <1>2

LEMMA RankFunctionsRows == \A f \in DOMAIN RankFunctions : Row(f, RankFunctions[f])
<1>1. DOMAIN RankFunctions = {"getDescRankByMember", "getRevIntMembers", "getBinMemsByScore"}
  BY DEF RankFunctions
<1>2. /\ Row("getDescRankByMember", RankFunctions.getDescRankByMember) /\ Row("getRevIntMembers", RankFunctions.getRevIntMembers)
      /\ Row("getBinMemsByScore", RankFunctions.getBinMemsByScore)
  BY CommandsType, SimpleCommands DEF RankFunctions, Row, Send, Ask, CheckThenAsk, Some, Fn, Bys, Checks, Types, Answers
<1> QED BY <1>1, <1>2

LEMMA SortedSetRemovalsRows == \A f \in DOMAIN SortedSetRemovals : Row(f, SortedSetRemovals[f])
<1>1. DOMAIN SortedSetRemovals = {"decrScore", "remRangeByScore", "remMemFromSortedSet",
                                  "getTotalCountSortedSet"}
  BY DEF SortedSetRemovals
<1>2. /\ Row("decrScore", SortedSetRemovals.decrScore) /\ Row("remRangeByScore", SortedSetRemovals.remRangeByScore)
      /\ Row("remMemFromSortedSet", SortedSetRemovals.remMemFromSortedSet) /\ Row("getTotalCountSortedSet", SortedSetRemovals.getTotalCountSortedSet)
  BY CommandsType, SimpleCommands DEF SortedSetRemovals, Row, Send, Ask, CheckThenAsk, Some, Fn, Bys, Checks, Types, Answers
<1> QED BY <1>1, <1>2

LEMMA PipelinesRows == \A f \in DOMAIN Pipelines : Row(f, Pipelines[f])
<1>1. DOMAIN Pipelines = {"PipeGetHashAllValue", "PipeZrevrange"}
  BY DEF Pipelines
<1>2. /\ Row("PipeGetHashAllValue", Pipelines.PipeGetHashAllValue) /\ Row("PipeZrevrange", Pipelines.PipeZrevrange)
  BY CommandsType, SimpleCommands DEF Pipelines, Row, Send, Ask, CheckThenAsk, Some, Fn, Bys, Checks, Types, Answers
<1> QED BY <1>1, <1>2

LEMMA FunctionRows == \A f \in Names : Row(f, Functions[f])
<1>1. \A t \in Tables : \A f \in DOMAIN t : Row(f, t[f])
  BY KeyFunctionsRows, StringFunctionsRows, SetFunctionsRows, SetAndHashWritesRows, HashReadsRows, HashBatchesRows,
     ListPushesRows, ListPopsRows, RangesAndScoresRows, ScoreFunctionsRows, RankFunctionsRows, SortedSetRemovalsRows,
     PipelinesRows, Zenon DEF Tables
<1>2. ASSUME NEW f \in Names PROVE Row(f, Functions[f])
  <2> DEFINE T == CHOOSE t \in Tables : f \in DOMAIN t
  <2>1. \E t \in Tables : f \in DOMAIN t
    BY Zenon DEF Names
  <2>2. T \in Tables /\ f \in DOMAIN T
    BY <2>1, Zenon
  <2>3. Functions[f] = T[f]
    BY Zenon DEF Functions
  <2> HIDE DEF T
  <2> QED BY <1>1, <2>2, <2>3, Zenon
<1> QED BY <1>2

-----------------------------------------------------------------------------
(* The invariant.                                                           *)

(* The commands still to send, or the keys of a pipeline.                  *)
Tokens   == {"exists", "own", "delete"} \cup Nat
Contexts == [state : {"null", "open", "broken"}, db : DBs, authed : BOOLEAN, unread : Seq(Tokens)]
Steps    == {"idle", "start", "first", "send", "retry", "resend", "busy", "argv", "append", "collect",
             "reply", "returned", "crashed"}
Calls    == [fn : Names \cup {"none"}, arg : DBs, at : Steps, todo : Seq(Tokens), reply : Replies,
             ret : BOOLEAN, found : BOOLEAN]
Histories == [applied : Nat, where : SUBSET DBs, again : BOOLEAN, seen : SUBSET DBs]

RedisType ==
  /\ conn \in Contexts /\ call \in Calls /\ hist \in Histories
  /\ store \in [DBs -> BOOLEAN] /\ selected \in DBs /\ astray \in BOOLEAN

(* How often the command may have been applied at each step of             *)
(* redisCommandMy: once each time it was sent and not answered "busy".     *)
Sent ==
  LET at == call.at  n == hist.applied IN
  /\ at \in {"start", "first", "argv"} => n = 0
  /\ at = "send" => n <= 1
  /\ at \in {"first", "send", "resend"} => hist.again
  /\ at = "resend" => n <= 2
  /\ at = "retry" => n <= 1 \/ (hist.again /\ n <= 2)
  /\ at = "busy" => n = 0 \/ (hist.again /\ n <= 2)
  /\ AppliedOnce

(* A reply that is none of these was to the command as it was applied.     *)
Replied == /\ call.at = "reply" /\ call.reply.type \notin {"none", "error", "busy"} => hist.applied >= 1
           /\ call.at = "retry" => call.reply = NoReply

(* Where the commands go: to the database selected, but that a SELECT was  *)
(* just answered.                                                          *)
Selecting == call.fn = "SelectDB" /\ call.at = "reply" /\ call.reply.type = "status"
InDatabase ==
  /\ conn.state = "open" => /\ Selecting => conn.db = call.arg
                            /\ ~astray => conn.db = selected \/ Selecting
  /\ call.at = "first" => astray
WhereSelected == ~astray /\ call.fn # "SelectDB" => hist.where \subseteq {selected}

(* A call has seen the key where it is, where its reply has found it, and, *)
(* past its tests, where these have found it.                              *)
Watching == call.at \notin {"idle", "returned"} => {d \in DBs : store[d]} \subseteq hist.seen
Present  == conn.db \in hist.seen \/ conn.state # "open"
Hit      == call.at = "reply" /\ call.reply.hit /\ call.fn # "SelectDB" => Present
Tested   == /\ call.fn \in Names /\ Checks(Functions[call.fn]) /\ ~hist.again
            /\ call.at \notin {"idle", "returned", "crashed"} /\ Len(call.todo) = 1
            => Present

(* Before the handler serves it has called nothing.                        *)
Starting ==
  /\ call.at = "idle" => call = Idle
  /\ call.at # "idle" => call.fn \in Names
  /\ call.at \in {"append", "collect"} => Functions[call.fn].by = "pipe"
  /\ handler \in {"connect", "auth", "init"} => call = Idle
  /\ handler \in {"connect", "auth"} => selected = 0 /\ conn.db = 0

QueryType ==
  /\ query \in [fn : {"none", "DoUpdate", "GetUserById"},
                at : {"idle", "execute", "prepare", "catch", "returned", "crashed"},
                error : {"none", "other", "2006", "2013"}, ret : BOOLEAN]
  /\ rows \in Nat

(* How often an update was applied at each step of DoUpdate.               *)
Updating ==
  query.fn = "DoUpdate" =>
    /\ query.at \in {"execute", "catch", "returned", "crashed"}
    /\ query.at \in {"execute", "crashed"} => rows = 0 /\ ~query.ret
    /\ query.at = "catch" => rows = (IF query.error = "2013" THEN 1 ELSE 0) /\ ~query.ret
    /\ query.at = "returned" => IF query.ret THEN rows = 1
                                ELSE rows = (IF query.error = "2013" THEN 1 ELSE 0)

RedisInv == /\ RedisType /\ Starting /\ Sent /\ Replied /\ InDatabase /\ WhereSelected
            /\ Watching /\ Hit /\ Tested /\ RepliesInStep /\ SuccessIsApplied /\ FoundWasThere

IInv == RedisInv /\ QueryType /\ Updating

-----------------------------------------------------------------------------
(* Sending a command.                                                       *)

LEMMA CurrentCommand ==
  ASSUME RedisType, call.fn \in Names
  PROVE  /\ Current \in CommandType
         /\ Current.select => call.fn = "SelectDB" /\ \A b \in BOOLEAN : Current.types[b] = "status"
         /\ call.fn = "SelectDB" => Current.select \/ \A b \in BOOLEAN : Current.types[b] = "integer"
<1>1. Current \in {Exists, Del, Functions[call.fn].command}
  BY Zenon DEF Current
<1>2. Row(call.fn, Functions[call.fn])
  BY FunctionRows
<1>3. \A c \in {Exists, Del} : c \in CommandType /\ c.select = FALSE /\ \A b \in BOOLEAN : c.types[b] = "integer"
  <2>1. \A b \in BOOLEAN : Always("integer")[b] = "integer"
    BY DEF Always
  <2>2. Exists.types = Always("integer") /\ Del.types = Always("integer")
    BY DEF Exists, Del, Read, Command
  <2> QED BY <2>1, <2>2, SimpleCommands
<1> QED BY <1>1, <1>2, <1>3 DEF Row

(* What an exchange may do to the connection, the key and the history.     *)
LEMMA ExchangeSteps ==
  ASSUME RedisType, Watching, call.at \notin {"idle", "returned"}, call.fn \in Names, NEW r \in Replies, Exchange(r)
  PROVE  /\ conn' \in Contexts /\ store' \in [DBs -> BOOLEAN] /\ hist' \in Histories
         /\ hist'.again = hist.again /\ hist'.applied \in {hist.applied, hist.applied + 1}
         /\ r.type \notin {"none", "error", "busy"} => hist'.applied >= 1
         /\ r.type = "busy" => hist'.applied = hist.applied
         /\ conn'.state = "open" =>
              /\ conn.state = "open" /\ conn'.unread = conn.unread
              /\ conn'.db # conn.db => call.fn = "SelectDB" /\ r.type = "status"
              /\ call.fn = "SelectDB" /\ r.type = "status" => conn'.db = call.arg
         /\ hist'.where = hist.where \/ (conn.state = "open" /\ hist'.where = hist.where \cup {conn.db})
         /\ hist.seen \subseteq hist'.seen /\ {d \in DBs : store'[d]} \subseteq hist'.seen
         /\ r.hit => conn.db \in hist.seen
<1> USE DEF RedisType
<1>1. CASE r = NoReply /\ conn' = Broken /\ UNCHANGED <<store, hist>>
  BY <1>1, RedisAssumption DEF Broken, Contexts, NoReply, Watching
<1>2. CASE conn.state = "open" /\ r.type \in {"error", "busy"} /\ ~r.hit /\ UNCHANGED <<conn, store, hist>>
  BY <1>2 DEF Watching
<1>3. ASSUME conn.state = "open", Apply(Current),
             \/ r = NoReply /\ conn' = Broken
             \/ /\ r = [type |-> Current.types[store[conn.db]], hit |-> store[conn.db]]
                /\ conn' = [conn EXCEPT !.db = IF Current.select THEN call.arg ELSE @]
      PROVE  /\ conn' \in Contexts /\ store' \in [DBs -> BOOLEAN] /\ hist' \in Histories
             /\ hist'.again = hist.again /\ hist'.applied = hist.applied + 1 /\ r.type # "busy"
             /\ conn'.state = "open" =>
                  /\ conn.state = "open" /\ conn'.unread = conn.unread
                  /\ conn'.db # conn.db => call.fn = "SelectDB" /\ r.type = "status"
                  /\ call.fn = "SelectDB" /\ r.type = "status" => conn'.db = call.arg
             /\ hist'.where = hist.where \cup {conn.db}
             /\ hist.seen \subseteq hist'.seen /\ {d \in DBs : store'[d]} \subseteq hist'.seen
             /\ r.hit => conn.db \in hist.seen
  <2>0. conn.db \in DBs /\ store[conn.db] \in BOOLEAN /\ call.arg \in DBs
    BY DEF Contexts, Calls
  <2>1. /\ Current \in CommandType
        /\ Current.select => call.fn = "SelectDB" /\ \A b \in BOOLEAN : Current.types[b] = "status"
        /\ call.fn = "SelectDB" => Current.select \/ \A b \in BOOLEAN : Current.types[b] = "integer"
    BY CurrentCommand
  <2>2. store' \in [DBs -> BOOLEAN]
    <3>1. PICK t \in Current.leaves[store[conn.db]] : store' = [store EXCEPT ![conn.db] = t]
      BY <1>3 DEF Apply
    <3>2. t \in BOOLEAN
      BY <2>0, <2>1 DEF CommandType
    <3> QED BY <3>1, <3>2
  <2> DEFINE h == [hist EXCEPT !.applied = @ + 1, !.where = @ \cup {conn.db}]
  <2>3. h.applied = hist.applied + 1 /\ h.where = hist.where \cup {conn.db} /\ h.again = hist.again /\ h.seen = hist.seen
    BY DEF Histories
  <2>4. h \in Histories
    <3> DEFINE n == hist.applied + 1
               w == hist.where \cup {conn.db}
    <3>1. n \in Nat /\ w \in SUBSET DBs /\ h = [hist EXCEPT !.applied = n, !.where = w]
      BY <2>0 DEF Histories
    <3> HIDE DEF n, w, h
    <3> QED BY <3>1 DEF Histories
  <2>5. hist' = [h EXCEPT !.seen = h.seen \cup {d \in DBs : store'[d]}]
    BY <1>3 DEF Apply, Seen
  <2>6. /\ hist' \in Histories
        /\ hist'.applied = hist.applied + 1 /\ hist'.where = hist.where \cup {conn.db} /\ hist'.again = hist.again
        /\ hist'.seen = hist.seen \cup {d \in DBs : store'[d]}
    <3> HIDE DEF h
    <3> QED BY <2>3, <2>4, <2>5 DEF Histories
  <2>7. conn' \in Contexts
    <3>1. CASE conn' = Broken
      BY <3>1, RedisAssumption DEF Broken, Contexts
    <3>2. CASE conn' # Broken
      <4>1. PICK d \in DBs : conn' = [conn EXCEPT !.db = d]
        BY <1>3, <2>0, <3>2
      <4> QED BY <4>1 DEF Contexts
    <3> QED BY <3>1, <3>2
  <2>8. /\ r.type # "busy"
        /\ conn'.state = "open" =>
             /\ conn'.unread = conn.unread
             /\ conn'.db # conn.db => call.fn = "SelectDB" /\ r.type = "status"
             /\ call.fn = "SelectDB" /\ r.type = "status" => conn'.db = call.arg
        /\ r.hit => store[conn.db]
    BY <1>3, <2>0, <2>1 DEF Broken, NoReply, CommandType, Answers, Contexts
  <2>9. r.hit => conn.db \in hist.seen
    BY <2>0, <2>8 DEF Watching
  <2> QED BY <1>3, <2>2, <2>6, <2>7, <2>8, <2>9
<1> QED BY <1>1, <1>2, <1>3 DEF Exchange, Histories

(* What it leaves of the invariant.                                        *)
SentWell == /\ RedisType /\ Starting /\ Replied /\ InDatabase /\ WhereSelected
            /\ Watching /\ Hit /\ Tested /\ RepliesInStep

Sending == {"start", "first", "send", "resend", "busy", "argv"}

LEMMA SendingStep ==
  ASSUME RedisInv, NEW r \in Replies, Exchange(r), call.at \in Sending, handler' \in {"serving", "crashed"},
         NEW a \in {"send", "busy", "retry", "reply"},
         \/ a = "send" /\ call' = [call EXCEPT !.at = a]
         \/ a # "send" /\ call' = [call EXCEPT !.reply = r, !.at = a],
         r.type = "status" => a = "reply" \/ call.at = "first",  a = "retry" => r = NoReply,
         UNCHANGED <<selected, astray>>
  PROVE  /\ SentWell'
         /\ hist'.again = hist.again /\ hist'.applied \in {hist.applied, hist.applied + 1}
         /\ r.type = "busy" => hist'.applied = hist.applied
<1>1. call \in Calls /\ call.fn \in Names /\ call.at \notin {"idle", "returned"}
  BY DEF RedisInv, RedisType, Starting, Sending
<1>2. /\ call'.at = a /\ (a # "send" => call'.reply = r) /\ call'.fn = call.fn /\ call'.arg = call.arg /\ call'.todo = call.todo
      /\ call'.ret = call.ret /\ call'.found = call.found
  BY <1>1 DEF Calls
<1>3. call' \in Calls
  <2>1. a \in Steps
    BY DEF Steps
  <2> QED BY <1>1, <2>1 DEF Calls
<1>4. /\ conn' \in Contexts /\ store' \in [DBs -> BOOLEAN] /\ hist' \in Histories
      /\ hist'.again = hist.again /\ hist'.applied \in {hist.applied, hist.applied + 1}
      /\ r.type \notin {"none", "error", "busy"} => hist'.applied >= 1
      /\ r.type = "busy" => hist'.applied = hist.applied
      /\ conn'.state = "open" =>
           /\ conn.state = "open" /\ conn'.unread = conn.unread
           /\ conn'.db # conn.db => call.fn = "SelectDB" /\ r.type = "status"
           /\ call.fn = "SelectDB" /\ r.type = "status" => conn'.db = call.arg
      /\ hist'.where = hist.where \/ (conn.state = "open" /\ hist'.where = hist.where \cup {conn.db})
      /\ hist.seen \subseteq hist'.seen /\ {d \in DBs : store'[d]} \subseteq hist'.seen
      /\ r.hit => conn.db \in hist.seen
  BY <1>1, ExchangeSteps DEF RedisInv
<1>5. RedisType'
  BY <1>3, <1>4 DEF RedisInv, RedisType
<1>6. Starting'
  BY <1>1, <1>2 DEF Starting
<1>7. Replied'
  BY <1>2, <1>4 DEF Replied
<1>8. InDatabase'
  <2>1. ~Selecting
    BY DEF Selecting, Sending
  <2>2. Selecting' = (call.fn = "SelectDB" /\ a = "reply" /\ r.type = "status")
    BY <1>2 DEF Selecting
  <2>3. call.at = "first" => astray
    BY DEF RedisInv, InDatabase
  <2>4. conn.state = "open" /\ ~astray => conn.db = selected
    BY <2>1 DEF RedisInv, InDatabase
  <2> QED BY <1>2, <1>4, <2>2, <2>3, <2>4 DEF InDatabase
<1>9. WhereSelected'
  <2>1. ~astray /\ call.fn # "SelectDB" /\ conn.state = "open" => conn.db = selected
    BY DEF RedisInv, InDatabase, Selecting
  <2> QED BY <1>2, <1>4, <2>1 DEF RedisInv, WhereSelected
<1>10. Watching'
  BY <1>4 DEF Watching
<1>11. Hit'
  BY <1>2, <1>4 DEF Hit, Present
<1>12. Tested'
  <2>1. Checks(Functions[call.fn]) => call.fn # "SelectDB"
    BY <1>1, FunctionRows DEF Row, Checks
  <2>2. Tested /\ call.at \notin {"idle", "returned", "crashed"}
    BY DEF RedisInv, Sending
  <2> QED BY <1>1, <1>2, <1>4, <2>1, <2>2 DEF Tested, Present
<1>13. RepliesInStep'
  BY <1>2, <1>4 DEF RedisInv, RepliesInStep, At, Sending
<1> QED BY <1>4, <1>5, <1>6, <1>7, <1>8, <1>9, <1>10, <1>11, <1>12, <1>13 DEF SentWell

(* Nothing is promised before the call returns.                            *)
LEMMA NotReturned == call'.at # "returned" => SuccessIsApplied' /\ FoundWasThere'
BY DEF SuccessIsApplied, FoundWasThere, At

(* A new connection, or none.                                              *)
LEMMA NewContexts ==
  /\ \A c \in Auth \cup {Null, Fresh, Broken} : c \in Contexts /\ c.unread = <<>> /\ c.db = 0
  /\ Null.state = "null" /\ Fresh.state = "open" /\ Broken.state = "broken"
<1>1. <<>> \in Seq(Tokens) /\ 0 \in DBs
  BY RedisAssumption
<1>2. ASSUME NEW s \in {"null", "open", "broken"}, NEW b \in BOOLEAN
      PROVE  LET c == [state |-> s, db |-> 0, authed |-> b, unread |-> <<>>] IN c \in Contexts /\ c.unread = <<>> /\ c.db = 0
  BY <1>1 DEF Contexts
<1>3. \A c \in {Null, Fresh, Broken} : c \in Contexts /\ c.unread = <<>> /\ c.db = 0
  BY <1>2 DEF Null, Fresh, Broken
<1>5. [Fresh EXCEPT !.authed = TRUE] \in Contexts /\ [Fresh EXCEPT !.authed = TRUE].unread = <<>>
      /\ [Fresh EXCEPT !.authed = TRUE].db = 0
  BY <1>3 DEF Contexts
<1>6. \A c \in {[Fresh EXCEPT !.authed = TRUE]} : c \in Contexts /\ c.unread = <<>> /\ c.db = 0
  BY <1>5, Zenon
<1>4. Null.state = "null" /\ Fresh.state = "open" /\ Broken.state = "broken"
  BY DEF Null, Fresh, Broken
<1> QED BY <1>3, <1>4, <1>6, Zenon DEF Auth

LEMMA CommandStep ==
  ASSUME RedisInv, redisCommandMy \/ SendArgv, handler' \in {"serving", "crashed"}
  PROVE  RedisInv'
<1>0. RedisType /\ Sent /\ call \in Calls /\ hist \in Histories
  BY DEF RedisInv, RedisType
<1>1. CASE ConnectFirst
  <2>1. call.at = "start" /\ conn.state = "null" /\ UNCHANGED <<store, selected>>
    BY <1>1 DEF ConnectFirst, At
  <2>2. call.fn \in Names
    BY <2>1 DEF RedisInv, Starting
  <2>3. CASE call' = [call EXCEPT !.at = "first"] /\ conn' \in Auth /\ hist' = [hist EXCEPT !.again = TRUE] /\ astray' = TRUE
    <3>1. /\ call' \in Calls /\ call'.at = "first" /\ call'.fn = call.fn /\ hist' \in Histories
          /\ hist'.again = TRUE /\ hist'.applied = hist.applied /\ hist'.seen = hist.seen
      BY <1>0, <2>3 DEF Calls, Histories, Steps
    <3>2. conn' \in Contexts /\ conn'.unread = <<>>
      BY <2>3, NewContexts
    <3>3. SentWell'
      BY <2>1, <2>2, <2>3, <3>1, <3>2
         DEF SentWell, RedisInv, RedisType, Starting, Replied, InDatabase, Selecting, WhereSelected, Watching, Hit, Tested,
             RepliesInStep, At
    <3>4. Sent'
      BY <1>0, <2>1, <3>1 DEF Sent, AppliedOnce, Histories
    <3> QED BY <3>1, <3>3, <3>4, NotReturned DEF SentWell, RedisInv
  <2>4. CASE call' = [call EXCEPT !.at = "reply", !.reply = NoReply] /\ UNCHANGED <<conn, hist, astray>>
    <3>1. /\ call' \in Calls /\ call'.at = "reply" /\ call'.reply = NoReply /\ call'.fn = call.fn
      BY <1>0, <2>4 DEF Calls, Steps, Replies, NoReply
    <3>2. SentWell'
      BY <2>1, <2>2, <2>4, <3>1
         DEF SentWell, RedisInv, RedisType, Starting, Replied, InDatabase, Selecting, WhereSelected, Watching, Hit, Tested,
             Present, RepliesInStep, At, NoReply
    <3>3. Sent'
      BY <1>0, <2>1, <2>4, <3>1 DEF Sent, AppliedOnce, Histories
    <3> QED BY <3>1, <3>2, <3>3, NotReturned DEF SentWell, RedisInv
  <2> QED BY <1>1, <2>3, <2>4 DEF ConnectFirst
<1>2. CASE SendFirst
  <2>1. PICK r \in Replies : Exchange(r)
    BY <1>2 DEF SendFirst
  <2>2. call.at = "first" /\ call' = [call EXCEPT !.at = "send"] /\ UNCHANGED <<selected, astray>>
    BY <1>2 DEF SendFirst, At
  <2>3. SentWell' /\ hist'.again = hist.again /\ hist'.applied \in {hist.applied, hist.applied + 1}
    BY <2>1, <2>2, SendingStep DEF Sending
  <2>4. call'.at = "send"
    BY <1>0, <2>2 DEF Calls
  <2>5. Sent'
    BY <1>0, <2>2, <2>3, <2>4 DEF Sent, AppliedOnce, Histories
  <2> QED BY <2>3, <2>4, <2>5, NotReturned DEF SentWell, RedisInv
<1>3. CASE SendCommand
  <2>1. PICK r \in Replies : Exchange(r) /\ Answered(r, IF r = NoReply THEN "retry" ELSE "reply")
    BY <1>3 DEF SendCommand
  <2> DEFINE a == IF r.type = "busy" THEN "busy" ELSE IF r = NoReply THEN "retry" ELSE "reply"
  <2>2. /\ call.at \in {"send", "start"} /\ call' = [call EXCEPT !.reply = r, !.at = a]
        /\ UNCHANGED <<selected, astray>>
    BY <1>3, <2>1 DEF SendCommand, Answered, At
  <2>3. a \in {"busy", "retry", "reply"} /\ (a # "reply" => r.type # "status") /\ (a = "busy" => r.type = "busy")
       /\ (a = "retry" => r = NoReply)
    BY DEF NoReply
  <2> HIDE DEF a
  <2>4. /\ SentWell' /\ hist'.again = hist.again /\ hist'.applied \in {hist.applied, hist.applied + 1}
        /\ r.type = "busy" => hist'.applied = hist.applied
    BY <2>1, <2>2, <2>3, SendingStep DEF Sending
  <2>5. call'.at = a
    BY <1>0, <2>2 DEF Calls
  <2>6. Sent'
    BY <1>0, <2>2, <2>3, <2>4, <2>5 DEF Sent, AppliedOnce, Histories
  <2> QED BY <2>3, <2>4, <2>5, <2>6, NotReturned DEF SentWell, RedisInv
<1>4. CASE Reconnect
  <2>1. call.at = "retry" /\ UNCHANGED <<store, selected>> /\ hist' = [hist EXCEPT !.again = TRUE] /\ astray' = TRUE
    BY <1>4 DEF Reconnect, At
  <2>2. PICK a \in {"resend", "reply"} : call' = [call EXCEPT !.at = a] /\ (a = "resend" => conn' \in Auth)
                                         /\ (a = "reply" => conn' = Null)
    BY <1>4 DEF Reconnect
  <2>3. call.fn \in Names
    BY <2>1 DEF RedisInv, Starting
  <2>4. /\ call' \in Calls /\ call'.at = a /\ call'.fn = call.fn /\ call'.reply = call.reply /\ hist' \in Histories
        /\ hist'.again = TRUE /\ hist'.applied = hist.applied /\ hist'.seen = hist.seen
    BY <1>0, <2>1, <2>2 DEF Calls, Histories, Steps
  <2>5. conn' \in Contexts /\ conn'.unread = <<>> /\ (a = "reply" => conn'.state = "null")
    BY <2>2, NewContexts
  <2>6. call.reply.type = "none" /\ call.reply.hit = FALSE
    BY <2>1 DEF RedisInv, Replied, NoReply
  <2>7. SentWell'
    BY <2>1, <2>2, <2>3, <2>4, <2>5, <2>6
       DEF SentWell, RedisInv, RedisType, Starting, Replied, InDatabase, Selecting, WhereSelected, Watching, Hit, Tested,
           Present, RepliesInStep, At
  <2>8. Sent'
    BY <1>0, <2>1, <2>4 DEF Sent, AppliedOnce, Histories
  <2> QED BY <2>4, <2>7, <2>8, NotReturned DEF SentWell, RedisInv
<1>5. CASE Resend
  <2>1. PICK r \in Replies : Exchange(r) /\ Answered(r, "reply")
    BY <1>5 DEF Resend
  <2> DEFINE a == IF r.type = "busy" THEN "busy" ELSE "reply"
  <2>2. /\ call.at = "resend" /\ call' = [call EXCEPT !.reply = r, !.at = a]
        /\ UNCHANGED <<selected, astray>>
    BY <1>5, <2>1 DEF Resend, Answered, At
  <2>3. a \in {"busy", "reply"} /\ (a # "reply" => r.type # "status") /\ (a = "busy" => r.type = "busy")
    OBVIOUS
  <2> HIDE DEF a
  <2>4. /\ SentWell' /\ hist'.again = hist.again /\ hist'.applied \in {hist.applied, hist.applied + 1}
        /\ r.type = "busy" => hist'.applied = hist.applied
    BY <2>1, <2>2, <2>3, SendingStep DEF Sending
  <2>5. call'.at = a
    BY <1>0, <2>2 DEF Calls
  <2>6. Sent'
    BY <1>0, <2>2, <2>3, <2>4, <2>5 DEF Sent, AppliedOnce, Histories
  <2> QED BY <2>3, <2>4, <2>5, <2>6, NotReturned DEF SentWell, RedisInv
<1>6. ASSUME SendAfterBusy \/ SendArgv PROVE RedisInv'
  <2>1. PICK r \in Replies : Exchange(r) /\ call' = [call EXCEPT !.reply = r, !.at = "reply"]
    BY <1>6 DEF SendAfterBusy, SendArgv
  <2>2. call.at \in {"busy", "argv"} /\ UNCHANGED <<selected, astray>>
    BY <1>6 DEF SendAfterBusy, SendArgv, At
  <2>4. SentWell' /\ hist'.again = hist.again /\ hist'.applied \in {hist.applied, hist.applied + 1}
    BY <2>1, <2>2, SendingStep DEF Sending
  <2>5. call'.at = "reply"
    BY <1>0, <2>1 DEF Calls
  <2>6. Sent'
    BY <1>0, <2>2, <2>4, <2>5 DEF Sent, AppliedOnce, Histories
  <2> QED BY <2>4, <2>5, <2>6, NotReturned DEF SentWell, RedisInv
<1> QED BY <1>1, <1>2, <1>3, <1>4, <1>5, <1>6 DEF redisCommandMy

(* What a call starts with.                                                *)
LEMMA FunctionSteps ==
  ASSUME NEW f \in Names, NEW n \in Nat
  PROVE  /\ Commands(f, n) \in Seq(Tokens) /\ (Checks(Functions[f]) => Len(Commands(f, n)) > 1)
         /\ Functions[f].by \notin {"each", "each or delete"} => Commands(f, n) # <<>>
         /\ FirstStep(f) \in {"start", "argv", "append", "crashed", "refused"}
         /\ FirstStep(f) = "append" => Functions[f].by = "pipe"
<1>1. Row(f, Functions[f])
  BY FunctionRows
<1>2. <<"own">> \in Seq(Tokens) /\ <<"exists", "own">> \in Seq(Tokens) /\ <<"exists", "exists", "own">> \in Seq(Tokens)
      /\ [i \in 1 .. n |-> "own"] \in Seq(Tokens)
  BY DEF Tokens
<1>3. Commands(f, n) \in {<<"exists", "own">>, <<"exists", "exists", "own">>, [i \in 1 .. n |-> "own"], <<"own">>}
  BY Zenon DEF Commands
<1>4. Commands(f, n) \in Seq(Tokens)
  BY <1>2, <1>3
<1>5. Checks(Functions[f]) => Commands(f, n) = <<"exists", "own">> \/ Commands(f, n) = <<"exists", "exists", "own">>
  BY Zenon DEF Commands, Checks
<1>6. Functions[f].by \notin {"each", "each or delete"} =>
        Commands(f, n) \in {<<"exists", "own">>, <<"exists", "exists", "own">>, <<"own">>}
  BY Zenon DEF Commands
<1>7. FirstStep(f) \in {"start", "argv", "append", "crashed", "refused"}
  BY Zenon DEF FirstStep
<1>8. FirstStep(f) = "append" => Functions[f].by = "pipe"
  BY Zenon DEF FirstStep
<1>9. Len(<<"exists", "own">>) > 1 /\ Len(<<"exists", "exists", "own">>) > 1
      /\ <<>> \notin {<<"exists", "own">>, <<"exists", "exists", "own">>, <<"own">>}
  OBVIOUS
<1> QED BY <1>4, <1>5, <1>6, <1>7, <1>8, <1>9, Zenon
LEMMA IdleCall == Idle \in Calls /\ Idle.found = FALSE /\ Idle.at = "idle" /\ Idle.fn = "none" /\ Idle.todo = <<>>
<1>1. NoReply \in Replies /\ <<>> \in Seq(Tokens) /\ 0 \in DBs /\ "idle" \in Steps
  BY RedisAssumption DEF NoReply, Replies, Steps
<1> QED BY <1>1 DEF Idle, Calls

LEMMA BeginStep ==
  ASSUME RedisInv, BeginFunction, handler' \in {"serving", "crashed"}
  PROVE  RedisInv'
<1>0. RedisType /\ call.at = "idle" /\ UNCHANGED <<conn, store, selected, astray>>
  BY DEF RedisInv, BeginFunction, Begin, BeginEmpty, At
<1>1. ASSUME call' \in Calls, call'.fn \in Names, call'.found = FALSE,
             call'.at \in {"start", "argv", "append", "crashed", "returned"},
             hist' \in Histories, hist'.applied = 0, hist'.where = {}, hist'.again = FALSE,
             call'.at = "append" => Functions[call'.fn].by = "pipe",
             call'.at # "returned" => /\ hist'.seen = {e \in DBs : store[e]}
                                      /\ Checks(Functions[call'.fn]) => Len(call'.todo) > 1,
             call'.at = "returned" /\ call'.ret => call'.fn \in Trusting \cup DOMAIN EmptyArguments
      PROVE  RedisInv'
  <2>2. RedisType' /\ Starting'
    BY <1>0, <1>1 DEF RedisType, Starting
  <2>3. Sent' /\ Replied'
    BY <1>1 DEF Sent, Replied, AppliedOnce
  <2>4. InDatabase'
    BY <1>0, <1>1 DEF RedisInv, InDatabase, Selecting
  <2>5. WhereSelected' /\ Hit'
    BY <1>1 DEF WhereSelected, Hit
  <2>6. Watching'
    BY <1>0, <1>1 DEF Watching
  <2>7. RepliesInStep'
    BY <1>0, <1>1 DEF RedisInv, RepliesInStep, At
  <2>8. SuccessIsApplied' /\ FoundWasThere'
    BY <1>1 DEF SuccessIsApplied, FoundWasThere, At
  <2>9. Tested'
    <3>1. call'.at # "returned" /\ Checks(Functions[call'.fn]) => Len(call'.todo) # 1
      <4>1. call'.at # "returned" /\ Checks(Functions[call'.fn]) => Len(call'.todo) > 1
        BY <1>1, Zenon
      <4>2. Len(call'.todo) \in Nat
        BY <1>1 DEF Calls
      <4>3. \A k \in Nat : k > 1 => k # 1
        OBVIOUS
      <4> QED BY <4>1, <4>2, <4>3, Zenon
    <3> QED BY <3>1, <1>1, Zenon DEF Tested
  <2> QED BY <2>2, <2>3, <2>4, <2>5, <2>6, <2>7, <2>8, <2>9 DEF RedisInv
<1>2. ASSUME NEW f \in Names, BeginEmpty(f) PROVE RedisInv'
  <2>1. f \in DOMAIN EmptyArguments /\ call' = [Idle EXCEPT !.fn = f, !.at = "returned", !.ret = EmptyArguments[f]]
    BY <1>2 DEF BeginEmpty
  <2>2. EmptyArguments[f] \in BOOLEAN
    <3>1. DOMAIN EmptyArguments = {"GetBatchStrValue", "mGetHashValue", "getBinMemsByScore", "remRangeByScore"}
      BY DEF EmptyArguments
    <3>2. /\ EmptyArguments.GetBatchStrValue \in BOOLEAN /\ EmptyArguments.mGetHashValue \in BOOLEAN
          /\ EmptyArguments.getBinMemsByScore \in BOOLEAN /\ EmptyArguments.remRangeByScore \in BOOLEAN
      BY DEF EmptyArguments
    <3> QED BY <2>1, <3>1, <3>2, Zenon
  <2>3. /\ call' \in Calls /\ call'.fn = f /\ call'.at = "returned" /\ call'.found = FALSE
    <3> DEFINE ret == EmptyArguments[f]
    <3>1. call' = [Idle EXCEPT !.fn = f, !.at = "returned", !.ret = ret] /\ ret \in BOOLEAN
      BY <2>1, <2>2
    <3> HIDE DEF ret
    <3> QED BY <3>1, IdleCall DEF Calls, Steps
  <2>4. hist' \in Histories /\ hist'.applied = 0 /\ hist'.where = {} /\ hist'.again = FALSE
    BY <1>2 DEF BeginEmpty, Histories
  <2> QED BY <1>1, <2>1, <2>3, <2>4
<1>3. ASSUME NEW f \in Names, NEW n \in 0 .. MaxValues, NEW d \in DBs, Begin(f, n, d) PROVE RedisInv'
  <2> DEFINE refused == FirstStep(f) = "refused" \/ (f = "SelectDB" /\ conn.state = "null")
             todo == IF Functions[f].by = "pipe" THEN [i \in 1 .. n |-> i] ELSE Commands(f, n)
             at == IF refused \/ n = 0 THEN "returned" ELSE FirstStep(f)
             ret == ~refused
  <2>1. call' = [Idle EXCEPT !.fn = f, !.arg = d, !.todo = todo, !.at = at, !.ret = ret]
    BY <1>3, Zenon DEF Begin
  <2>2. n \in Nat
    BY RedisAssumption
  <2>3. /\ Commands(f, n) \in Seq(Tokens) /\ (Checks(Functions[f]) => Len(Commands(f, n)) > 1)
        /\ FirstStep(f) \in {"start", "argv", "append", "crashed", "refused"}
        /\ FirstStep(f) = "append" => Functions[f].by = "pipe"
    BY <2>2, FunctionSteps
  <2>4. todo \in Seq(Tokens)
    <3>1. [i \in 1 .. n |-> i] \in Seq(Nat)
      BY <2>2
    <3>2. Seq(Nat) \subseteq Seq(Tokens)
      BY DEF Tokens
    <3> QED BY <2>3, <3>1, <3>2
  <2>5. /\ at \in {"start", "argv", "append", "crashed", "returned"} /\ ret \in BOOLEAN
        /\ at = "append" => Functions[f].by = "pipe"
    BY <2>3
  <2>6. Checks(Functions[f]) => Len(todo) > 1
    BY <2>3 DEF Checks
  <2>7. at = "returned" /\ ret => f \in Trusting
    <3>1. at = "returned" /\ ret => n = 0
      BY <2>3
    <3>4. Functions[f].by \notin {"each", "each or delete", "pipe"} => n = 1
      BY <1>3, Zenon DEF Begin
    <3>5. 0 # 1
      OBVIOUS
    <3>2. n = 0 => Functions[f].by \in {"each", "each or delete", "pipe"}
      BY <3>4, <3>5, Zenon
    <3>3. Row(f, Functions[f])
      BY FunctionRows
    <3> QED BY <3>1, <3>2, <3>3 DEF Row, Trusting
  <2>8. hist' \in Histories /\ hist'.applied = 0 /\ hist'.where = {} /\ hist'.again = FALSE
        /\ hist'.seen = {e \in DBs : store[e]}
    <3> DEFINE seen == {e \in DBs : store[e]}
    <3>1. hist' = [applied |-> 0, where |-> {}, again |-> FALSE, seen |-> seen] /\ seen \subseteq DBs
      BY <1>3 DEF Begin
    <3> HIDE DEF seen
    <3>2. hist' \in Histories /\ hist'.applied = 0 /\ hist'.where = {} /\ hist'.again = FALSE /\ hist'.seen = seen
      BY <3>1 DEF Histories
    <3> QED BY <3>2 DEF seen
  <2> HIDE DEF refused, todo, at, ret
  <2>9. /\ call' \in Calls /\ call'.fn = f /\ call'.at = at /\ call'.todo = todo
        /\ call'.ret = ret /\ call'.found = FALSE
    BY <2>1, <2>4, <2>5, IdleCall DEF Calls, Steps
  <2> QED BY <1>1, <2>4, <2>5, <2>6, <2>7, <2>8, <2>9
<1> QED BY <1>2, <1>3 DEF BeginFunction
(* A call that returns, or goes on to its next command.                    *)
LEMMA ReturnStep ==
  ASSUME RedisInv, call.at \notin {"idle", "returned", "crashed"}, NEW ret \in BOOLEAN, NEW found \in BOOLEAN,
         Return(ret, found), handler' \in {"serving", "crashed"}, UNCHANGED <<conn, store, hist>>,
         selected' \in DBs, astray' \in BOOLEAN, call.at = "collect" => call.todo = <<>>,
         \/ UNCHANGED <<selected, astray>> /\ ~Selecting
         \/ /\ call.fn = "SelectDB" /\ selected' = call.arg
            /\ ~astray' => Selecting,
         ret /\ call.fn \notin Trusting => hist.applied >= 1,
         ret /\ found /\ call.fn # "GetAllKeys" /\ ~hist.again => Present
  PROVE  RedisInv'
<1>1. call \in Calls /\ call.fn \in Names
  BY DEF RedisInv, RedisType, Starting
<1>2. /\ call' \in Calls /\ call'.at = "returned" /\ call'.fn = call.fn /\ call'.ret = ret /\ call'.found = found
  <2>1. <<>> \in Seq(Tokens) /\ "returned" \in Steps
    BY DEF Steps
  <2> QED BY <1>1, <2>1 DEF Return, Calls
<1>3. RedisType' /\ Starting'
  BY <1>1, <1>2 DEF RedisInv, RedisType, Starting
<1>4. Sent' /\ Replied'
  BY <1>2 DEF RedisInv, Sent, Replied, AppliedOnce
<1>5. InDatabase'
  <2>1. ~Selecting'
    BY <1>2 DEF Selecting
  <2>2. conn.state = "open" => (Selecting => conn.db = call.arg) /\ (~astray => conn.db = selected \/ Selecting)
    BY DEF RedisInv, InDatabase
  <2> QED BY <1>2, <2>1, <2>2 DEF InDatabase
<1>6. WhereSelected'
  BY <1>2 DEF RedisInv, WhereSelected
<1>7. Watching' /\ Hit'
  BY <1>2 DEF Watching, Hit
<1>8. Tested'
  BY <1>2 DEF Tested
<1>9. RepliesInStep'
  BY <1>2 DEF RedisInv, RepliesInStep, At
<1>10. SuccessIsApplied' /\ FoundWasThere'
  BY <1>2 DEF SuccessIsApplied, FoundWasThere, At, Present
<1> QED BY <1>3, <1>4, <1>5, <1>6, <1>7, <1>8, <1>9, <1>10 DEF RedisInv

LEMMA NextCommandStep ==
  ASSUME RedisInv, call.at = "reply", NEW todo \in Seq(Tokens), NEW ret \in BOOLEAN,
         NextCommand(todo, ret), handler' \in {"serving", "crashed"}, UNCHANGED <<conn, store, selected, astray>>,
         call.fn # "SelectDB", Checks(Functions[call.fn]) => Present
  PROVE  RedisInv'
<1>1. call \in Calls /\ call.fn \in Names /\ hist \in Histories
  BY DEF RedisInv, RedisType, Starting
<1>2. /\ call' \in Calls /\ call'.at = "start" /\ call'.fn = call.fn
      /\ hist' \in Histories /\ hist'.applied = 0 /\ hist'.where = hist.where /\ hist'.again = hist.again
      /\ hist'.seen = hist.seen
  <2>1. "start" \in Steps
    BY DEF Steps
  <2> QED BY <1>1, <2>1 DEF NextCommand, Calls, Histories
<1>3. RedisType' /\ Starting'
  BY <1>1, <1>2 DEF RedisInv, RedisType, Starting
<1>4. Sent' /\ Replied'
  BY <1>2 DEF Sent, Replied, AppliedOnce
<1>5. InDatabase'
  BY <1>2 DEF RedisInv, InDatabase, Selecting
<1>6. WhereSelected'
  BY <1>2 DEF RedisInv, WhereSelected
<1>7. Watching' /\ Hit'
  BY <1>2 DEF RedisInv, Watching, Hit
<1>8. Tested'
  BY <1>2 DEF Tested, Present
<1>9. RepliesInStep'
  BY <1>2 DEF RedisInv, RepliesInStep, At
<1>10. SuccessIsApplied' /\ FoundWasThere'
  BY <1>2, NotReturned
<1> QED BY <1>3, <1>4, <1>5, <1>6, <1>7, <1>8, <1>9, <1>10 DEF RedisInv
LEMMA FunctionStep ==
  ASSUME RedisInv, Function, ~SendArgv, handler' \in {"serving", "crashed"}
  PROVE  RedisInv'
<1>0. RedisType /\ call \in Calls /\ hist \in Histories /\ conn \in Contexts /\ Starting
  BY DEF RedisInv, RedisType
<1>1. CASE OneReply
  <2> DEFINE f == Functions[call.fn]
             ret == call.reply.type \in f.ok
             found == <<call.reply.type, call.reply.hit>> \in f.found
  <2>1. /\ call.at = "reply" /\ Len(call.todo) = 1 /\ Return(ret, found)
        /\ f.by \in {"one", "argv", "checked", "checked twice"}
        /\ UNCHANGED <<conn, store, hist>>
    BY <1>1, Zenon DEF OneReply, At
  <2>2. \/ UNCHANGED <<selected, astray>> /\ (call.fn = "SelectDB" => call.reply = NoReply)
        \/ /\ call.fn = "SelectDB" /\ selected' = call.arg
           /\ astray' = (call.reply.type # "status")
    BY <1>1, Zenon DEF OneReply
  <2>3. call.fn \in Names /\ Row(call.fn, f)
    BY <1>0, <2>1, FunctionRows DEF Starting
  <2>4. selected' \in DBs
    BY <1>0, <2>2 DEF RedisType, Calls
  <2>5. astray' \in BOOLEAN
    BY <1>0, <2>2, Zenon DEF RedisType
  <2>6. \/ UNCHANGED <<selected, astray>> /\ ~Selecting
        \/ call.fn = "SelectDB" /\ selected' = call.arg /\ (~astray' => Selecting)
    <3>1. NoReply.type # "status"
      BY DEF NoReply
    <3> QED BY <2>1, <2>2, <3>1, Zenon DEF Selecting
  <2>7. ret /\ call.fn \notin Trusting => hist.applied >= 1
    <3>1. ret /\ call.fn \notin Trusting => call.reply.type \notin {"none", "error", "busy"}
      BY <2>3 DEF Row, Trusting
    <3> QED BY <2>1, <3>1 DEF RedisInv, Replied
  <2>8. found /\ call.fn # "GetAllKeys" /\ ~hist.again => Present
    <3>1. CASE Checks(f)
      BY <2>1, <2>3, <3>1 DEF RedisInv, Tested
    <3>2. CASE ~Checks(f)
      <4>1. call.reply.type \in Types \cup {"none"} /\ call.reply.hit \in BOOLEAN
        BY <1>0 DEF Calls, Replies
      <4>2. found /\ call.fn # "GetAllKeys" => call.reply.hit
        BY <2>3, <3>2, <4>1 DEF Row
      <4>3. found => call.fn # "SelectDB"
        BY <2>3 DEF Row
      <4> QED BY <2>1, <4>2, <4>3 DEF RedisInv, Hit
    <3> QED BY <3>1, <3>2
  <2>9. ret \in BOOLEAN /\ found \in BOOLEAN
    OBVIOUS
  <2> HIDE DEF f, ret, found
  <2> QED BY <2>1, <2>4, <2>5, <2>6, <2>7, <2>8, <2>9, ReturnStep
<1>2. CASE CheckReply
  <2>1. /\ call.at = "reply" /\ Len(call.todo) > 1 /\ UNCHANGED <<conn, store, selected, astray>>
        /\ Checks(Functions[call.fn])
    BY <1>2 DEF CheckReply, At, Checks
  <2>2. call.fn \in Names /\ call.fn # "SelectDB" /\ ~Selecting
    BY <1>0, <2>1, FunctionRows DEF Starting, Row, Checks, Selecting
  <2>3. CASE call.reply.type = "integer" /\ call.reply.hit
    <3>1. NextCommand(Tail(call.todo), call.ret)
      BY <1>2, <2>3 DEF CheckReply
    <3>2. Tail(call.todo) \in Seq(Tokens) /\ call.ret \in BOOLEAN
      BY <1>0, <2>1 DEF Calls
    <3>3. Present
      BY <2>1, <2>2, <2>3 DEF RedisInv, Hit
    <3> QED BY <2>1, <2>2, <3>1, <3>2, <3>3, NextCommandStep
  <2>4. CASE ~(call.reply.type = "integer" /\ call.reply.hit)
    <3> DEFINE ret == call.reply.type = "integer"
    <3>1. Return(ret, FALSE) /\ UNCHANGED hist
      BY <1>2, <2>4, Zenon DEF CheckReply
    <3>2. ret => hist.applied >= 1
      BY <2>1 DEF RedisInv, Replied
    <3>3. ret \in BOOLEAN /\ selected' \in DBs /\ astray' \in BOOLEAN
      BY <1>0, <2>1, Zenon DEF RedisType
    <3> HIDE DEF ret
    <3> QED BY <2>1, <2>2, <3>1, <3>2, <3>3, ReturnStep
  <2> QED BY <2>3, <2>4
<1>3. CASE EachReply
  <2>1. /\ call.at = "reply" /\ UNCHANGED <<conn, store, selected, astray>>
        /\ Functions[call.fn].by \in {"each", "each or delete"}
    BY <1>3 DEF EachReply, At
  <2>2. call.fn \in Names /\ call.fn # "SelectDB" /\ ~Selecting /\ ~Checks(Functions[call.fn]) /\ call.fn \in Trusting
    BY <1>0, <2>1, FunctionRows DEF Starting, Row, Checks, Selecting, Trusting
  <2>3. ASSUME NEW todo \in Seq(Tokens), NEW ret \in BOOLEAN, NextCommand(todo, ret) PROVE RedisInv'
    BY <2>1, <2>2, <2>3, NextCommandStep
  <2>4. ASSUME NEW ret \in BOOLEAN, Return(ret, FALSE), UNCHANGED hist PROVE RedisInv'
    <3>1. selected' \in DBs /\ astray' \in BOOLEAN
      BY <1>0, <2>1 DEF RedisType
    <3> QED BY <2>1, <2>2, <2>4, <3>1, ReturnStep
  <2>5. <<"delete">> \in Seq(Tokens) /\ (Len(call.todo) > 1 => Tail(call.todo) \in Seq(Tokens)) /\ call.ret \in BOOLEAN
    BY <1>0 DEF Tokens, Calls
  <2>6. \/ NextCommand(<<"delete">>, FALSE)
        \/ Return(FALSE, FALSE) /\ UNCHANGED hist
        \/ Len(call.todo) > 1 /\ NextCommand(Tail(call.todo), call.ret)
        \/ Return(call.ret, FALSE) /\ UNCHANGED hist
    BY <1>3, Zenon DEF EachReply
  <2> QED BY <2>3, <2>4, <2>5, <2>6
<1>4. CASE CollectedAll
  <2>1. call.at = "collect" /\ call.todo = <<>> /\ Return(TRUE, FALSE) /\ UNCHANGED <<conn, store, selected, astray, hist>>
    BY <1>4 DEF CollectedAll, At
  <2>2. call.fn \in Trusting /\ ~Selecting
    BY <1>0, <2>1, FunctionRows DEF Starting, Row, Trusting, Selecting
  <2>3. selected' \in DBs /\ astray' \in BOOLEAN
    BY <1>0, <2>1 DEF RedisType
  <2> QED BY <2>1, <2>2, <2>3, ReturnStep
<1>5. CASE Done
  <2>1. /\ call.at = "returned" /\ call' = Idle /\ UNCHANGED <<conn, store, selected, astray>>
        /\ hist' = [applied |-> 0, where |-> {}, again |-> FALSE, seen |-> {}]
    BY <1>5 DEF Done, At
  <2>2. hist' \in Histories /\ hist'.applied = 0 /\ hist'.where = {}
    BY <2>1 DEF Histories
  <2>3. RedisType' /\ Starting'
    BY <1>0, <2>1, <2>2, IdleCall DEF RedisType, Starting
  <2>4. Sent' /\ Replied' /\ WhereSelected' /\ Watching' /\ Hit' /\ Tested'
    BY <2>1, <2>2, IdleCall DEF Sent, Replied, WhereSelected, Watching, Hit, Tested, AppliedOnce
  <2>5. InDatabase' /\ RepliesInStep'
    BY <2>1, IdleCall DEF RedisInv, InDatabase, Selecting, RepliesInStep, At
  <2>6. SuccessIsApplied' /\ FoundWasThere'
    BY <2>1, IdleCall, NotReturned
  <2> QED BY <2>3, <2>4, <2>5, <2>6 DEF RedisInv
<1>6. ASSUME NEW todo \in Seq(Tokens), conn' \in Contexts, conn'.state = "open" => conn.state = "open" /\ conn'.db = conn.db,
             call.at \in {"append", "collect"}, call' = [call EXCEPT !.at = "collect", !.todo = todo],
             conn'.state = "open" => conn'.unread = todo, UNCHANGED <<store, selected, astray, hist>>
      PROVE  RedisInv'
  <2>1. /\ call' \in Calls /\ call'.at = "collect" /\ call'.fn = call.fn /\ call'.todo = todo
    BY <1>0, <1>6 DEF Calls, Steps
  <2>2. call.fn \in Names /\ ~Checks(Functions[call.fn])
    BY <1>0, <1>6 DEF Starting, Checks
  <2>3. RedisType' /\ Starting'
    BY <1>0, <1>6, <2>1 DEF RedisType, Starting
  <2>4. Sent' /\ Replied' /\ WhereSelected' /\ Watching' /\ Hit'
    BY <1>6, <2>1 DEF RedisInv, Sent, Replied, WhereSelected, Watching, Hit, AppliedOnce
  <2>5. Tested'
    BY <2>1, <2>2 DEF Tested
  <2>6. InDatabase' /\ RepliesInStep'
    BY <1>6, <2>1 DEF RedisInv, InDatabase, Selecting, RepliesInStep, At
  <2> QED BY <2>1, <2>3, <2>4, <2>5, <2>6, NotReturned DEF RedisInv
<1>7. CASE AppendCommands
  <2>0. PICK n \in 0 .. Len(call.todo) : \E keys \in [1 .. n -> DOMAIN call.todo] :
          /\ call' = [call EXCEPT !.at = "collect", !.todo = keys]
          /\ conn' = IF conn.state = "open" THEN [conn EXCEPT !.unread = keys] ELSE conn
    BY <1>7, Zenon DEF AppendCommands
  <2>1. PICK keys \in [1 .. n -> DOMAIN call.todo] :
          /\ call' = [call EXCEPT !.at = "collect", !.todo = keys]
          /\ conn' = IF conn.state = "open" THEN [conn EXCEPT !.unread = keys] ELSE conn
    BY <2>0
  <2>2. call.at = "append" /\ UNCHANGED <<store, selected, astray, hist>>
    BY <1>7 DEF AppendCommands, At
  <2>3. keys \in Seq(Tokens)
    <3>1. call.todo \in Seq(Tokens) /\ n \in Nat
      BY <1>0 DEF Calls
    <3>2. DOMAIN call.todo \subseteq Nat
      BY <3>1
    <3>3. keys \in Seq(Nat)
      BY <3>1, <3>2
    <3> QED BY <3>3 DEF Tokens
  <2>4. conn' \in Contexts /\ (conn'.state = "open" => conn.state = "open" /\ conn'.db = conn.db /\ conn'.unread = keys)
    BY <1>0, <2>1, <2>3 DEF Contexts
  <2> QED BY <1>6, <2>1, <2>2, <2>3, <2>4
<1>8. CASE CollectReply
  <2>1. /\ call.at = "collect" /\ call.todo # <<>> /\ call' = [call EXCEPT !.todo = Tail(@)]
        /\ UNCHANGED <<store, selected, astray, hist>>
    BY <1>8 DEF CollectReply, At
  <2>2. Tail(call.todo) \in Seq(Tokens)
    BY <1>0, <2>1 DEF Calls
  <2>3. call' = [call EXCEPT !.at = "collect", !.todo = Tail(call.todo)]
    BY <1>0, <2>1 DEF Calls
  <2>4. \/ conn' = Broken
        \/ conn.state = "open" /\ conn.unread = call.todo /\ conn' = [conn EXCEPT !.unread = Tail(call.todo)]
    BY <1>8, <2>1 DEF CollectReply, RedisInv, RepliesInStep, At
  <2>5. conn' \in Contexts
    BY <1>0, <2>2, <2>4, NewContexts DEF Contexts
  <2>6. conn'.state = "open" => conn.state = "open" /\ conn'.db = conn.db /\ conn'.unread = Tail(call.todo)
    BY <1>0, <2>4, NewContexts DEF Contexts
  <2> QED BY <1>6, <2>1, <2>2, <2>3, <2>5, <2>6
<1> QED BY <1>1, <1>2, <1>3, <1>4, <1>5, <1>7, <1>8 DEF Function

LEMMA OtherClientStep ==
  ASSUME RedisInv, OtherClient, handler' = handler
  PROVE  RedisInv'
<1>0. RedisType /\ hist \in Histories /\ UNCHANGED <<conn, call, selected, astray>>
  BY DEF RedisInv, RedisType, OtherClient
<1>1. store' \in [DBs -> BOOLEAN]
  <2>1. PICK d \in DBs : store' = [store EXCEPT ![d] = ~store[d]]
    BY DEF OtherClient
  <2> QED BY <1>0, <2>1 DEF RedisType
<1>2. /\ hist' \in Histories /\ hist'.applied = hist.applied /\ hist'.where = hist.where /\ hist'.again = hist.again
      /\ hist.seen \subseteq hist'.seen
      /\ call.at # "idle" => {d \in DBs : store'[d]} \subseteq hist'.seen
  <2> DEFINE seen == hist.seen \cup {d \in DBs : store'[d]}
  <2>1. seen \in SUBSET DBs
    BY <1>0 DEF Histories
  <2>2. hist' = IF call.at = "idle" THEN hist ELSE [hist EXCEPT !.seen = seen]
    BY DEF OtherClient, Seen, At
  <2> HIDE DEF seen
  <2>3. /\ hist' \in Histories /\ hist'.applied = hist.applied /\ hist'.where = hist.where /\ hist'.again = hist.again
        /\ hist'.seen = IF call.at = "idle" THEN hist.seen ELSE seen
    BY <1>0, <2>1, <2>2 DEF Histories
  <2> QED BY <2>3 DEF seen
<1>3. RedisType' /\ Starting'
  BY <1>0, <1>1, <1>2 DEF RedisInv, RedisType, Starting
<1>4. Sent' /\ Replied' /\ WhereSelected'
  BY <1>0, <1>2 DEF RedisInv, Sent, Replied, WhereSelected, AppliedOnce
<1>5. InDatabase' /\ RepliesInStep'
  BY <1>0 DEF RedisInv, InDatabase, Selecting, RepliesInStep, At
<1>6. Watching' /\ Hit' /\ Tested'
  BY <1>0, <1>2 DEF RedisInv, Watching, Hit, Tested, Present
<1>7. SuccessIsApplied' /\ FoundWasThere'
  BY <1>0, <1>2 DEF RedisInv, SuccessIsApplied, FoundWasThere, At
<1> QED BY <1>3, <1>4, <1>5, <1>6, <1>7 DEF RedisInv
(* The handler's own connection, made and let go between calls.            *)
LEMMA ConnectionStep ==
  ASSUME RedisInv, call = Idle, conn' \in Auth \cup {Null, Fresh}, UNCHANGED <<store, call, selected, astray, hist>>,
         conn'.state = "open" => selected = 0, handler' \in {"connect", "auth"} => selected = 0
  PROVE  RedisInv'
<1>1. conn' \in Contexts /\ conn'.unread = <<>> /\ conn'.db = 0
  BY NewContexts
<1>2. RedisType' /\ Starting'
  BY <1>1, IdleCall DEF RedisInv, RedisType, Starting
<1>3. Sent' /\ Replied' /\ WhereSelected' /\ Watching' /\ Hit' /\ Tested'
  BY IdleCall DEF RedisInv, Sent, Replied, WhereSelected, Watching, Hit, Tested, AppliedOnce
<1>4. InDatabase' /\ RepliesInStep'
  BY <1>1, IdleCall DEF RedisInv, InDatabase, Selecting, RepliesInStep, At
<1>5. SuccessIsApplied' /\ FoundWasThere'
  BY IdleCall, NotReturned
<1> QED BY <1>2, <1>3, <1>4, <1>5 DEF RedisInv

LEMMA RedisRests ==
  ASSUME RedisInv, UNCHANGED redis, handler' \in {"connect", "auth", "init"} => handler' = handler
  PROVE  RedisInv'
<1>1. UNCHANGED <<conn, store, call, selected, astray, hist>>
  BY DEF redis
<1>2. RedisType' /\ Starting'
  BY <1>1 DEF RedisInv, RedisType, Starting
<1>3. Sent' /\ Replied' /\ WhereSelected' /\ Watching' /\ Hit' /\ Tested'
  BY <1>1 DEF RedisInv, Sent, Replied, WhereSelected, Watching, Hit, Tested, Present, AppliedOnce
<1>4. InDatabase' /\ RepliesInStep' /\ SuccessIsApplied' /\ FoundWasThere'
  BY <1>1 DEF RedisInv, InDatabase, Selecting, RepliesInStep, SuccessIsApplied, FoundWasThere, At
<1> QED BY <1>2, <1>3, <1>4 DEF RedisInv

(* The MySQL client.                                                        *)
LEMMA QueryStep ==
  ASSUME QueryType, Updating, DoUpdate \/ GetUserById \/ Query
  PROVE  QueryType' /\ Updating'
<1> DEFINE Ats == {"idle", "execute", "prepare", "catch", "returned", "crashed"}
           Errors == {"none", "other", "2006", "2013"}
<1>0. /\ query \in [fn : {"none", "DoUpdate", "GetUserById"}, at : Ats, error : Errors, ret : BOOLEAN]
      /\ rows \in Nat
  BY DEF QueryType
<1>n. /\ NoQuery \in [fn : {"none", "DoUpdate", "GetUserById"}, at : Ats, error : Errors, ret : BOOLEAN]
      /\ NoQuery.fn = "none" /\ NoQuery.ret = FALSE /\ NoQuery.error = "none"
  BY DEF NoQuery
<1>1. CASE DoUpdate
  <2>1. PICK at \in {"crashed", "execute"} : query' = [NoQuery EXCEPT !.fn = "DoUpdate", !.at = at]
    BY <1>1 DEF DoUpdate
  <2>2. rows' = 0
    BY <1>1 DEF DoUpdate
  <2>3. /\ query' \in [fn : {"none", "DoUpdate", "GetUserById"}, at : Ats, error : Errors, ret : BOOLEAN]
        /\ query'.at = at /\ query'.ret = FALSE
    BY <1>n, <2>1
  <2> QED BY <2>2, <2>3 DEF QueryType, Updating
<1>2. CASE GetUserById
  <2> DEFINE at == CASE stmt # "none" -> "execute" [] sql.state = "null" -> "crashed" [] OTHER -> "prepare"
  <2>1. query' = [NoQuery EXCEPT !.fn = "GetUserById", !.at = at] /\ rows' = 0
    BY <1>2, Zenon DEF GetUserById
  <2>2. at \in Ats
    BY Zenon
  <2> HIDE DEF at
  <2>3. /\ query' \in [fn : {"none", "DoUpdate", "GetUserById"}, at : Ats, error : Errors, ret : BOOLEAN]
        /\ query'.fn = "GetUserById"
    BY <1>n, <2>1, <2>2
  <2> QED BY <2>1, <2>3 DEF QueryType, Updating
<1>3. CASE PrepareStmt
  <2>1. PICK at \in {"execute", "catch"}, error \in Errors : query' = [query EXCEPT !.at = at, !.error = error]
    <3>1. CASE QueryAt("prepare", "execute")
      BY <1>0, <3>1 DEF QueryAt
    <3>2. ASSUME NEW e \in {"other", "2006"}, Throw(e) PROVE query' = [query EXCEPT !.at = "catch", !.error = e]
      BY <3>2 DEF Throw
    <3> QED BY <1>3, <3>1, <3>2 DEF PrepareStmt
  <2>2. query.at = "prepare" /\ rows' = rows
    BY <1>3 DEF PrepareStmt
  <2>3. /\ query' \in [fn : {"none", "DoUpdate", "GetUserById"}, at : Ats, error : Errors, ret : BOOLEAN]
        /\ query'.fn = query.fn
    BY <1>0, <2>1
  <2>4. query.fn # "DoUpdate"
    BY <2>2 DEF Updating
  <2> QED BY <1>0, <2>2, <2>3, <2>4 DEF QueryType, Updating
<1>4. CASE Execute
  <2>0. query.at = "execute"
    BY <1>4 DEF Execute
  <2>1. CASE rows' = rows + 1 /\ query' = [query EXCEPT !.at = "returned", !.ret = (query.fn = "DoUpdate")]
    <3> DEFINE ret == query.fn = "DoUpdate"
    <3>1. ret \in BOOLEAN
      OBVIOUS
    <3>2. query' = [query EXCEPT !.at = "returned", !.ret = ret]
      BY <2>1
    <3> HIDE DEF ret
    <3>3. /\ query' \in [fn : {"none", "DoUpdate", "GetUserById"}, at : Ats, error : Errors, ret : BOOLEAN]
          /\ query'.fn = query.fn /\ query'.at = "returned" /\ query'.ret = ret
      BY <1>0, <3>1, <3>2
    <3>4. query.fn = "DoUpdate" => query'.ret
      BY <3>3, Zenon DEF ret
    <3> QED BY <1>0, <2>0, <2>1, <3>3, <3>4 DEF QueryType, Updating
  <2>2. ASSUME NEW e \in {"other", "2006", "2013"}, Throw(e), rows' = IF e = "2013" THEN rows + 1 ELSE rows
        PROVE  QueryType' /\ Updating'
    <3>1. /\ query' \in [fn : {"none", "DoUpdate", "GetUserById"}, at : Ats, error : Errors, ret : BOOLEAN]
          /\ query'.fn = query.fn /\ query'.at = "catch" /\ query'.error = e /\ query'.ret = query.ret
      BY <1>0, <2>2 DEF Throw
    <3> QED BY <1>0, <2>0, <2>2, <3>1 DEF QueryType, Updating
  <2>3. CASE query.fn = "GetUserById" /\ QueryAt("execute", "crashed") /\ UNCHANGED rows
    <3>1. /\ query' \in [fn : {"none", "DoUpdate", "GetUserById"}, at : Ats, error : Errors, ret : BOOLEAN]
          /\ query'.fn = query.fn
      BY <1>0, <2>3 DEF QueryAt
    <3> QED BY <1>0, <2>3, <3>1 DEF QueryType, Updating
  <2> QED BY <1>4, <2>1, <2>2, <2>3 DEF Execute
<1>5. CASE HandleException
  <2>1. query.at = "catch" /\ query' = [query EXCEPT !.at = "returned"] /\ rows' = rows
    BY <1>5 DEF HandleException, QueryAt
  <2>2. /\ query' \in [fn : {"none", "DoUpdate", "GetUserById"}, at : Ats, error : Errors, ret : BOOLEAN]
        /\ query'.fn = query.fn /\ query'.at = "returned" /\ query'.error = query.error /\ query'.ret = query.ret
    BY <1>0, <2>1
  <2> QED BY <1>0, <2>1, <2>2 DEF QueryType, Updating
<1>6. CASE QueryDone
  BY <1>n, <1>6 DEF QueryDone, QueryType, Updating
<1> QED BY <1>1, <1>2, <1>3, <1>4, <1>5, <1>6 DEF Query
-----------------------------------------------------------------------------

LEMMA StartsWell == Init => IInv
<1> SUFFICES ASSUME Init PROVE IInv
  OBVIOUS
<1>1. conn = Null /\ call = Idle /\ store \in [DBs -> BOOLEAN] /\ selected = 0 /\ astray = FALSE /\ handler = "connect"
      /\ hist = [applied |-> 0, where |-> {}, again |-> FALSE, seen |-> {}]
  BY DEF Init, InitRedis
<1>2. hist \in Histories /\ hist.applied = 0 /\ hist.where = {}
  BY <1>1 DEF Histories
<1>3. RedisType /\ Starting
  BY <1>1, <1>2, IdleCall, NewContexts, RedisAssumption DEF RedisType, Starting
<1>4. Sent /\ Replied /\ WhereSelected /\ Watching /\ Hit /\ Tested
  BY <1>1, <1>2, IdleCall DEF Sent, Replied, WhereSelected, Watching, Hit, Tested, AppliedOnce
<1>5. InDatabase /\ RepliesInStep
  BY <1>1, IdleCall, NewContexts DEF InDatabase, RepliesInStep, At
<1>6. SuccessIsApplied /\ FoundWasThere
  BY <1>1, IdleCall DEF SuccessIsApplied, FoundWasThere, At
<1>7. QueryType /\ Updating
  BY DEF Init, InitMySQL, QueryType, Updating, NoQuery
<1> QED BY <1>3, <1>4, <1>5, <1>6, <1>7 DEF IInv, RedisInv

LEMMA StepKeeps == IInv /\ [Next]_vars => IInv'
<1> SUFFICES ASSUME IInv, [Next]_vars PROVE IInv'
  OBVIOUS
<1>0. RedisInv /\ QueryType /\ Updating
  BY DEF IInv
<1>1. ASSUME UNCHANGED <<query, rows>> PROVE QueryType' /\ Updating'
  BY <1>0, <1>1 DEF QueryType, Updating
<1>2. CASE ConnectRedis
  <2>1. /\ handler = "connect" /\ handler' \in {"exited", "auth"} /\ conn' \in {Null, Fresh}
        /\ UNCHANGED <<store, call, selected, astray, hist, mysql>>
    BY <1>2 DEF ConnectRedis, RedisConnect, Becomes
  <2>2. call = Idle /\ selected = 0
    BY <1>0, <2>1 DEF RedisInv, Starting
  <2>3. RedisInv'
    BY <1>0, <2>1, <2>2, ConnectionStep
  <2> QED BY <1>1, <2>1, <2>3 DEF IInv, mysql
<1>3. CASE AuthRedis
  <2>1. /\ handler = "auth" /\ handler' \in {"exited", "init"} /\ conn' \in Auth
        /\ UNCHANGED <<store, call, selected, astray, hist, mysql>>
    BY <1>3 DEF AuthRedis, Auth, Becomes
  <2>2. call = Idle /\ selected = 0
    BY <1>0, <2>1 DEF RedisInv, Starting
  <2>3. RedisInv'
    BY <1>0, <2>1, <2>2, ConnectionStep
  <2> QED BY <1>1, <2>1, <2>3 DEF IInv, mysql
<1>4. CASE InitDataCenter
  <2>1. handler' \in {"serving", "exited", "terminated"} /\ UNCHANGED <<redis, query, rows>>
    BY <1>4 DEF InitDataCenter, Becomes
  <2>2. RedisInv'
    BY <1>0, <2>1, RedisRests
  <2> QED BY <1>1, <2>1, <2>2 DEF IInv
<1>5. CASE CallRedis
  <2>1. handler' \in {"serving", "crashed"} /\ UNCHANGED mysql /\ (BeginFunction \/ redisCommandMy \/ Function)
    BY <1>5 DEF CallRedis
  <2>2. RedisInv'
    BY <1>0, <2>1, BeginStep, CommandStep, FunctionStep
  <2> QED BY <1>1, <2>1, <2>2 DEF IInv, mysql
<1>6. CASE CallMySQL
  <2>1. handler' \in {"serving", "crashed"} /\ UNCHANGED redis /\ (DoUpdate \/ GetUserById \/ Query)
    BY <1>6 DEF CallMySQL
  <2>2. RedisInv'
    BY <1>0, <2>1, RedisRests
  <2>3. QueryType' /\ Updating'
    BY <1>0, <2>1, QueryStep
  <2> QED BY <2>2, <2>3 DEF IInv
<1>7. CASE Destroy
  <2>1. /\ handler' = "destroyed" /\ call = Idle /\ conn' = Null
        /\ UNCHANGED <<store, call, selected, astray, hist, query, rows>>
    BY <1>7 DEF Destroy, Becomes, Calling
  <2>2. RedisInv'
    BY <1>0, <2>1, ConnectionStep, NewContexts
  <2> QED BY <1>1, <2>1, <2>2 DEF IInv
<1>8. CASE OthersWrite
  <2>1. OtherClient /\ UNCHANGED <<mysql, handler>>
    BY <1>8 DEF OthersWrite
  <2>2. RedisInv'
    BY <1>0, <2>1, OtherClientStep
  <2> QED BY <1>1, <2>1, <2>2 DEF IInv, mysql
<1>9. CASE Ended \/ UNCHANGED vars
  <2>1. UNCHANGED <<redis, mysql, handler>>
    BY <1>9 DEF Ended, vars
  <2>2. RedisInv'
    BY <1>0, <2>1, RedisRests
  <2> QED BY <1>1, <2>1, <2>2 DEF IInv, mysql
<1> QED BY <1>2, <1>3, <1>4, <1>5, <1>6, <1>7, <1>8, <1>9 DEF Next

LEMMA Invariant == Spec => []IInv
<1> QED BY StartsWell, StepKeeps, PTL DEF Spec

(* However many functions a handler calls, and wherever its connections    *)
(* break, redisCommandMy has the server apply a command once, or three     *)
(* times at most if it had to connect again.                               *)
THEOREM CommandsAreSentOnce == Spec => []AppliedOnce
<1>1. IInv => AppliedOnce
  BY DEF IInv, RedisInv, Sent
<1> QED BY <1>1, Invariant, PTL

(* What a function of the Redis client or DoUpdate reports is so: success  *)
(* only after the server applied the command, a key only if it was there.  *)
THEOREM ResultsAreTrue == Spec => []ResultsTell
<1>1. Updating => UpdateTold
  BY DEF Updating, UpdateTold
<1>2. IInv => ResultsTell
  BY <1>1 DEF IInv, RedisInv, ResultsTell
<1> QED BY <1>2, Invariant, PTL

(* While nothing tells the handler otherwise, its commands go to the       *)
(* database of the last SelectDB that returned true, or to 0.              *)
THEOREM CommandsGoWhereSelected == Spec => []RightDatabase
<1>1. ASSUME IInv PROVE RightDatabase
  <2>1. ~astray /\ call.fn # "SelectDB" /\ conn.state = "open" => conn.db = selected
    BY <1>1 DEF IInv, RedisInv, InDatabase, Selecting
  <2> QED BY <1>1, <2>1 DEF IInv, RedisInv, WhereSelected, RightDatabase
<1> QED BY <1>1, Invariant, PTL

(* A pipeline leaves no reply behind for the next command to mistake for   *)
(* its own.                                                                *)
THEOREM RepliesStayInStep == Spec => []RepliesInStep
<1>1. IInv => RepliesInStep
  BY DEF IInv, RedisInv
<1> QED BY <1>1, Invariant, PTL

=============================================================================
