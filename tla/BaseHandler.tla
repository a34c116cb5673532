---------------------------- MODULE BaseHandler ----------------------------
(***************************************************************************)
(* Server/BaseHandler.cpp: the handler a worker thread makes when it       *)
(* starts and keeps until the server stops.  Its constructor connects to   *)
(* Redis and MySQL or ends the process; its member functions may then call *)
(* whatever the two offer, one call at a time; its destructor lets both    *)
(* connections go.                                                         *)
(***************************************************************************)
EXTENDS RedisHelp, MySQLBase

VARIABLE handler   (* where the handler is in its life                      *)

vars == <<redis, mysql, handler>>

Init == InitRedis /\ InitMySQL /\ handler = "connect"

Becomes(from, to) == handler = from /\ handler' = to

(* RedisConnect(), or exit().                                              *)
ConnectRedis ==
  /\ conn' \in RedisConnect
  /\ Becomes("connect", IF conn' = Null THEN "exited" ELSE "auth")
  /\ UNCHANGED <<store, call, selected, astray, hist, mysql>>

(* Auth(), or exit(): here alone its result counts.                        *)
AuthRedis ==
  /\ \/ Becomes("auth", "init") /\ conn' = [Fresh EXCEPT !.authed = TRUE]
     \/ Becomes("auth", "exited") /\ conn' \in Auth /\ ~conn'.authed
  /\ UNCHANGED <<store, call, selected, astray, hist, mysql>>

(* CDataCenter::Init(), or exit() if there is no driver.  connect(),       *)
(* setSchema() or "set names" may throw, and nothing catches it.           *)
InitDataCenter ==
  /\ \/ Becomes("init", "serving") /\ sql' = Connected
     \/ Becomes("init", "exited") /\ UNCHANGED sql
     \/ Becomes("init", "terminated") /\ sql' \in Connect
  /\ UNCHANGED <<redis, stmt, query, rows>>

Calling == call # Idle \/ query # NoQuery

CallRedis ==
  /\ handler = "serving" /\ query = NoQuery
  /\ BeginFunction \/ redisCommandMy \/ Function
  /\ handler' = IF call'.at = "crashed" THEN "crashed" ELSE "serving"
  /\ UNCHANGED mysql

CallMySQL ==
  /\ handler = "serving" /\ call = Idle
  /\ DoUpdate \/ GetUserById \/ Query
  /\ handler' = IF query'.at = "crashed" THEN "crashed" ELSE "serving"
  /\ UNCHANGED redis

(* ~BaseHandler(): the worker left its loop.                               *)
Destroy ==
  /\ Becomes("serving", "destroyed") /\ ~Calling
  /\ conn' = Null /\ sql' = NoConnection
  /\ stmt' = IF stmt = "current" THEN "stale" ELSE stmt
  /\ UNCHANGED <<store, call, selected, astray, hist, query, rows>>

OthersWrite == handler = "serving" /\ OtherClient /\ UNCHANGED <<mysql, handler>>

Ended == handler \in {"exited", "terminated", "crashed", "destroyed"} /\ UNCHANGED vars

Next == ConnectRedis \/ AuthRedis \/ InitDataCenter \/ CallRedis \/ CallMySQL
        \/ Destroy \/ OthersWrite \/ Ended

Spec == Init /\ [][Next]_vars

-----------------------------------------------------------------------------

(* What a function of either client reports is so: success only if the     *)
(* command or the update was applied, a key only if it was there, however  *)
(* often connections broke on the way.                                     *)
ResultsTell == SuccessIsApplied /\ FoundWasThere /\ UpdateTold
=============================================================================
