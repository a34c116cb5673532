----------------------------- MODULE MySQLBase -----------------------------
(***************************************************************************)
(* libCache/MySQLBase.cpp and CDataCenter of libCache.cpp: a handler's     *)
(* connection to MySQL, made again when error 2006, server gone, tells it  *)
(* is lost, and the statement GetUserById prepares once for its thread.    *)
(*                                                                         *)
(* The connector is external.  A statement may fail for a reason of its    *)
(* own, without a database always; the server may go away before it is     *)
(* applied (2006) or after (2013, which is not handled).  What a prepared  *)
(* statement does after its connection was deleted is undefined: it may    *)
(* fail or end the process.                                                *)
(***************************************************************************)
EXTENDS Naturals

VARIABLES
  sql,          (* m_sqlConn: null, open, gone; whether setSchema was done  *)
  stmt,         (* GetUserById's static statement                           *)
  query,        (* the CDataCenter function being called, and where it is   *)
  rows          (* history: how often its statement was applied             *)

mysql == <<sql, stmt, query, rows>>

NoConnection == [state |-> "null", schema |-> FALSE]
Connected    == [state |-> "open", schema |-> TRUE]
NoQuery      == [fn |-> "none", at |-> "idle", error |-> "none", ret |-> FALSE]

InitMySQL == sql = NoConnection /\ stmt = "none" /\ query = NoQuery /\ rows = 0

QueryAt(from, to) == query.at = from /\ query' = [query EXCEPT !.at = to]
Throw(error) == query' = [query EXCEPT !.at = "catch", !.error = error]

(* connect() and setSchema(): either may throw, and a connection whose     *)
(* setSchema threw is kept.                                                *)
Connect == {NoConnection, [Connected EXCEPT !.schema = FALSE], Connected}

DoUpdate ==
  /\ query.at = "idle"
  /\ query' = [NoQuery EXCEPT !.fn = "DoUpdate",
                  !.at = IF sql.state = "null" THEN "crashed" ELSE "execute"]
  /\ rows' = 0 /\ UNCHANGED <<sql, stmt>>

GetUserById ==
  /\ query.at = "idle"
  /\ query' = [NoQuery EXCEPT !.fn = "GetUserById",
                  !.at = CASE stmt # "none"        -> "execute"
                           [] sql.state = "null"   -> "crashed"
                           [] OTHER                -> "prepare"]
  /\ rows' = 0 /\ UNCHANGED <<sql, stmt>>

(* PrepareStmt(): if it throws, the next call prepares again.              *)
PrepareStmt ==
  /\ query.at = "prepare"
  /\ \/ /\ sql = Connected
        /\ stmt' = "current" /\ QueryAt("prepare", "execute") /\ UNCHANGED sql
     \/ /\ sql.state = "open"
        /\ Throw("other") /\ UNCHANGED <<sql, stmt>>
     \/ /\ sql' = [sql EXCEPT !.state = "gone"]
        /\ Throw("2006") /\ UNCHANGED stmt
  /\ UNCHANGED rows

(* ExecuteUpdate(), or executeQuery() of the statement.                    *)
Execute ==
  /\ query.at = "execute"
  /\ \/ /\ sql = Connected /\ (query.fn = "GetUserById" => stmt = "current")
        /\ rows' = rows + 1
        /\ \/ /\ UNCHANGED sql
              /\ query' = [query EXCEPT !.at = "returned", !.ret = (query.fn = "DoUpdate")]
           \/ sql' = [sql EXCEPT !.state = "gone"] /\ Throw("2013")
     \/ /\ sql.state = "open" /\ UNCHANGED <<sql, rows>>
        /\ Throw("other")
     \/ /\ sql' = [sql EXCEPT !.state = "gone"] /\ UNCHANGED rows
        /\ sql.state # "null" /\ Throw("2006")
     \/ /\ query.fn = "GetUserById" /\ stmt = "stale" /\ UNCHANGED <<sql, rows>>
        /\ Throw("2006") \/ QueryAt("execute", "crashed")
  /\ UNCHANGED stmt

(* The catch clause: HandleException() connects again after error 2006.    *)
(* The statement of the deleted connection stays.                          *)
HandleException ==
  /\ QueryAt("catch", "returned")
  /\ IF query.error = "2006"
     THEN sql' \in Connect /\ stmt' = IF stmt = "current" THEN "stale" ELSE stmt
     ELSE UNCHANGED <<sql, stmt>>
  /\ UNCHANGED rows

QueryDone == query.at = "returned" /\ query' = NoQuery /\ rows' = 0 /\ UNCHANGED <<sql, stmt>>

Query == PrepareStmt \/ Execute \/ HandleException \/ QueryDone

-----------------------------------------------------------------------------

(* DoUpdate reports what it did: true only if the update was applied, in   *)
(* the schema, and it is never applied twice, for unlike the Redis client  *)
(* CDataCenter does not repeat what failed.  After false it may have been  *)
(* applied, if the connection was lost under it.                           *)
UpdateTold ==
  query.fn = "DoUpdate" =>
    /\ rows <= 1
    /\ query.at = "returned" => (query.ret => rows = 1) /\ (rows = 1 => query.ret \/ query.error = "2013")

=============================================================================
