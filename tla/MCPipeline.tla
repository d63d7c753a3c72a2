----------------------------- MODULE MCPipeline ------------------------------
(* Two transactions over two keys, the second overlapping the first in the *)
(* WAL.  The rows are written out, as Apply's Sql makes them.              *)
EXTENDS Pipeline

MCPos == <<<<1, 1, 3, 5>>, <<2, 2, 7>>>>
MCCommitLsn == <<4, 6>>

Mark(op) == [op |-> op, key |-> None, arg |-> None]
Set(op, k, v) == [op |-> op, key |-> k, arg |-> v]

MCStmt ==
  << <<Mark("begin"), Set("insert", "a", "v"), Set("insert", "b", "v"), Mark("commit")>>,
     <<Mark("begin"), Set("update", "a", "w"), Mark("commit")>> >>
=============================================================================
