------------------------------- MODULE Pipeline ------------------------------
(***************************************************************************)
(* The incremental sync as a whole: the receive thread of Receive and the  *)
(* apply thread of Apply in one process.  They share the table sync_sqls,  *)
(* which one appends to and the other reads behind a cursor, the flag      *)
(* time_to_abort, and the fate of the process.                             *)
(***************************************************************************)
EXTENDS Receive

CONSTANTS
  Key, Value, Absent, None,   \* as in Apply
  Ops,                        \* the kinds of statements of the workload
  PersistEvery,               \* as in Apply
  Stmt                        \* Stmt[t][k]: the statement row k of t carries

VARIABLES
  target, tx, apply_id, status_id, cursor, sqltype, n_commit, apc, lost

applyVars == <<target, tx, apply_id, status_id, cursor, sqltype, n_commit, apc, lost>>
receiveVars == <<source, handler, pc, local, faults>>

Sqls(rows) == [i \in 1 .. Len(rows) |-> Stmt[rows[i][1]][rows[i][2]]]

A == INSTANCE Apply WITH
       MaxStmt <- 0, MaxTxn <- 0, ServerMayFail <- FALSE,
       sync_sqls <- Sqls(sync_sqls), pc <- apc, again <- crashes > 0

(* The rows of the first n transactions, and everything that the source    *)
(* committed, in commit order.                                             *)
HistoryTo(n) ==
  LET upto[t \in 0 .. n] == IF t = 0 THEN <<>> ELSE upto[t - 1] \o Stmt[t]
  IN  upto[n]
History == HistoryTo(committed)

(* As in Apply.                                                            *)
ASSUME ApplyAssumption ==
  /\ Ops \subseteq {"insert", "update", "delete", "move"}
  /\ PersistEvery \in Nat \ {0}
  /\ Absent \notin Value

(* A transaction begins, changes rows and commits, and the source could    *)
(* execute every change where it stands.                                   *)
ASSUME StmtAssumption ==
  \A t \in Txn :
    LET n == NRow(t)
        before(k) == HistoryTo(t - 1) \o SubSeq(Stmt[t], 1, k - 1)
    IN  /\ Stmt[t] \in Seq(A!Statement \union {A!BeginRow, A!CommitRow})
        /\ Len(Stmt[t]) = n
        /\ Stmt[t][1] = A!BeginRow
        /\ Stmt[t][n] = A!CommitRow
        /\ \A k \in 2 .. n - 1 :
             /\ Stmt[t][k] \in A!Statement
             /\ A!Executable(A!Replay(before(k)), Stmt[t][k])

PipelineInit ==
  /\ Init
  /\ A!Init

(* The receive thread, the source, and SIGINT.                             *)
ReceiveSide ==
  /\ \/ SourceCommit \/ Step \/ Keepalive \/ IdleFeedback \/ StreamBreaks
     \/ ConnectFails \/ StageFails \/ EndFails \/ Abort
  /\ UNCHANGED applyVars

(* The apply thread; its exits set the flag that the receive thread sees.  *)
ApplySide ==
  /\ UNCHANGED receiveVars
  /\ A!Run

(* The process ends and is started again.  A COMMIT at the target that was *)
(* under way may have taken effect.                                        *)
ProcessRestart ==
  /\ Restart
  /\ \/ UNCHANGED target
     \/ A!Fetching /\ A!fetched.op = "commit" /\ target' = tx
  /\ tx' = target'
  /\ apply_id' = status_id
  /\ cursor' = [next |-> 1, last |-> 0]
  /\ sqltype' = "begin"
  /\ n_commit' = 0
  /\ apc' = "declare"
  /\ UNCHANGED <<status_id, lost>>

(* Both threads have ended, and WaitThreadEnd lets the process go.         *)
BothStopped == pc = "stopped" /\ apc = "stopped"
Stopped == BothStopped /\ UNCHANGED <<vars, applyVars>>

PipelineNext == ReceiveSide \/ ApplySide \/ ProcessRestart \/ Stopped

PipelineSafety == PipelineInit /\ [][PipelineNext]_<<vars, applyVars>>

PipelineSpec ==
  /\ PipelineSafety
  /\ WF_<<vars, applyVars>>(Step /\ UNCHANGED applyVars)
  /\ WF_<<vars, applyVars>>(ApplySide)

-----------------------------------------------------------------------------
(* The apply thread has executed everything the source committed.          *)
InSync ==
  /\ apc # "stopped"
  /\ sync_sqls # <<>>
  /\ sync_sqls[Len(sync_sqls)] = <<committed, NRow(committed)>>
  /\ apply_id = Len(sync_sqls)

(* From the source to the target: when everything committed was staged and *)
(* applied, the target holds what the source holds, although the slot may  *)
(* send transactions again and the apply thread may apply them again.      *)
TargetEqualsSource == InSync => target = A!Replay(History)

(* As long as the apply thread lives, all that is staged gets applied: no  *)
(* row falls behind the cursor that it reads with.  And what is staged is  *)
(* all that the source committed, unless the receive thread has ended,     *)
(* which a refused BEGIN or END makes it do without telling anyone: then   *)
(* the apply thread brings the target to the last transaction staged.      *)
ArrivesOrStops ==
  []<>(\/ apc = "stopped"
       \/ A!CaughtUp /\ (pc = "stopped" \/ \A t \in 1 .. committed : Staged(t)))

(* When one thread raises time_to_abort, both end: neither waits for the   *)
(* other, so the main thread's wait for the two of them is over.           *)
AbortStopsBoth == time_to_abort ~> (BothStopped \/ ~time_to_abort)
=============================================================================
