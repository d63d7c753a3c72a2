------------------------------- MODULE Receive -------------------------------
(***************************************************************************)
(* The receiving half of the incremental sync: the walsender of the        *)
(* source's logical slot (external), exec_logical_decoder and sendFeedback *)
(* of utils.c, and logical_decoding_receive_thread of pgsync.c, which      *)
(* stages every message as a row of the local table sync_sqls inside a     *)
(* local transaction per source transaction.                               *)
(*                                                                         *)
(* The slot delivers the committed transactions whole and in commit order. *)
(* A message is named by its transaction and its place in it: row 1 is     *)
(* "begin;", the last row is "commit;", the others are changes.  What the  *)
(* changes say is the subject of Apply.                                    *)
(***************************************************************************)
EXTENDS Integers, Sequences

CONSTANTS
  NTxn,            \* how many transactions the source commits
  Pos,             \* Pos[t][k]: the WAL position sent with message k of t
  CommitLsn,       \* CommitLsn[t]: where the commit record of t starts
  MaxDrop,         \* how often the stream may break or not come about
  MaxCrash,        \* how often the process may die
  FeedbackMayFail, \* whether sending a status packet may fail
  LocalMayFail     \* whether the local database may refuse a command

Txn == 1 .. NTxn
NRow(t) == Len(Pos[t])

ASSUME NTxnAssumption == NTxn \in Nat
ASSUME BoundAssumption == MaxDrop \in Nat /\ MaxCrash \in Nat
ASSUME SwitchAssumption ==
  FeedbackMayFail \in BOOLEAN /\ LocalMayFail \in BOOLEAN

(* A transaction has its begin, its changes and its commit.  The begin and *)
(* the changes are sent with positions no later than the commit record,    *)
(* the commit with the position after it; transactions overlap in the WAL  *)
(* but their commit records are ordered.                                   *)
ASSUME WalAssumption ==
  /\ CommitLsn \in [Txn -> Nat \ {0}]
  /\ Pos \in [Txn -> Seq(Nat \ {0})]
  /\ \A t \in Txn :
       /\ NRow(t) >= 2
       /\ Pos[t][NRow(t)] = CommitLsn[t] + 1
       /\ \A k \in 1 .. NRow(t) - 1 : Pos[t][k] <= CommitLsn[t]
  /\ \A t, u \in Txn : t < u => CommitLsn[t] < CommitLsn[u]

VARIABLES
  committed,        \* transactions committed at the source so far
  confirmed_flush,  \* the slot's confirmed_flush position
  sendTxn, sendRow, \* the walsender's next message
  conn,             \* hander->conn is streaming
  startpos, recvpos, flushpos,  \* the Decoder_handler's positions
  msg,              \* hander->msg, as <<transaction, row>>
  pc,               \* where the receive thread is
  time_to_abort,    \* the global flag
  ltx,              \* rows inserted in the open local transaction
  sync_sqls,        \* rows committed in sync_sqls, by id
  drops, crashes    \* how many of each there were

source == <<committed, confirmed_flush, sendTxn, sendRow>>
handler == <<conn, startpos, recvpos, flushpos, msg>>
local == <<ltx, sync_sqls>>
faults == <<drops, crashes>>
vars == <<source, handler, pc, time_to_abort, local, faults>>

PosMax(a, b) == IF a >= b THEN a ELSE b

Init ==
  /\ committed = 0 /\ confirmed_flush = 0
  /\ sendTxn = 1 /\ sendRow = 1
  /\ conn = FALSE
  /\ startpos = 0 /\ recvpos = 0 /\ flushpos = 0
  /\ msg = <<1, 1>>
  /\ pc = "connect"
  /\ time_to_abort = FALSE
  /\ ltx = <<>> /\ sync_sqls = <<>>
  /\ drops = 0 /\ crashes = 0

-----------------------------------------------------------------------------
(* The source (external).                                                  *)

SourceCommit ==
  /\ committed < NTxn
  /\ committed' = committed + 1
  /\ UNCHANGED <<confirmed_flush, sendTxn, sendRow, handler, pc, time_to_abort,
                 local, faults>>

(* START_REPLICATION at startpos: the server starts at the later of that   *)
(* and confirmed_flush, and leaves out every transaction whose commit      *)
(* record is before it.                                                    *)
StreamFrom(start) ==
  /\ sendTxn' \in 1 .. NTxn + 1
  /\ \A t \in Txn : t < sendTxn' <=> CommitLsn[t] < start
  /\ sendRow' = 1

(* What the walsender may report as its own position: it has passed every  *)
(* transaction it sent and no commit record it has yet to send.            *)
SentPtr ==
  LET low == IF sendTxn = 1 THEN 0 ELSE CommitLsn[sendTxn - 1] + 1
  IN  IF sendTxn <= NTxn THEN low .. CommitLsn[sendTxn] ELSE {low}

(* A status packet arrives, now or never: the server takes its flush       *)
(* position over unless it is invalid.                                     *)
TakeFeedback(flush) ==
  confirmed_flush' \in
    {confirmed_flush, IF flush = 0 THEN confirmed_flush ELSE flush}

-----------------------------------------------------------------------------
(* exec_logical_decoder and sendFeedback.                                  *)

(* initialize_connection and init_streaming, at the start of the thread    *)
(* and, without looking at their results, after every NULL message.        *)
Connect ==
  /\ pc = "connect"
  /\ ~conn
  /\ ~time_to_abort
  /\ StreamFrom(PosMax(startpos, confirmed_flush))
  /\ conn' = TRUE
  /\ pc' = "recv"
  /\ UNCHANGED <<committed, confirmed_flush, startpos, recvpos, flushpos, msg,
                 time_to_abort, local, faults>>

(* The connection cannot be made, or IDENTIFY_SYSTEM fails and the finished *)
(* connection is used again all the same: what init_streaming and          *)
(* exec_logical_decoder then try fails as well (or kills the process, as   *)
(* in Restart, which also stands for the exit(1) of the first attempt), so *)
(* the message is NULL and the thread sleeps and connects again.           *)
ConnectFails ==
  /\ pc = "connect"
  /\ ~conn
  /\ ~time_to_abort
  /\ drops < MaxDrop
  /\ drops' = drops + 1
  /\ UNCHANGED <<source, handler, pc, time_to_abort, local, crashes>>

(* A 'w' message: recvpos becomes its position, even a smaller one.  When  *)
(* standby_message_timeout is over, a status packet goes out before the    *)
(* message is handed to the thread.                                        *)
ReceiveMessage ==
  /\ pc = "recv" /\ conn
  /\ sendTxn <= committed
  /\ msg' = <<sendTxn, sendRow>>
  /\ recvpos' = Pos[sendTxn][sendRow]
  /\ IF sendRow < NRow(sendTxn)
     THEN sendRow' = sendRow + 1 /\ UNCHANGED sendTxn
     ELSE sendRow' = 1 /\ sendTxn' = sendTxn + 1
  /\ pc' \in {"stage", "feedback"}
  /\ UNCHANGED <<committed, confirmed_flush, conn, startpos, flushpos,
                 time_to_abort, local, faults>>

(* Mutant of FeedbackSent: the packet reports recvpos as flushed.          *)
ReceivedIsFlushed ==
  /\ startpos' = recvpos'
  /\ TakeFeedback(recvpos')
  /\ UNCHANGED <<conn, drops>>

(* Mutant of FeedbackSent: startpos is one before the position received,   *)
(* even when there is none.                                                *)
StartsOneBefore ==
  /\ startpos' = recvpos' - 1
  /\ TakeFeedback(flushpos)
  /\ UNCHANGED <<conn, drops>>

(* sendFeedback moves startpos before it knows whether the packet left.    *)
FeedbackSent ==
  /\ startpos' = recvpos'
  /\ TakeFeedback(flushpos)
  /\ UNCHANGED <<conn, drops>>

FeedbackFailed ==
  /\ FeedbackMayFail
  /\ drops < MaxDrop
  /\ startpos' = recvpos'
  /\ conn' = FALSE
  /\ drops' = drops + 1
  /\ UNCHANGED confirmed_flush

(* Mutant of FeedbackAfterMessage: the message is given up for the packet. *)
FeedbackInsteadOfMessage ==
  /\ pc = "feedback"
  /\ UNCHANGED recvpos
  /\ FeedbackSent
  /\ pc' = "recv"
  /\ UNCHANGED <<committed, sendTxn, sendRow, flushpos, msg, time_to_abort,
                 local, crashes>>

(* The packet sent after a message; when it fails the message is dropped   *)
(* and exec_logical_decoder returns NULL.                                  *)
FeedbackAfterMessage ==
  /\ pc = "feedback"
  /\ UNCHANGED recvpos
  /\ \/ FeedbackSent /\ pc' = "stage"
     \/ FeedbackFailed /\ pc' = "connect"
  /\ UNCHANGED <<committed, sendTxn, sendRow, flushpos, msg, time_to_abort,
                 local, crashes>>

(* A keepalive raises recvpos; a packet goes out when it asks for a reply. *)
Keepalive ==
  /\ pc = "recv" /\ conn
  /\ \E walEnd \in SentPtr : recvpos' = PosMax(walEnd, recvpos)
  /\ \/ UNCHANGED <<startpos, confirmed_flush, conn, pc, drops>>
     \/ FeedbackSent /\ UNCHANGED pc
     \/ FeedbackFailed /\ pc' = "connect"
  /\ UNCHANGED <<committed, sendTxn, sendRow, flushpos, msg, time_to_abort,
                 local, crashes>>

(* The packet sent while waiting for data.                                 *)
IdleFeedback ==
  /\ pc = "recv" /\ conn
  /\ UNCHANGED recvpos
  /\ \/ FeedbackSent /\ UNCHANGED pc
     \/ FeedbackFailed /\ pc' = "connect"
  /\ UNCHANGED <<committed, sendTxn, sendRow, flushpos, msg, time_to_abort,
                 local, crashes>>

(* Mutant of StreamBreaks: init stays TRUE, so nobody reconnects.          *)
StreamBreaksForGood ==
  /\ pc = "recv" /\ conn
  /\ drops < MaxDrop
  /\ drops' = drops + 1
  /\ conn' = FALSE
  /\ UNCHANGED <<source, startpos, recvpos, flushpos, msg, pc, time_to_abort, local,
                 crashes>>

(* The stream breaks or ends: NULL, sleep, reconnect.  The local           *)
(* transaction stays open.                                                 *)
StreamBreaks ==
  /\ pc = "recv" /\ conn
  /\ drops < MaxDrop
  /\ drops' = drops + 1
  /\ conn' = FALSE
  /\ pc' = "connect"
  /\ UNCHANGED <<source, startpos, recvpos, flushpos, msg, time_to_abort, local,
                 crashes>>

-----------------------------------------------------------------------------
(* logical_decoding_receive_thread.                                        *)

IsBegin(m) == m[2] = 1
IsCommit(m) == m[2] = NRow(m[1])

(* Mutant of StageRow: one END for several source transactions.            *)
StageBatch ==
  /\ pc = "stage"
  /\ ltx' = Append(ltx, msg)
  /\ flushpos' = recvpos
  /\ pc' = IF IsCommit(msg) /\ msg[1] = NTxn THEN "end" ELSE "recv"
  /\ UNCHANGED <<source, conn, startpos, recvpos, msg, time_to_abort, sync_sqls,
                 faults>>

(* BEGIN before a begin message (inside a transaction it is only a         *)
(* warning, so ltx goes on), INSERT of the row, flushpos = recvpos.        *)
StageRow ==
  /\ pc = "stage"
  /\ ltx' = Append(ltx, msg)
  /\ flushpos' = recvpos
  /\ pc' = IF IsCommit(msg) THEN "end" ELSE "recv"
  /\ UNCHANGED <<source, conn, startpos, recvpos, msg, time_to_abort, sync_sqls,
                 faults>>

(* END after a commit message.                                             *)
EndLocal ==
  /\ pc = "end"
  /\ sync_sqls' = sync_sqls \o ltx
  /\ ltx' = <<>>
  /\ pc' = "recv"
  /\ UNCHANGED <<source, handler, time_to_abort, faults>>

(* A refused BEGIN ends the thread and nothing else; a refused INSERT also *)
(* tells the process to stop.                                              *)
StageFails ==
  /\ LocalMayFail
  /\ pc = "stage"
  /\ \/ IsBegin(msg) /\ UNCHANGED time_to_abort
     \/ time_to_abort' = TRUE
  /\ pc' = "stopped"
  /\ UNCHANGED <<source, handler, local, faults>>

(* An END that reports an error, whether or not it took effect.            *)
EndFails ==
  /\ LocalMayFail
  /\ pc = "end"
  /\ \/ UNCHANGED local
     \/ sync_sqls' = sync_sqls \o ltx /\ ltx' = <<>>
  /\ pc' = "stopped"
  /\ UNCHANGED <<source, handler, time_to_abort, faults>>

(* Mutant of StopOnAbort: exec_logical_decoder does not look at the flag.   *)
StopBetweenStreams ==
  /\ time_to_abort
  /\ pc = "connect"
  /\ ltx' = <<>>
  /\ pc' = "stopped"
  /\ UNCHANGED <<source, handler, time_to_abort, sync_sqls, faults>>

(* The flag is seen at the top of the loop: both connections are closed,   *)
(* which rolls the open local transaction back.                            *)
StopOnAbort ==
  /\ time_to_abort
  /\ pc \in {"recv", "connect"}
  /\ conn' = FALSE
  /\ ltx' = <<>>
  /\ pc' = "stopped"
  /\ UNCHANGED <<source, startpos, recvpos, flushpos, msg, time_to_abort, sync_sqls,
                 faults>>

(* sigint_handler, or the apply thread on its way out (external here).     *)
Abort ==
  /\ ~time_to_abort
  /\ crashes < MaxCrash
  /\ time_to_abort' = TRUE
  /\ UNCHANGED <<source, handler, pc, local, faults>>

(* The process dies, or ends and is started again: what the handler knew   *)
(* and the open local transaction are gone.                                *)
Restart ==
  /\ crashes < MaxCrash
  /\ crashes' = crashes + 1
  /\ conn' = FALSE
  /\ startpos' = 0 /\ recvpos' = 0 /\ flushpos' = 0
  /\ msg' = <<1, 1>>
  /\ pc' = "connect"
  /\ time_to_abort' = FALSE
  /\ ltx' = <<>>
  /\ UNCHANGED <<source, sync_sqls, drops>>

(* The thread has ended; its process may go on without it.                 *)
Idle == pc = "stopped" /\ UNCHANGED vars

Step ==
  \/ Connect \/ ReceiveMessage \/ FeedbackAfterMessage
  \/ StageRow \/ EndLocal \/ StopOnAbort

Next ==
  \/ SourceCommit \/ Step \/ Keepalive \/ IdleFeedback \/ StreamBreaks
  \/ ConnectFails \/ StageFails \/ EndFails \/ Abort \/ Restart \/ Idle

Safety == Init /\ [][Next]_vars

(* The thread is scheduled, and a server that can be reached is reached in *)
(* the end: breaks and restarts are finitely many.                         *)
Spec == Safety /\ WF_vars(Step)

-----------------------------------------------------------------------------
(* All rows of t stand in sync_sqls, one after the other.                  *)
Staged(t) ==
  \E i \in 0 .. Len(sync_sqls) - NRow(t) :
    \A k \in 1 .. NRow(t) : sync_sqls[i + k] = <<t, k>>

StagedBelow(p) == \A t \in Txn : CommitLsn[t] < p => Staged(t)

IsRow(r) == \E t \in Txn : \E k \in 1 .. NRow(t) : r = <<t, k>>

(* Every variable has its type.                                            *)
TypeOK ==
  /\ committed \in 0 .. NTxn
  /\ confirmed_flush \in Nat
  /\ sendTxn \in 1 .. NTxn + 1
  /\ sendRow \in Nat \ {0}
  /\ sendTxn \in Txn => sendRow <= NRow(sendTxn)
  /\ conn \in BOOLEAN
  /\ startpos \in Nat /\ recvpos \in Nat /\ flushpos \in Nat
  /\ msg \in Nat \X Nat
  /\ pc \in {"connect", "recv", "feedback", "stage", "end", "stopped"}
  /\ pc \in {"feedback", "stage", "end"} => IsRow(msg)
  /\ time_to_abort \in BOOLEAN
  /\ ltx \in Seq(Nat \X Nat)
  /\ sync_sqls \in Seq(Nat \X Nat)
  /\ drops \in Nat /\ crashes \in Nat

(* The slot is never told to forget a transaction that is not durable in   *)
(* sync_sqls: flushpos runs ahead of the local END, but no status packet   *)
(* leaves in between.                                                      *)
ConfirmedIsStaged == StagedBelow(confirmed_flush)

(* When the thread reconnects, the position it asks for skips only what is *)
(* durable: startpos follows recvpos, which is ahead of what is staged.    *)
ResumeIsStaged == pc = "connect" => StagedBelow(startpos)

(* As long as the thread runs, what the source committed gets staged.      *)
EventuallyStaged ==
  []<>(pc = "stopped" \/ \A t \in 1 .. committed : Staged(t))

(* How many transactions are durable, and how many will not be sent again. *)
stagedTxn == CHOOSE n \in 0 .. NTxn : \A t \in Txn : Staged(t) <=> t <= n
ackedTxn ==
  CHOOSE n \in 0 .. NTxn : \A t \in Txn : CommitLsn[t] < confirmed_flush <=> t <= n

(* The staging implements an at-least-once log.                            *)
Log == INSTANCE StagingLog WITH staged <- stagedTxn, acked <- ackedTxn

LogSpec == Log!Spec
=============================================================================
