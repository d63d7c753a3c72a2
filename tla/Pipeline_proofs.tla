---------------------------- MODULE Pipeline_proofs ---------------------------
(***************************************************************************)
(* Proofs about Receive and about Pipeline, which extends it.              *)
(*                                                                         *)
(* Part 1 is about the receive thread alone, for any WAL, any number of    *)
(* breaks of the stream and of restarts, and a local database that may     *)
(* refuse any command.  The thread's positions run ahead of what is        *)
(* durable: recvpos and startpos as soon as a message is taken, flushpos   *)
(* between a commit row and its END.  The inductive invariant IInv says by *)
(* how much: by no more than the transaction whose commit is in hand, and  *)
(* only until its END (PositionsAreStaged); and that everything sent       *)
(* before is durable (SentIsStaged) because the open local transaction     *)
(* ends in the rows of the transaction that is being sent (RowsInOrder).   *)
(* The theorems that rest on it are for a connection that takes every      *)
(* status packet.                                                          *)
(*                                                                         *)
(* Part 2 is about both threads: what arrives at the target is what the    *)
(* source holds.  The slot may send transactions again after a restart,    *)
(* and the apply thread may apply rows again.  The inductive invariant     *)
(* PInv follows a change on its way: the rows of sync_sqls are whole       *)
(* transactions, each at most one further than the one before it           *)
(* (RowsAreFramed), which the positions of the receive thread keep up      *)
(* (PositionsHold, SendsOn); so the apply thread finds rows that it can    *)
(* execute; and every key of the target holds what it held at the source   *)
(* at some place not before the thread's own (NotBehind).  At the end of   *)
(* everything there is one such place only.                                *)
(***************************************************************************)
EXTENDS Pipeline, Induction, SequenceTheorems, TLAPS

USE NTxnAssumption, BoundAssumption, SwitchAssumption, WalAssumption

(* A message was taken from the stream and is not done with.               *)
InHand == pc \in {"feedback", "stage", "end"}

(* s ends in the first n rows of t.                                        *)
EndsIn(s, t, n) ==
  n <= Len(s) /\ \A k \in 1 .. n : s[Len(s) - n + k] = <<t, k>>

(* Whatever stands before it, the open local transaction ends in the rows  *)
(* of the source transaction that were received.                           *)
RowsInOrder ==
  /\ pc = "recv" => EndsIn(ltx, sendTxn, sendRow - 1)
  /\ pc \in {"feedback", "stage"} => EndsIn(ltx, msg[1], msg[2] - 1)
  /\ pc = "end" => IsCommit(msg) /\ EndsIn(ltx, msg[1], NRow(msg[1]))

(* The walsender is right behind the message in hand.                      *)
SenderIsNext ==
  InHand => IF IsCommit(msg) THEN sendTxn = msg[1] + 1 /\ sendRow = 1
                             ELSE sendTxn = msg[1] /\ sendRow = msg[2] + 1

(* What was sent before the transaction at hand is durable.                *)
SentIsStaged ==
  /\ pc = "recv" => \A u \in Txn : u < sendTxn => Staged(u)
  /\ InHand => \A u \in Txn : u < msg[1] => Staged(u)

(* Below a position everything is durable but, perhaps, the transaction    *)
(* whose commit is in hand.                                                *)
StagedButHeld(p) ==
  \A u \in Txn : CommitLsn[u] < p => Staged(u) \/ (u = msg[1] /\ IsCommit(msg))

PositionsAreStaged ==
  /\ StagedBelow(confirmed_flush)
  /\ pc \in {"connect", "recv"} =>
       StagedBelow(startpos) /\ StagedBelow(recvpos) /\ StagedBelow(flushpos)
  /\ pc \in {"feedback", "stage"} => StagedBelow(flushpos)
  /\ InHand => StagedButHeld(startpos) /\ recvpos = Pos[msg[1]][msg[2]]
  /\ pc = "end" => flushpos = recvpos

(* Every row is one of a transaction that the source committed.            *)
RowsAreCommitted ==
  /\ \A i \in DOMAIN ltx : IsRow(ltx[i]) /\ ltx[i][1] <= committed
  /\ \A i \in DOMAIN sync_sqls : IsRow(sync_sqls[i]) /\ sync_sqls[i][1] <= committed
  /\ InHand => msg[1] <= committed

(* A commit row is the last one of its local transaction, and only whole   *)
(* transactions have theirs in sync_sqls.                                  *)
CommitsAreLast ==
  /\ \A i \in DOMAIN ltx : IsCommit(ltx[i]) =>
       /\ pc \in {"end", "stopped"}
       /\ i = Len(ltx)
  /\ pc = "end" => \A i \in DOMAIN ltx : i = Len(ltx) => ltx[i] = msg
  /\ \A i \in DOMAIN sync_sqls : IsCommit(sync_sqls[i]) => Staged(sync_sqls[i][1])

(* The durable transactions are the first ones.                            *)
StagedIsPrefix ==
  \E n \in 0 .. NTxn : \A t \in Txn : Staged(t) <=> t <= n

IInv ==
  /\ TypeOK
  /\ RowsInOrder
  /\ SenderIsNext
  /\ SentIsStaged
  /\ PositionsAreStaged
  /\ RowsAreCommitted
  /\ CommitsAreLast
  /\ StagedIsPrefix

-----------------------------------------------------------------------------
(* The transactions that are committed below a position are the first ones. *)
LEMMA BelowIsPrefix ==
  ASSUME NEW p \in Int
  PROVE  \E n \in 0 .. NTxn : \A t \in Txn : CommitLsn[t] < p <=> t <= n
<1> DEFINE T == {t \in Txn : ~(CommitLsn[t] < p)}
<1>1. CASE T = {}
  <2>1. \A t \in Txn : CommitLsn[t] < p
    BY <1>1
  <2>2. NTxn \in 0 .. NTxn /\ \A t \in Txn : t <= NTxn
    BY DEF Txn
  <2> QED
    BY <2>1, <2>2
<1>2. CASE T # {}
  <2>1. T \subseteq Nat
    BY DEF Txn
  <2> HIDE DEF T
  <2>2. PICK x \in T : \A y \in T : x <= y
    BY <1>2, <2>1, LeastNat
  <2>3. x \in Txn /\ ~(CommitLsn[x] < p) /\ x - 1 \in 0 .. NTxn
    BY DEF T, Txn
  <2>4. \A t \in Txn : CommitLsn[t] \in Nat
    OBVIOUS
  <2>5. ASSUME NEW t \in Txn PROVE CommitLsn[t] < p <=> t <= x - 1
    <3>1. CASE t < x
      BY <2>2, <2>4, <3>1 DEF T, Txn
    <3>2. CASE t = x
      BY <2>3, <3>2 DEF Txn
    <3>3. CASE x < t
      <4>1. CommitLsn[x] < CommitLsn[t]
        BY <2>3, <3>3
      <4> QED
        BY <2>3, <2>4, <3>3, <4>1 DEF Txn
    <3> QED
      BY <2>3, <3>1, <3>2, <3>3 DEF Txn
  <2> QED
    BY <2>3, <2>5
<1> QED
  BY <1>1, <1>2

(* The messages of a transaction: positions and numbers.                   *)
LEMMA WalIs ==
  ASSUME NEW t \in Txn
  PROVE  /\ t \in Nat \ {0}
         /\ CommitLsn[t] \in Nat \ {0} /\ NRow(t) \in Nat /\ NRow(t) >= 2
         /\ \A k \in 1 .. NRow(t) : Pos[t][k] \in Nat \ {0}
         /\ Pos[t][NRow(t)] = CommitLsn[t] + 1
         /\ \A k \in 1 .. NRow(t) - 1 : Pos[t][k] <= CommitLsn[t]
         /\ \A u \in Txn : t < u => CommitLsn[t] < CommitLsn[u]
<1>1. Pos[t] \in Seq(Nat \ {0}) /\ NRow(t) >= 2
  OBVIOUS
<1>2. NRow(t) \in Nat /\ Pos[t] \in [1 .. NRow(t) -> Nat \ {0}]
  BY <1>1, LenProperties DEF NRow
<1>3. t \in Nat \ {0} /\ CommitLsn[t] \in Nat \ {0}
  BY DEF Txn
<1>4. \A k \in 1 .. NRow(t) : Pos[t][k] \in Nat \ {0}
  BY <1>2
<1>5. /\ Pos[t][NRow(t)] = CommitLsn[t] + 1
      /\ \A k \in 1 .. NRow(t) - 1 : Pos[t][k] <= CommitLsn[t]
      /\ \A u \in Txn : t < u => CommitLsn[t] < CommitLsn[u]
  OBVIOUS
<1> QED
  BY <1>1, <1>2, <1>3, <1>4, <1>5

-----------------------------------------------------------------------------
(* Types are kept.                                                         *)
LEMMA TypingStep ==
  ASSUME TypeOK, [Next]_vars
  PROVE  TypeOK'
<1> USE DEF TypeOK, source, handler, local, faults
<1>1. CASE SourceCommit
  BY <1>1 DEF SourceCommit
<1>2. CASE Connect
  <2>1. sendTxn' \in 1 .. NTxn + 1 /\ sendRow' = 1
    BY <1>2 DEF Connect, StreamFrom
  <2>2. sendTxn' \in Txn => sendRow' <= NRow(sendTxn')
    BY <2>1, WalIs
  <2> QED
    BY <1>2, <2>1, <2>2 DEF Connect
<1>3. CASE ReceiveMessage
  <2>1. sendTxn \in Txn /\ sendRow \in 1 .. NRow(sendTxn)
    BY <1>3, WalIs DEF ReceiveMessage, Txn
  <2>2. recvpos' \in Nat /\ msg' \in Nat \X Nat /\ IsRow(msg')
    BY <1>3, <2>1, WalIs DEF ReceiveMessage, IsRow
  <2>3. sendTxn' \in 1 .. NTxn + 1 /\ sendRow' \in Nat \ {0}
        /\ (sendTxn' \in Txn => sendRow' <= NRow(sendTxn'))
    <3>1. CASE sendRow < NRow(sendTxn)
      BY SMTT(60), <1>3, <2>1, <3>1, WalIs DEF ReceiveMessage
    <3>2. CASE ~(sendRow < NRow(sendTxn))
      <4>1. sendTxn' = sendTxn + 1 /\ sendRow' = 1
        BY <1>3, <3>2 DEF ReceiveMessage
      <4>2. sendTxn' \in 1 .. NTxn + 1
        BY <2>1, <4>1 DEF Txn
      <4> QED
        BY <4>1, <4>2, WalIs
    <3> QED
      BY <3>1, <3>2
  <2> QED
    BY <1>3, <2>2, <2>3 DEF ReceiveMessage
<1>4. FeedbackSent /\ recvpos' \in Nat => startpos' \in Nat /\ confirmed_flush' \in Nat /\ UNCHANGED <<conn, drops>>
  BY DEF FeedbackSent, TakeFeedback
<1>5. FeedbackFailed /\ recvpos' \in Nat =>
        /\ startpos' \in Nat /\ confirmed_flush' \in Nat
        /\ conn' \in BOOLEAN /\ drops' \in Nat
  <2>1. FeedbackFailed => drops' \in Nat
    BY DEF FeedbackFailed
  <2>2. FeedbackFailed => conn' = FALSE
    BY DEF FeedbackFailed
  <2>3. FeedbackFailed => startpos' = recvpos' /\ confirmed_flush' = confirmed_flush
    BY DEF FeedbackFailed
  <2> QED
    BY <2>1, <2>2, <2>3
<1>6. CASE FeedbackAfterMessage
  BY <1>4, <1>5, <1>6 DEF FeedbackAfterMessage, IsRow
<1>7. CASE Keepalive
  <2>1. SentPtr \subseteq Nat
    <3>1. sendTxn # 1 => sendTxn - 1 \in Txn
      BY DEF Txn
    <3>2. (IF sendTxn = 1 THEN 0 ELSE CommitLsn[sendTxn - 1] + 1) \in Nat
      BY <3>1, WalIs
    <3> QED
      BY <3>2 DEF SentPtr
  <2>2. recvpos' \in Nat
    BY <1>7, <2>1 DEF Keepalive, PosMax
  <2> QED
    BY <1>4, <1>5, <1>7, <2>2 DEF Keepalive
<1>8. CASE IdleFeedback
  BY <1>4, <1>5, <1>8 DEF IdleFeedback
<1>9. CASE StreamBreaks
  <2>1. drops' \in Nat
    BY <1>9 DEF StreamBreaks
  <2>2. conn' \in BOOLEAN /\ pc' = "connect"
    BY <1>9 DEF StreamBreaks
  <2> QED
    BY <1>9, <2>1, <2>2 DEF StreamBreaks
<1>19. CASE ConnectFails
  <2>1. drops' \in Nat
    BY <1>19 DEF ConnectFails
  <2> QED
    BY <1>19, <2>1 DEF ConnectFails, IsRow
<1>10. CASE StageRow
  <2>1. Append(ltx, msg) \in Seq(Nat \X Nat)
    BY AppendProperties
  <2> QED
    BY <1>10, <2>1 DEF StageRow, IsRow
<1>11. CASE EndLocal
  <2>1. sync_sqls \o ltx \in Seq(Nat \X Nat) /\ <<>> \in Seq(Nat \X Nat)
    BY ConcatProperties, EmptySeq
  <2> QED
    BY <1>11, <2>1 DEF EndLocal
<1>12. CASE StageFails
  BY <1>12 DEF StageFails
<1>13. CASE EndFails
  <2>1. sync_sqls \o ltx \in Seq(Nat \X Nat) /\ <<>> \in Seq(Nat \X Nat)
    BY ConcatProperties, EmptySeq
  <2> QED
    BY <1>13, <2>1 DEF EndFails
<1>14. <<>> \in Seq(Nat \X Nat)
  BY EmptySeq
<1>15. CASE StopOnAbort
  BY <1>14, <1>15 DEF StopOnAbort
<1>16. CASE Abort
  BY <1>16 DEF Abort, IsRow
<1>17. CASE Restart
  <2>1. crashes' \in Nat
    BY <1>17 DEF Restart
  <2>2. conn' \in BOOLEAN /\ time_to_abort' \in BOOLEAN /\ pc' = "connect"
    BY <1>17 DEF Restart
  <2>3. startpos' \in Nat /\ recvpos' \in Nat /\ flushpos' \in Nat /\ msg' \in Nat \X Nat
    BY <1>17 DEF Restart
  <2>4. ltx' \in Seq(Nat \X Nat) /\ sync_sqls' = sync_sqls
    BY <1>14, <1>17 DEF Restart
  <2>5. UNCHANGED <<committed, confirmed_flush, sendTxn, sendRow, drops>>
    BY <1>17 DEF Restart
  <2> QED
    BY <2>1, <2>2, <2>3, <2>4, <2>5
<1>18. CASE UNCHANGED vars
  BY <1>18 DEF vars, IsRow
<1> QED
  BY <1>1, <1>2, <1>3, <1>6, <1>7, <1>8, <1>9, <1>10, <1>11, <1>12, <1>13, <1>15, <1>16,
     <1>17, <1>18, <1>19 DEF Next, Step, Idle

-----------------------------------------------------------------------------
(* Every sequence ends in no rows, and takes the next row of the same      *)
(* transaction.                                                            *)
LEMMA EndsInNothing ==
  ASSUME NEW s \in Seq(Nat \X Nat), NEW t
  PROVE  EndsIn(s, t, 0)
<1>1. Len(s) \in Nat
  BY LenProperties
<1> QED
  BY <1>1 DEF EndsIn

(* The next row of a transaction goes behind the ones before it.           *)
LEMMA EndsInNext ==
  ASSUME NEW s \in Seq(Nat \X Nat), NEW t \in Nat, NEW n \in Nat, EndsIn(s, t, n)
  PROVE  EndsIn(Append(s, <<t, n + 1>>), t, n + 1)
<1> DEFINE a == Append(s, <<t, n + 1>>)
<1>1. /\ Len(s) \in Nat /\ Len(a) = Len(s) + 1
      /\ a[Len(s) + 1] = <<t, n + 1>>
      /\ \A i \in 1 .. Len(s) : a[i] = s[i]
  BY AppendProperties, LenProperties
<1>0. n <= Len(s) /\ \A k \in 1 .. n : s[Len(s) - n + k] = <<t, k>>
  BY DEF EndsIn
<1> HIDE DEF a
<1>2. ASSUME NEW k \in 1 .. n + 1 PROVE a[Len(s) - n + k] = <<t, k>>
  <2>1. CASE k = n + 1
    BY <1>1, <2>1
  <2>2. CASE k \in 1 .. n
    <3>1. s[Len(s) - n + k] = <<t, k>>
      BY <1>0, <2>2
    <3>2. Len(s) - n + k \in 1 .. Len(s)
      BY <1>0, <1>1, <2>2
    <3> QED
      BY <1>1, <3>1, <3>2
  <2> QED
    BY <2>1, <2>2
<1>3. Len(a) - (n + 1) = Len(s) - n /\ n + 1 <= Len(a)
  <2>1. Len(s) \in Nat /\ Len(a) = Len(s) + 1 /\ n <= Len(s)
    BY <1>0, <1>1
  <2>2. \A l, m \in Nat : m <= l => (l + 1) - (m + 1) = l - m /\ m + 1 <= l + 1
    OBVIOUS
  <2> QED
    BY <2>1, <2>2
<1>4. EndsIn(a, t, n + 1)
  BY <1>1, <1>2, <1>3 DEF EndsIn
<1> QED
  BY <1>4 DEF a

(* What is durable stays so, and an END makes the transaction durable that *)
(* the local one ends in.                                                  *)
LEMMA StagedKept ==
  ASSUME TypeOK, UNCHANGED sync_sqls \/ sync_sqls' = sync_sqls \o ltx
  PROVE  \A t \in Txn : Staged(t) => Staged(t)'
<1>1. UNCHANGED sync_sqls => \A t \in Txn : Staged(t) => Staged(t)'
  BY DEF Staged
<1>2. ASSUME sync_sqls' = sync_sqls \o ltx, NEW t \in Txn, Staged(t) PROVE Staged(t)'
  <2>1. /\ Len(sync_sqls) \in Nat /\ Len(ltx) \in Nat
        /\ Len(sync_sqls') = Len(sync_sqls) + Len(ltx)
        /\ \A i \in 1 .. Len(sync_sqls) : sync_sqls'[i] = sync_sqls[i]
    <3>1. sync_sqls \in Seq(Nat \X Nat) /\ ltx \in Seq(Nat \X Nat)
      BY DEF TypeOK
    <3>2. Len(sync_sqls) \in Nat /\ Len(ltx) \in Nat
      BY <3>1, LenProperties
    <3> QED
      BY <1>2, <3>1, <3>2, ConcatProperties
  <2>2. PICK i \in 0 .. Len(sync_sqls) - NRow(t) :
          \A k \in 1 .. NRow(t) : sync_sqls[i + k] = <<t, k>>
    BY <1>2 DEF Staged
  <2>3. NRow(t) \in Nat
    BY WalIs
  <2>4. \A k \in 1 .. NRow(t) : i + k \in 1 .. Len(sync_sqls)
    BY <2>1, <2>3
  <2>5. i \in 0 .. Len(sync_sqls') - NRow(t)
    BY <2>1, <2>3
  <2>6. \A k \in 1 .. NRow(t) : sync_sqls'[i + k] = <<t, k>>
    BY <2>1, <2>2, <2>4
  <2> QED
    BY <2>5, <2>6 DEF Staged
<1> QED
  BY <1>1, <1>2

(* With its last row in the open transaction, END stages it.               *)
LEMMA StagedNow ==
  ASSUME TypeOK, sync_sqls' = sync_sqls \o ltx, NEW t \in Txn, EndsIn(ltx, t, NRow(t))
  PROVE  Staged(t)'
<1> DEFINE i == Len(sync_sqls) + (Len(ltx) - NRow(t))
<1>1. /\ Len(sync_sqls) \in Nat /\ Len(ltx) \in Nat
      /\ Len(sync_sqls') = Len(sync_sqls) + Len(ltx)
      /\ \A j \in 1 .. Len(ltx) : sync_sqls'[Len(sync_sqls) + j] = ltx[j]
  <2>1. sync_sqls \in Seq(Nat \X Nat) /\ ltx \in Seq(Nat \X Nat)
    BY DEF TypeOK
  <2>2. Len(sync_sqls) \in Nat /\ Len(ltx) \in Nat
    BY <2>1, LenProperties
  <2>3. /\ Len(sync_sqls') = Len(sync_sqls) + Len(ltx)
        /\ \A j \in 1 .. Len(sync_sqls) + Len(ltx) :
             sync_sqls'[j] = IF j <= Len(sync_sqls) THEN sync_sqls[j] ELSE ltx[j - Len(sync_sqls)]
    BY <2>1, ConcatProperties
  <2>4. \A j \in 1 .. Len(ltx) : /\ Len(sync_sqls) + j \in 1 .. Len(sync_sqls) + Len(ltx)
                                 /\ ~(Len(sync_sqls) + j <= Len(sync_sqls))
                                 /\ Len(sync_sqls) + j - Len(sync_sqls) = j
    BY <2>2
  <2> QED
    BY <2>2, <2>3, <2>4
<1>2. NRow(t) \in Nat /\ NRow(t) <= Len(ltx)
  BY WalIs DEF EndsIn
<1>3. i \in 0 .. Len(sync_sqls') - NRow(t)
  BY <1>1, <1>2
<1>4. ASSUME NEW k \in 1 .. NRow(t) PROVE sync_sqls'[i + k] = <<t, k>>
  <2>1. Len(ltx) - NRow(t) + k \in 1 .. Len(ltx)
    BY <1>1, <1>2
  <2>2. i + k = Len(sync_sqls) + (Len(ltx) - NRow(t) + k)
    BY <1>1, <1>2
  <2> QED
    BY <1>1, <2>1, <2>2 DEF EndsIn
<1> HIDE DEF i
<1> QED
  BY <1>3, <1>4 DEF Staged

-----------------------------------------------------------------------------
(* The parts of the invariant, step by step.  What all of them use.        *)
LEMMA Facts ==
  ASSUME TypeOK
  PROVE  /\ \A t \in Txn : t \in Nat /\ NRow(t) \in Nat /\ NRow(t) >= 2
         /\ InHand => /\ msg[1] \in Txn /\ msg[2] \in 1 .. NRow(msg[1])
                      /\ msg = <<msg[1], msg[2]>>
<1>1. \A t \in Txn : t \in Nat /\ NRow(t) \in Nat /\ NRow(t) >= 2
  BY WalIs
<1>2. InHand => IsRow(msg)
  BY DEF InHand, TypeOK
<1> QED
  BY <1>1, <1>2 DEF IsRow

(* The rows arrive and are inserted one after the other, and a transaction *)
(* that is sent again starts with its first one.                           *)
LEMMA RowsInOrderStep ==
  ASSUME TypeOK, RowsInOrder, SenderIsNext, [Next]_vars
  PROVE  RowsInOrder' /\ SenderIsNext'
<1>0. TypeOK /\ RowsInOrder /\ SenderIsNext /\ ltx \in Seq(Nat \X Nat)
  BY DEF TypeOK
<1> USE DEF InHand, source, handler, local, faults
<1>1. UNCHANGED <<pc, ltx, msg, sendTxn, sendRow>> => RowsInOrder' /\ SenderIsNext'
  BY <1>0 DEF RowsInOrder, SenderIsNext, EndsIn, IsCommit
<1>2. pc' \in {"connect", "stopped"} => RowsInOrder' /\ SenderIsNext'
  BY DEF RowsInOrder, SenderIsNext
<1>3. CASE Connect
  <2>1. pc' = "recv" /\ sendRow' - 1 = 0 /\ ltx' = ltx
    BY <1>3 DEF Connect, StreamFrom
  <2> QED
    BY <1>0, <2>1, EndsInNothing DEF RowsInOrder, SenderIsNext
<1>4. CASE ReceiveMessage
  <2>1. EndsIn(ltx, sendTxn, sendRow - 1) /\ msg' = <<sendTxn, sendRow>> /\ ltx' = ltx
        /\ pc' \in {"stage", "feedback"}
    BY <1>0, <1>4 DEF ReceiveMessage, RowsInOrder
  <2>2. RowsInOrder'
    BY <2>1 DEF RowsInOrder
  <2>3. sendTxn \in Txn /\ sendRow \in Nat /\ sendRow <= NRow(sendTxn)
    BY <1>0, <1>4 DEF ReceiveMessage, TypeOK, Txn
  <2>4. IsCommit(msg)' <=> sendRow = NRow(sendTxn)
    BY <2>1 DEF IsCommit
  <2>5. IF sendRow < NRow(sendTxn) THEN sendRow' = sendRow + 1 /\ sendTxn' = sendTxn
                                    ELSE sendRow' = 1 /\ sendTxn' = sendTxn + 1
    BY <1>4 DEF ReceiveMessage
  <2>6. NRow(sendTxn) \in Nat
    BY <2>3, WalIs
  <2> QED
    BY <2>1, <2>2, <2>3, <2>4, <2>5, <2>6 DEF SenderIsNext
<1>5. CASE FeedbackAfterMessage
  BY <1>0, <1>2, <1>5 DEF FeedbackAfterMessage, RowsInOrder, SenderIsNext, EndsIn, IsCommit
<1>6. CASE Keepalive
  BY <1>1, <1>2, <1>6 DEF Keepalive
<1>7. CASE IdleFeedback
  BY <1>1, <1>2, <1>7 DEF IdleFeedback
<1>8. CASE StageRow
  <2>1. /\ EndsIn(ltx, msg[1], msg[2] - 1) /\ ltx' = Append(ltx, msg) /\ msg' = msg
        /\ pc' = IF IsCommit(msg) THEN "end" ELSE "recv"
        /\ sendTxn' = sendTxn /\ sendRow' = sendRow
    BY <1>0, <1>8 DEF StageRow, RowsInOrder
  <2>2. /\ msg[1] \in Nat /\ msg[2] \in Nat \ {0} /\ msg = <<msg[1], msg[2]>> /\ InHand
        /\ NRow(msg[1]) \in Nat
    BY <1>0, <1>8, Facts DEF StageRow
  <2>3. EndsIn(ltx', msg[1], msg[2])
    <3>1. msg[2] - 1 \in Nat /\ (msg[2] - 1) + 1 = msg[2]
      BY <2>2
    <3> QED
      BY <1>0, <2>1, <2>2, <3>1, EndsInNext
  <2>4. CASE IsCommit(msg)
    BY <1>0, <2>1, <2>2, <2>3, <2>4 DEF RowsInOrder, SenderIsNext, IsCommit
  <2>5. CASE ~IsCommit(msg)
    <3>1. sendTxn = msg[1] /\ sendRow - 1 = msg[2]
      BY <1>0, <2>2, <2>5 DEF SenderIsNext
    <3> QED
      BY <2>1, <2>3, <2>5, <3>1 DEF RowsInOrder, SenderIsNext
  <2> QED
    BY <2>4, <2>5
<1>9. CASE EndLocal
  <2>1. pc' = "recv" /\ ltx' = <<>> /\ sendTxn' = sendTxn /\ sendRow' - 1 = 0
    BY <1>0, <1>9 DEF EndLocal, RowsInOrder, SenderIsNext
  <2>2. <<>> \in Seq(Nat \X Nat)
    BY EmptySeq
  <2> QED
    BY <2>1, <2>2, EndsInNothing DEF RowsInOrder, SenderIsNext
<1>10. CASE SourceCommit \/ Abort \/ UNCHANGED vars
  BY <1>1, <1>10 DEF SourceCommit, Abort, vars
<1>12. CASE ConnectFails
  BY <1>1, <1>12 DEF ConnectFails
<1>11. CASE StreamBreaks \/ StageFails \/ EndFails \/ StopOnAbort \/ Restart
  BY <1>2, <1>11 DEF StreamBreaks, StageFails, EndFails, StopOnAbort, Restart
<1> QED
  BY <1>3, <1>4, <1>5, <1>6, <1>7, <1>8, <1>9, <1>10, <1>11, <1>12
     DEF Next, Step, Idle

(* Nothing is ever taken out of sync_sqls.                                 *)
LEMMA StagedStays ==
  ASSUME TypeOK, [Next]_vars
  PROVE  \A t \in Txn : Staged(t) => Staged(t)'
<1>1. UNCHANGED sync_sqls \/ sync_sqls' = sync_sqls \o ltx
  BY DEF Next, Step, Idle, SourceCommit, Connect, ReceiveMessage, FeedbackAfterMessage, Keepalive,
     IdleFeedback, StreamBreaks, ConnectFails, StageRow, EndLocal, StageFails, EndFails, StopOnAbort,
     Abort, Restart, vars, local
<1> QED
  BY <1>1, StagedKept

(* With its END, the transaction in hand is durable.                       *)
LEMMA EndMakesDurable ==
  ASSUME IInv, [Next]_vars, pc = "end", sync_sqls' = sync_sqls \o ltx
  PROVE  msg[1] \in Txn /\ \A t \in Txn : t = msg[1] => Staged(t)'
<1>1. msg[1] \in Txn
  BY Facts DEF IInv, InHand
<1>2. EndsIn(ltx, msg[1], NRow(msg[1]))
  BY DEF IInv, RowsInOrder
<1> QED
  BY <1>1, <1>2, StagedNow DEF IInv

(* The stream starts again no later than what is not yet durable, and      *)
(* goes on one transaction after the other.                                *)
LEMMA SentIsStagedStep ==
  ASSUME IInv, [Next]_vars, ~FeedbackMayFail
  PROVE  SentIsStaged'
<1>0. /\ TypeOK /\ RowsInOrder /\ SenderIsNext /\ SentIsStaged /\ PositionsAreStaged
      /\ \A t \in Txn : Staged(t) => Staged(t)'
  BY StagedStays DEF IInv
<1> USE DEF InHand, source, handler, local, faults
<1>1. UNCHANGED <<pc, msg, sendTxn>> => SentIsStaged'
  BY <1>0 DEF SentIsStaged
<1>2. pc' \in {"connect", "stopped"} => SentIsStaged'
  BY DEF SentIsStaged
<1>3. CASE Connect
  <2>1. /\ pc' = "recv"
        /\ \A t \in Txn : t < sendTxn' => CommitLsn[t] < PosMax(startpos, confirmed_flush)
    BY <1>3 DEF Connect, StreamFrom
  <2>2. StagedBelow(PosMax(startpos, confirmed_flush))
    BY <1>0, <1>3 DEF Connect, PositionsAreStaged, PosMax
  <2> QED
    BY <1>0, <2>1, <2>2 DEF SentIsStaged, StagedBelow
<1>4. CASE ReceiveMessage
  BY <1>0, <1>4 DEF ReceiveMessage, SentIsStaged
<1>5. CASE FeedbackAfterMessage
  BY <1>0, <1>5 DEF FeedbackAfterMessage, FeedbackFailed, SentIsStaged
<1>6. CASE Keepalive \/ IdleFeedback
  BY <1>1, <1>2, <1>6 DEF Keepalive, IdleFeedback
<1>7. CASE StageRow
  BY <1>0, <1>7 DEF StageRow, SentIsStaged, SenderIsNext
<1>8. CASE EndLocal
  <2>1. /\ pc' = "recv" /\ sendTxn' = msg[1] + 1
        /\ \A u \in Txn : u < msg[1] => Staged(u)
    BY <1>0, <1>8 DEF EndLocal, RowsInOrder, SenderIsNext, SentIsStaged
  <2>2. msg[1] \in Txn /\ \A t \in Txn : t = msg[1] => Staged(t)'
    BY <1>8, EndMakesDurable DEF EndLocal
  <2>3. \A u \in Txn : u < msg[1] + 1 => u < msg[1] \/ u = msg[1]
    BY <2>2 DEF Txn
  <2> QED
    BY <1>0, <2>1, <2>2, <2>3 DEF SentIsStaged
<1>9. CASE SourceCommit \/ Abort \/ UNCHANGED vars
  BY <1>1, <1>9 DEF SourceCommit, Abort, vars
<1>11. CASE ConnectFails
  BY <1>1, <1>11 DEF ConnectFails
<1>10. CASE StreamBreaks \/ StageFails \/ EndFails \/ StopOnAbort \/ Restart
  BY <1>2, <1>10 DEF StreamBreaks, StageFails, EndFails, StopOnAbort, Restart
<1> QED
  BY <1>3, <1>4, <1>5, <1>6, <1>7, <1>8, <1>9, <1>10, <1>11 DEF Next, Step, Idle

(* Below the position of the message in hand, everything is durable but    *)
(* the transaction that it commits.                                        *)
LEMMA HeldPosition ==
  ASSUME TypeOK, SentIsStaged, InHand
  PROVE  StagedButHeld(Pos[msg[1]][msg[2]])
<1> DEFINE t == msg[1]
           k == msg[2]
<1>1. t \in Txn /\ k \in 1 .. NRow(t) /\ msg = <<t, k>>
  BY Facts
<1>2. \A u \in Txn : u < t => Staged(u)
  BY DEF SentIsStaged
<1> SUFFICES ASSUME NEW u \in Txn, CommitLsn[u] < Pos[t][k], ~(u < t)
             PROVE  u = t /\ IsCommit(msg)
  BY <1>2 DEF StagedButHeld
<1> HIDE DEF t, k
<1>3. u \in Nat /\ t \in Nat /\ CommitLsn[u] \in Nat /\ CommitLsn[t] \in Nat /\ Pos[t][k] \in Nat
      /\ NRow(t) \in Nat
  BY <1>1, WalIs
<1>4. t < u => CommitLsn[t] < CommitLsn[u]
  BY <1>1
<1>5. k # NRow(t) => Pos[t][k] <= CommitLsn[t]
  BY <1>1, <1>3, WalIs
<1>6. k = NRow(t) => Pos[t][k] = CommitLsn[t] + 1
  BY <1>1, WalIs
<1>7. u = t
  BY <1>3, <1>4, <1>5, <1>6
<1>8. k = NRow(t)
  BY <1>3, <1>5, <1>7
<1> QED
  BY <1>7, <1>8, <1>1 DEF IsCommit, t, k

(* The walsender does not report a position past what it has sent.         *)
LEMMA SentPtrIsStaged ==
  ASSUME TypeOK, SentIsStaged, pc = "recv", NEW walEnd \in SentPtr
  PROVE  StagedBelow(walEnd)
<1>1. sendTxn \in 1 .. NTxn + 1 /\ \A u \in Txn : u < sendTxn => Staged(u)
  BY DEF TypeOK, SentIsStaged
<1> SUFFICES ASSUME NEW u \in Txn, CommitLsn[u] < walEnd PROVE u < sendTxn
  BY <1>1 DEF StagedBelow
<1>2. CASE sendTxn = NTxn + 1
  BY <1>2 DEF Txn
<1>3. CASE sendTxn \in Txn
  <2>1. sendTxn # 1 => sendTxn - 1 \in Txn /\ sendTxn - 1 < sendTxn
    BY <1>3 DEF Txn
  <2>2. sendTxn # 1 => CommitLsn[sendTxn - 1] < CommitLsn[sendTxn]
    BY <1>3, <2>1
  <2>3. \A t \in Txn : CommitLsn[t] \in Nat /\ t \in Nat
    BY WalIs
  <2>4. walEnd \in (IF sendTxn = 1 THEN 0 ELSE CommitLsn[sendTxn - 1] + 1) .. CommitLsn[sendTxn]
    BY <1>3 DEF SentPtr, Txn
  <2>5. walEnd \in Int /\ walEnd <= CommitLsn[sendTxn]
    BY <1>3, <2>1, <2>3, <2>4
  <2>6. sendTxn < u => CommitLsn[sendTxn] < CommitLsn[u]
    BY <1>3
  <2> QED
    BY <1>3, <2>3, <2>5, <2>6
<1> QED
  BY <1>1, <1>2, <1>3 DEF Txn

(* Positions move to that of a message when it is taken, which is past its *)
(* own transaction only for a commit, or as far as the walsender has come. *)
LEMMA PositionsStep ==
  ASSUME IInv, [Next]_vars, ~FeedbackMayFail
  PROVE  PositionsAreStaged'
<1>0. /\ TypeOK /\ RowsInOrder /\ SenderIsNext /\ SentIsStaged /\ PositionsAreStaged
      /\ \A t \in Txn : Staged(t) => Staged(t)'
  BY StagedStays DEF IInv
<1> USE DEF InHand, source, handler, local, faults
<1>a. \A p : StagedBelow(p) => StagedBelow(p)'
  BY <1>0 DEF StagedBelow
<1>b. UNCHANGED <<confirmed_flush, startpos, recvpos, flushpos, pc, msg>> => PositionsAreStaged'
  <2>1. UNCHANGED msg => (\A p : StagedButHeld(p) => StagedButHeld(p)')
    BY <1>0 DEF StagedButHeld, IsCommit
  <2> QED
    BY <1>0, <1>a, <2>1 DEF PositionsAreStaged, StagedBelow, StagedButHeld
<1>c. FeedbackSent => startpos' = recvpos' /\ (confirmed_flush' = confirmed_flush \/ confirmed_flush' = flushpos)
  BY DEF FeedbackSent, TakeFeedback
<1>1. CASE Connect
  BY <1>0, <1>a, <1>1 DEF Connect, PositionsAreStaged, StagedBelow
<1>2. CASE ReceiveMessage
  <2>1. /\ pc' \in {"stage", "feedback"} /\ msg' = <<sendTxn, sendRow>>
        /\ recvpos' = Pos[sendTxn][sendRow]
        /\ UNCHANGED <<confirmed_flush, startpos, flushpos>>
    BY <1>2 DEF ReceiveMessage
  <2>2. /\ StagedBelow(confirmed_flush)' /\ StagedBelow(flushpos)' /\ StagedButHeld(startpos)'
    BY <1>0, <1>2, <1>a, <2>1 DEF ReceiveMessage, PositionsAreStaged, StagedBelow, StagedButHeld
  <2> QED
    BY <2>1, <2>2 DEF PositionsAreStaged
<1>3. CASE FeedbackAfterMessage
  <2>1. /\ pc = "feedback" /\ pc' = "stage" /\ startpos' = recvpos
        /\ (confirmed_flush' = confirmed_flush \/ confirmed_flush' = flushpos)
        /\ UNCHANGED <<recvpos, flushpos, msg, sync_sqls>>
    BY <1>3, <1>c DEF FeedbackAfterMessage, FeedbackFailed
  <2>2. StagedBelow(confirmed_flush) /\ StagedBelow(flushpos) /\ recvpos = Pos[msg[1]][msg[2]]
    BY <1>0, <2>1 DEF PositionsAreStaged
  <2>3. StagedButHeld(recvpos)
    BY <1>0, <2>1, <2>2, HeldPosition
  <2> QED
    BY <1>0, <2>1, <2>2, <2>3 DEF PositionsAreStaged, StagedBelow, StagedButHeld, IsCommit, Staged
<1>4. CASE Keepalive
  <2>1. /\ pc = "recv" /\ pc' = "recv"
        /\ \E walEnd \in SentPtr : recvpos' = PosMax(walEnd, recvpos)
        /\ startpos' \in {startpos, recvpos'}
        /\ confirmed_flush' \in {confirmed_flush, flushpos}
        /\ flushpos' = flushpos /\ sync_sqls' = sync_sqls
    BY <1>4, <1>c DEF Keepalive, FeedbackFailed
  <2>2. \A walEnd \in SentPtr : StagedBelow(walEnd)
    BY <1>0, <2>1, SentPtrIsStaged
  <2>3. StagedBelow(recvpos) /\ StagedBelow(startpos) /\ StagedBelow(flushpos)
        /\ StagedBelow(confirmed_flush)
    BY <1>0, <2>1 DEF PositionsAreStaged
  <2>4. ASSUME NEW u \in Txn, CommitLsn[u] < recvpos' PROVE Staged(u)
    BY <2>1, <2>2, <2>3, <2>4 DEF StagedBelow, PosMax
  <2> QED
    BY <1>0, <2>1, <2>3, <2>4 DEF PositionsAreStaged, StagedBelow
<1>5. CASE IdleFeedback
  <2>1. /\ pc = "recv" /\ pc' = "recv" /\ startpos' = recvpos
        /\ (confirmed_flush' = confirmed_flush \/ confirmed_flush' = flushpos)
        /\ UNCHANGED <<recvpos, flushpos, sync_sqls>>
    BY <1>5, <1>c DEF IdleFeedback, FeedbackFailed
  <2> QED
    BY <1>0, <2>1 DEF PositionsAreStaged, StagedBelow
<1>6. CASE StageRow
  <2>1. /\ pc = "stage" /\ pc' = (IF IsCommit(msg) THEN "end" ELSE "recv")
        /\ flushpos' = recvpos
        /\ UNCHANGED <<confirmed_flush, startpos, recvpos, msg, sync_sqls>>
    BY <1>6 DEF StageRow
  <2>2. /\ StagedBelow(confirmed_flush)
        /\ StagedButHeld(startpos) /\ recvpos = Pos[msg[1]][msg[2]]
    BY <1>0, <2>1 DEF PositionsAreStaged
  <2>3. StagedButHeld(recvpos)
    BY <1>0, <2>1, <2>2, HeldPosition
  <2>4. CASE IsCommit(msg)
    BY <1>0, <2>1, <2>2, <2>3, <2>4 DEF PositionsAreStaged, StagedBelow, StagedButHeld, IsCommit
  <2>5. CASE ~IsCommit(msg)
    BY <1>0, <2>1, <2>2, <2>3, <2>5 DEF PositionsAreStaged, StagedBelow, StagedButHeld
  <2> QED
    BY <2>4, <2>5
<1>7. CASE EndLocal
  <2>1. /\ pc = "end" /\ pc' = "recv"
        /\ UNCHANGED <<confirmed_flush, startpos, recvpos, flushpos>>
    BY <1>7 DEF EndLocal
  <2>2. /\ StagedBelow(confirmed_flush) /\ StagedButHeld(startpos)
        /\ recvpos = Pos[msg[1]][msg[2]] /\ flushpos = recvpos
    BY <1>0, <2>1 DEF PositionsAreStaged
  <2>3. StagedButHeld(recvpos)
    BY <1>0, <2>1, <2>2, HeldPosition
  <2>4. \A t \in Txn : t = msg[1] => Staged(t)'
    BY <1>7, EndMakesDurable DEF EndLocal
  <2> QED
    BY <1>0, <2>1, <2>2, <2>3, <2>4 DEF PositionsAreStaged, StagedBelow, StagedButHeld
<1>8. CASE StreamBreaks
  BY <1>0, <1>8 DEF StreamBreaks, PositionsAreStaged, StagedBelow
<1>12. CASE ConnectFails
  BY <1>b, <1>12 DEF ConnectFails
<1>9. CASE Restart
  <2>1. \A t \in Txn : ~(CommitLsn[t] < 0)
    BY WalIs
  <2> QED
    BY <1>0, <1>9, <2>1 DEF Restart, PositionsAreStaged, StagedBelow
<1>10. CASE SourceCommit \/ Abort \/ UNCHANGED vars
  BY <1>b, <1>10 DEF SourceCommit, Abort, vars
<1>11. CASE StageFails \/ EndFails \/ StopOnAbort
  BY <1>0, <1>11 DEF StageFails, EndFails, StopOnAbort, PositionsAreStaged, StagedBelow
<1> QED
  BY <1>1, <1>2, <1>3, <1>4, <1>5, <1>6, <1>7, <1>8, <1>9, <1>10, <1>11, <1>12
     DEF Next, Step, Idle

(* The rows of sync_sqls after an END are those from before and those of   *)
(* the local transaction; the rows of that are those it had and a new one. *)
LEMMA RowsAfterEnd ==
  ASSUME TypeOK, sync_sqls' = sync_sqls \o ltx
  PROVE  \A j \in DOMAIN sync_sqls' :
           \/ j \in DOMAIN sync_sqls /\ sync_sqls'[j] = sync_sqls[j]
           \/ \E m \in DOMAIN ltx : sync_sqls'[j] = ltx[m]
<1>1. sync_sqls \in Seq(Nat \X Nat) /\ ltx \in Seq(Nat \X Nat)
  BY DEF TypeOK
<1>2. /\ Len(sync_sqls) \in Nat /\ Len(ltx) \in Nat
      /\ DOMAIN sync_sqls = 1 .. Len(sync_sqls) /\ DOMAIN ltx = 1 .. Len(ltx)
  BY <1>1, LenProperties
<1>3. /\ sync_sqls' \in Seq(Nat \X Nat) /\ Len(sync_sqls') = Len(sync_sqls) + Len(ltx)
      /\ \A j \in 1 .. Len(sync_sqls) + Len(ltx) :
           sync_sqls'[j] = IF j <= Len(sync_sqls) THEN sync_sqls[j] ELSE ltx[j - Len(sync_sqls)]
  BY <1>1, ConcatProperties
<1>4. DOMAIN sync_sqls' = 1 .. Len(sync_sqls) + Len(ltx)
  BY <1>3, LenProperties
<1>5. ASSUME NEW j \in 1 .. Len(sync_sqls) + Len(ltx)
      PROVE  \/ j \in 1 .. Len(sync_sqls) /\ sync_sqls'[j] = sync_sqls[j]
             \/ \E m \in 1 .. Len(ltx) : sync_sqls'[j] = ltx[m]
  <2>1. CASE j <= Len(sync_sqls)
    BY <1>2, <1>3, <2>1
  <2>2. CASE ~(j <= Len(sync_sqls))
    <3>1. j - Len(sync_sqls) \in 1 .. Len(ltx)
      BY <1>2, <2>2
    <3>2. sync_sqls'[j] = ltx[j - Len(sync_sqls)]
      BY <1>3, <2>2
    <3> QED
      BY <3>1, <3>2
  <2> QED
    BY <2>1, <2>2
<1> QED
  BY <1>2, <1>4, <1>5

(* Staging adds the message in hand and leaves the rest.                   *)
LEMMA RowsAfterStage ==
  ASSUME TypeOK, ltx' = Append(ltx, msg)
  PROVE  /\ Len(ltx') = Len(ltx) + 1 /\ Len(ltx) \in Nat
         /\ \A j \in DOMAIN ltx' :
              \/ j \in DOMAIN ltx /\ j # Len(ltx') /\ ltx'[j] = ltx[j]
              \/ j = Len(ltx') /\ ltx'[j] = msg
<1>1. ltx \in Seq(Nat \X Nat) /\ msg \in Nat \X Nat
  BY DEF TypeOK
<1>2. Len(ltx) \in Nat /\ DOMAIN ltx = 1 .. Len(ltx)
  BY <1>1, LenProperties
<1>3. /\ ltx' \in Seq(Nat \X Nat) /\ Len(ltx') = Len(ltx) + 1 /\ ltx'[Len(ltx) + 1] = msg
      /\ \A j \in 1 .. Len(ltx) : ltx'[j] = ltx[j]
  BY <1>1, AppendProperties
<1>4. DOMAIN ltx' = 1 .. Len(ltx) + 1
  BY <1>3, LenProperties
<1>5. \A j \in 1 .. Len(ltx) + 1 : (j \in 1 .. Len(ltx) /\ j # Len(ltx) + 1) \/ j = Len(ltx) + 1
  BY <1>2
<1> QED
  BY <1>2, <1>3, <1>4, <1>5

(* Only what the source committed is sent, staged or durable.              *)
LEMMA RowsAreCommittedStep ==
  ASSUME TypeOK, RowsAreCommitted, [Next]_vars
  PROVE  RowsAreCommitted'
<1>0. TypeOK /\ RowsAreCommitted /\ committed \in Nat
  BY DEF TypeOK
<1> USE DEF InHand, source, handler, local, faults
<1>1. DOMAIN <<>> = {}
  OBVIOUS
<1>2. UNCHANGED committed \/ committed' = committed + 1
  BY DEF Next, Step, Idle, SourceCommit, Connect, ReceiveMessage, FeedbackAfterMessage, Keepalive,
     IdleFeedback, StreamBreaks, ConnectFails, StageRow, EndLocal, StageFails, EndFails, StopOnAbort,
     Abort, Restart, vars
<1>3. \A n \in Nat : n <= committed => n <= committed'
  BY <1>0, <1>2
<1>4. \A r : IsRow(r) => r[1] \in Nat
  BY WalIs DEF IsRow
<1>5. ASSUME ltx' = ltx \/ ltx' = <<>>, sync_sqls' = sync_sqls, pc' \in {"feedback", "stage", "end"} => (pc \in {"feedback", "stage", "end"} /\ msg' = msg)
      PROVE  RowsAreCommitted'
  <2>1. pc' \in {"feedback", "stage", "end"} => msg'[1] <= committed'
    BY <1>0, <1>3, <1>5, Facts DEF RowsAreCommitted
  <2>2. \A i \in DOMAIN ltx' : ltx' = ltx
    BY <1>1, <1>5
  <2> QED
    BY <1>0, <1>3, <1>4, <1>5, <2>1, <2>2 DEF RowsAreCommitted
<1>6. CASE ReceiveMessage
  BY <1>0, <1>6, WalIs DEF ReceiveMessage, RowsAreCommitted, TypeOK, Txn
<1>7. CASE StageRow
  <2>1. IsRow(msg) /\ msg[1] <= committed /\ ltx' = Append(ltx, msg)
        /\ UNCHANGED <<committed, sync_sqls, msg>>
    BY <1>0, <1>7 DEF StageRow, RowsAreCommitted, TypeOK
  <2>2. \A i \in DOMAIN ltx' : IsRow(ltx'[i]) /\ ltx'[i][1] <= committed
    BY <1>0, <2>1, RowsAfterStage DEF RowsAreCommitted
  <2> QED
    BY <1>0, <2>1, <2>2 DEF RowsAreCommitted
<1>8. CASE EndLocal \/ EndFails
  <2>1. \/ UNCHANGED <<ltx, sync_sqls, committed>> /\ pc' = "stopped"
        \/ /\ sync_sqls' = sync_sqls \o ltx /\ ltx' = <<>> /\ UNCHANGED committed
           /\ pc' \in {"recv", "stopped"}
    BY <1>8 DEF EndLocal, EndFails
  <2>2. CASE UNCHANGED <<ltx, sync_sqls, committed>> /\ pc' = "stopped"
    BY <1>0, <2>2 DEF RowsAreCommitted
  <2>3. CASE /\ sync_sqls' = sync_sqls \o ltx /\ ltx' = <<>> /\ UNCHANGED committed
             /\ pc' \in {"recv", "stopped"}
    <3>1. \A i \in DOMAIN sync_sqls' : IsRow(sync_sqls'[i]) /\ sync_sqls'[i][1] <= committed
      BY <1>0, <2>3, RowsAfterEnd DEF RowsAreCommitted
    <3> QED
      BY <1>1, <2>3, <3>1 DEF RowsAreCommitted
  <2> QED
    BY <2>1, <2>2, <2>3
<1> QED
  BY <1>5, <1>6, <1>7, <1>8
     DEF Next, Step, Idle, SourceCommit, Connect, FeedbackAfterMessage, Keepalive,
     IdleFeedback, StreamBreaks, ConnectFails, StageFails, StopOnAbort, Abort, Restart, vars

(* A durable transaction has its commit row in sync_sqls.                  *)
LEMMA StagedHasCommit ==
  ASSUME TypeOK, NEW t \in Txn, Staged(t)
  PROVE  \E i \in DOMAIN sync_sqls : sync_sqls[i] = <<t, NRow(t)>>
<1>1. PICK i \in 0 .. Len(sync_sqls) - NRow(t) :
        \A k \in 1 .. NRow(t) : sync_sqls[i + k] = <<t, k>>
  BY DEF Staged
<1>2. /\ Len(sync_sqls) \in Nat /\ DOMAIN sync_sqls = 1 .. Len(sync_sqls)
      /\ NRow(t) \in Nat /\ NRow(t) >= 2
  BY LenProperties, WalIs DEF TypeOK
<1>3. NRow(t) \in 1 .. NRow(t) /\ i + NRow(t) \in 1 .. Len(sync_sqls)
  BY <1>2
<1> QED
  BY <1>1, <1>2, <1>3

(* An END makes the transaction durable whose commit is in hand, and no    *)
(* other; nothing else does.                                               *)
LEMMA WhatEndStages ==
  ASSUME IInv, [Next]_vars
  PROVE  \/ \A t \in Txn : Staged(t)' <=> Staged(t)
         \/ /\ pc = "end" /\ msg[1] \in Txn
            /\ \A t \in Txn : Staged(t)' <=> Staged(t) \/ t = msg[1]
<1>0. TypeOK /\ TypeOK' /\ CommitsAreLast /\ RowsInOrder
  BY TypingStep DEF IInv
<1>1. UNCHANGED sync_sqls \/ (sync_sqls' = sync_sqls \o ltx /\ pc = "end")
  BY DEF Next, Step, Idle, SourceCommit, Connect, ReceiveMessage, FeedbackAfterMessage, Keepalive,
     IdleFeedback, StreamBreaks, ConnectFails, StageRow, EndLocal, StageFails, EndFails, StopOnAbort,
     Abort, Restart, vars, local
<1>2. CASE UNCHANGED sync_sqls
  BY <1>2 DEF Staged
<1>3. CASE sync_sqls' = sync_sqls \o ltx /\ pc = "end"
  <2>1. \A t \in Txn : Staged(t) => Staged(t)'
    BY StagedStays DEF IInv
  <2>2. msg[1] \in Txn /\ \A t \in Txn : t = msg[1] => Staged(t)'
    BY <1>3, EndMakesDurable
  <2>3. ASSUME NEW t \in Txn, Staged(t)' PROVE Staged(t) \/ t = msg[1]
    <3>1. \E j \in DOMAIN sync_sqls' : sync_sqls'[j] = <<t, NRow(t)>>
      <4>1. PICK i \in 0 .. Len(sync_sqls') - NRow(t) :
              \A k \in 1 .. NRow(t) : sync_sqls'[i + k] = <<t, k>>
        BY <2>3 DEF Staged
      <4>2. /\ Len(sync_sqls') \in Nat /\ DOMAIN sync_sqls' = 1 .. Len(sync_sqls')
            /\ NRow(t) \in Nat /\ NRow(t) >= 2
        BY <1>0, LenProperties, WalIs DEF TypeOK
      <4>3. NRow(t) \in 1 .. NRow(t) /\ i + NRow(t) \in 1 .. Len(sync_sqls')
        BY <4>2
      <4> QED
        BY <4>1, <4>2, <4>3
    <3>2. PICK j \in DOMAIN sync_sqls' : sync_sqls'[j] = <<t, NRow(t)>>
      BY <3>1
    <3>3. IsCommit(<<t, NRow(t)>>)
      BY DEF IsCommit
    <3>4. CASE j \in DOMAIN sync_sqls /\ sync_sqls'[j] = sync_sqls[j]
      <4>1. sync_sqls[j] = <<t, NRow(t)>>
        BY <3>2, <3>4
      <4>2. IsCommit(sync_sqls[j]) => Staged(sync_sqls[j][1])
        BY <1>0, <3>4 DEF CommitsAreLast
      <4>3. sync_sqls[j][1] = t
        BY <4>1
      <4> QED
        BY <3>3, <4>1, <4>2, <4>3
    <3>5. CASE \E m \in DOMAIN ltx : sync_sqls'[j] = ltx[m]
      <4>1. PICK m \in DOMAIN ltx : ltx[m] = <<t, NRow(t)>>
        BY <3>2, <3>5
      <4>2. IsCommit(ltx[m])
        BY <3>3, <4>1
      <4>3. ltx[m] = msg
        BY <1>0, <1>3, <4>2 DEF CommitsAreLast
      <4> QED
        BY <4>1, <4>3
    <3> QED
      BY <1>0, <1>3, <3>2, <3>4, <3>5, RowsAfterEnd
  <2> QED
    BY <1>3, <2>1, <2>2, <2>3
<1> QED
  BY <1>1, <1>2, <1>3

(* A commit row ends its local transaction, which then is committed or     *)
(* given up as a whole.                                                    *)
LEMMA CommitsAreLastStep ==
  ASSUME IInv, [Next]_vars
  PROVE  CommitsAreLast'
<1>0. /\ TypeOK /\ CommitsAreLast
      /\ \A t \in Txn : Staged(t) => Staged(t)'
      /\ \A i \in DOMAIN sync_sqls : IsRow(sync_sqls[i])
  BY StagedStays DEF IInv, RowsAreCommitted
<1>r. \A r : IsRow(r) => r[1] \in Txn
  BY DEF IsRow
<1> USE DEF source, handler, local, faults
<1>1. DOMAIN <<>> = {}
  OBVIOUS
<1>2. UNCHANGED sync_sqls =>
        \A i \in DOMAIN sync_sqls' : IsCommit(sync_sqls'[i]) =>
          \A t \in Txn : t = sync_sqls'[i][1] => Staged(t)'
  BY <1>0, <1>r DEF CommitsAreLast
<1>3. (\A i \in DOMAIN sync_sqls' : IsCommit(sync_sqls'[i]) =>
         \A t \in Txn : t = sync_sqls'[i][1] => Staged(t)')
        /\ (\A i \in DOMAIN sync_sqls' : IsRow(sync_sqls'[i]))
        => (\A i \in DOMAIN sync_sqls : IsCommit(sync_sqls[i]) => Staged(sync_sqls[i][1]))'
  BY <1>r DEF Staged
<1>4. RowsAreCommitted'
  BY RowsAreCommittedStep DEF IInv
<1>5. UNCHANGED sync_sqls =>
        (\A i \in DOMAIN sync_sqls : IsCommit(sync_sqls[i]) => Staged(sync_sqls[i][1]))'
  BY <1>2, <1>3, <1>4 DEF RowsAreCommitted
<1>6. ASSUME UNCHANGED sync_sqls,
             \/ ltx' = <<>> /\ pc' # "end"
             \/ ltx' = ltx /\ pc \notin {"end", "stopped"} /\ pc' # "end"
             \/ UNCHANGED <<ltx, msg>> /\ pc' = pc
             \/ ltx' = ltx /\ pc' = "stopped"
      PROVE  CommitsAreLast'
  <2>1. \A i \in DOMAIN ltx' : ltx' = ltx
    BY <1>1, <1>6
  <2> QED
    BY <1>0, <1>5, <1>6, <2>1 DEF CommitsAreLast
<1>7. CASE StageRow
  <2>1. /\ ltx' = Append(ltx, msg) /\ pc = "stage" /\ msg' = msg /\ sync_sqls' = sync_sqls
        /\ pc' = IF IsCommit(msg) THEN "end" ELSE "recv"
    BY <1>7 DEF StageRow
  <2>2. /\ \A i \in DOMAIN ltx : ~IsCommit(ltx[i])
        /\ \A j \in DOMAIN ltx' : \/ j \in DOMAIN ltx /\ j # Len(ltx') /\ ltx'[j] = ltx[j]
                                  \/ j = Len(ltx') /\ ltx'[j] = msg
    BY <1>0, <2>1, RowsAfterStage DEF CommitsAreLast
  <2> QED
    BY <1>5, <2>1, <2>2 DEF CommitsAreLast
<1>8. CASE EndLocal \/ EndFails
  <2>1. \/ UNCHANGED local /\ pc' = "stopped"
        \/ /\ sync_sqls' = sync_sqls \o ltx /\ ltx' = <<>>
           /\ pc = "end" /\ pc' \in {"recv", "stopped"}
    BY <1>8 DEF EndLocal, EndFails
  <2>2. CASE UNCHANGED local /\ pc' = "stopped"
    BY <1>6, <2>2
  <2>3. CASE /\ sync_sqls' = sync_sqls \o ltx /\ ltx' = <<>>
             /\ pc = "end" /\ pc' \in {"recv", "stopped"}
    <3>1. \A t \in Txn : t = msg[1] => Staged(t)'
      BY <2>3, EndMakesDurable
    <3>2. \A i \in DOMAIN sync_sqls' : IsCommit(sync_sqls'[i]) =>
            \A t \in Txn : t = sync_sqls'[i][1] => Staged(t)'
      BY <1>0, <1>r, <2>3, <3>1, RowsAfterEnd DEF CommitsAreLast
    <3> QED
      BY <1>1, <1>3, <1>4, <2>3, <3>2 DEF CommitsAreLast, RowsAreCommitted
  <2> QED
    BY <2>1, <2>2, <2>3
<1> QED
  BY <1>6, <1>7, <1>8
     DEF Next, Step, Idle, SourceCommit, Connect, ReceiveMessage, FeedbackAfterMessage, Keepalive,
     IdleFeedback, StreamBreaks, ConnectFails, StageFails, StopOnAbort, Abort, Restart, vars,
     FeedbackFailed

(* Transactions become durable in the order of their commits.              *)
LEMMA StagedIsPrefixStep ==
  ASSUME IInv, [Next]_vars
  PROVE  StagedIsPrefix'
<1>1. PICK n \in 0 .. NTxn : \A t \in Txn : Staged(t) <=> t <= n
  BY DEF IInv, StagedIsPrefix
<1>2. CASE \A t \in Txn : Staged(t)' <=> Staged(t)
  BY <1>1, <1>2 DEF StagedIsPrefix
<1>3. CASE /\ pc = "end" /\ msg[1] \in Txn
           /\ \A t \in Txn : Staged(t)' <=> Staged(t) \/ t = msg[1]
  <2>1. \A u \in Txn : u < msg[1] => Staged(u)
    BY <1>3 DEF IInv, SentIsStaged, InHand
  <2>2. CASE msg[1] <= n
    BY <1>1, <1>3, <2>2 DEF StagedIsPrefix
  <2>3. CASE ~(msg[1] <= n)
    <3>1. \A t \in Txn : Staged(t)' <=> t <= msg[1]
      <4>1. ASSUME NEW t \in Txn PROVE (t <= n \/ t = msg[1]) <=> t <= msg[1]
        <5>1. t \in Nat /\ n \in Nat /\ msg[1] \in Nat /\ n < msg[1]
          BY <1>3, <2>3 DEF Txn
        <5>2. t < msg[1] => t <= n
          BY <1>1, <2>1
        <5> QED
          BY <5>1, <5>2
      <4> QED
        BY <1>1, <1>3, <4>1
    <3>2. msg[1] \in 0 .. NTxn
      BY <1>3 DEF Txn
    <3> QED
      BY <3>1, <3>2 DEF StagedIsPrefix
  <2> QED
    BY <2>2, <2>3
<1> QED
  BY <1>2, <1>3, WhatEndStages

-----------------------------------------------------------------------------
(* At first nothing is sent, staged or confirmed.                          *)
LEMMA TypedInitially ==
  Init => TypeOK
<1> SUFFICES ASSUME Init PROVE TypeOK
  OBVIOUS
<1>1. sendTxn \in 1 .. NTxn + 1 /\ (sendTxn \in Txn => sendRow <= NRow(sendTxn))
  BY WalIs DEF Init
<1>2. ltx \in Seq(Nat \X Nat) /\ sync_sqls \in Seq(Nat \X Nat)
  BY EmptySeq DEF Init
<1>3. conn \in BOOLEAN /\ time_to_abort \in BOOLEAN /\ pc = "connect"
  BY DEF Init
<1>4. committed \in 0 .. NTxn /\ msg \in Nat \X Nat
  BY DEF Init
<1> QED
  BY <1>1, <1>2, <1>3, <1>4 DEF Init, TypeOK

(* Nothing is staged, nothing is promised.                                 *)
LEMMA Initially ==
  Init => IInv
<1> SUFFICES ASSUME Init PROVE IInv
  OBVIOUS
<1>1. TypeOK
  BY TypedInitially
<1>2. RowsInOrder /\ SenderIsNext /\ SentIsStaged
  BY DEF Init, RowsInOrder, SenderIsNext, SentIsStaged, InHand
<1>3. PositionsAreStaged
  <2>1. \A t \in Txn : ~(CommitLsn[t] < 0)
    BY WalIs
  <2> QED
    BY <2>1 DEF Init, PositionsAreStaged, StagedBelow, InHand
<1>4. RowsAreCommitted /\ CommitsAreLast
  BY DEF Init, RowsAreCommitted, CommitsAreLast, InHand
<1>5. StagedIsPrefix
  <2>1. \A t \in Txn : ~Staged(t)
    <3>1. DOMAIN sync_sqls = {}
      BY DEF Init
    <3> QED
      BY <1>1, <3>1, StagedHasCommit
  <2>2. 0 \in 0 .. NTxn /\ \A t \in Txn : ~(t <= 0)
    BY DEF Txn
  <2> QED
    BY <2>1, <2>2 DEF StagedIsPrefix
<1> QED
  BY <1>1, <1>2, <1>3, <1>4, <1>5 DEF IInv

(* Every variable of the walsender, of the handler and of the thread keeps *)
(* its type, and the message in hand is one that the source sent.          *)
THEOREM Typing ==
  Safety => []TypeOK
<1>1. TypeOK /\ [Next]_vars => TypeOK'
  BY TypingStep
<1> QED
  BY TypedInitially, <1>1, PTL DEF Safety

(* The invariant that the theorems below follow from: it needs status      *)
(* packets that are taken, since one that is not takes the message in hand *)
(* with it.                                                                *)
THEOREM Inductive ==
  ASSUME ~FeedbackMayFail
  PROVE  Safety => []IInv
<1>1. Init => IInv
  BY Initially
<1>2. IInv /\ [Next]_vars => IInv'
  <2> SUFFICES ASSUME IInv, [Next]_vars PROVE IInv'
    OBVIOUS
  <2>1. TypeOK'
    BY TypingStep DEF IInv
  <2>2. RowsInOrder' /\ SenderIsNext'
    BY RowsInOrderStep DEF IInv
  <2>3. SentIsStaged'
    BY SentIsStagedStep
  <2>4. PositionsAreStaged'
    BY PositionsStep
  <2>5. RowsAreCommitted' /\ CommitsAreLast' /\ StagedIsPrefix'
    BY RowsAreCommittedStep, CommitsAreLastStep, StagedIsPrefixStep DEF IInv
  <2> QED
    BY <2>1, <2>2, <2>3, <2>4, <2>5 DEF IInv
<1> QED
  BY <1>1, <1>2, PTL DEF Safety

(* The slot never forgets a transaction that is not durable in sync_sqls,  *)
(* whichever of the stream, the process and the local database fails, and  *)
(* wherever.                                                               *)
THEOREM NothingForgotten ==
  ASSUME ~FeedbackMayFail
  PROVE  Safety => []ConfirmedIsStaged
<1>1. IInv => ConfirmedIsStaged
  BY DEF IInv, PositionsAreStaged, ConfirmedIsStaged
<1> QED
  BY <1>1, Inductive, PTL

(* When the thread reconnects, it asks for everything that is not durable. *)
THEOREM NothingSkipped ==
  ASSUME ~FeedbackMayFail
  PROVE  Safety => []ResumeIsStaged
<1>1. IInv => ResumeIsStaged
  BY DEF IInv, PositionsAreStaged, ResumeIsStaged
<1> QED
  BY <1>1, Inductive, PTL

-----------------------------------------------------------------------------
(* The two counts of the abstract log are what they are meant to be.       *)
LEMMA StagedCount ==
  ASSUME StagedIsPrefix
  PROVE  stagedTxn \in 0 .. NTxn /\ \A t \in Txn : Staged(t) <=> t <= stagedTxn
BY DEF StagedIsPrefix, stagedTxn

(* What is confirmed is a prefix of the commit order.                      *)
LEMMA AckedCount ==
  ASSUME TypeOK
  PROVE  ackedTxn \in 0 .. NTxn /\ \A t \in Txn : CommitLsn[t] < confirmed_flush <=> t <= ackedTxn
<1>1. confirmed_flush \in Int
  BY DEF TypeOK
<1>2. \E n \in 0 .. NTxn : \A t \in Txn : CommitLsn[t] < confirmed_flush <=> t <= n
  BY <1>1, BelowIsPrefix
<1> QED
  BY <1>2 DEF ackedTxn

(* A count is given by what it counts.                                     *)
LEMMA SameCount ==
  ASSUME NEW m \in 0 .. NTxn, NEW n \in 0 .. NTxn, \A t \in Txn : t <= m <=> t <= n
  PROVE  m = n
<1>1. (m > 0 => m \in Txn) /\ (n > 0 => n \in Txn)
  BY DEF Txn
<1> QED
  BY <1>1

(* A step of Receive is a step of the log or none.                         *)
LEMMA LogStep ==
  ASSUME IInv, IInv', [Next]_vars
  PROVE  [Log!Next]_(Log!vars)
<1> USE DEF source, handler, local, faults
<1>0. /\ stagedTxn \in 0 .. NTxn /\ \A t \in Txn : Staged(t) <=> t <= stagedTxn
      /\ stagedTxn' \in 0 .. NTxn /\ \A t \in Txn : Staged(t)' <=> t <= stagedTxn'
      /\ committed \in 0 .. NTxn
  <2>1. StagedIsPrefix' => stagedTxn' \in 0 .. NTxn /\ \A t \in Txn : Staged(t)' <=> t <= stagedTxn'
    BY DEF StagedIsPrefix, stagedTxn
  <2> QED
    BY <2>1, StagedCount DEF IInv, TypeOK
<1>1. (\A t \in Txn : Staged(t)' <=> Staged(t)) => stagedTxn' = stagedTxn
  BY <1>0, SameCount
<1>2. UNCHANGED confirmed_flush => ackedTxn' = ackedTxn
  BY DEF ackedTxn
<1>3. CASE SourceCommit
  <2>1. committed < NTxn /\ committed' = committed + 1 /\ UNCHANGED <<sync_sqls, confirmed_flush>>
    BY <1>3 DEF SourceCommit
  <2>2. \A t \in Txn : Staged(t)' <=> Staged(t)
    BY <2>1 DEF Staged
  <2> QED
    BY <1>1, <1>2, <2>1, <2>2 DEF Log!Next, Log!Commit
<1>4. CASE ~SourceCommit /\ UNCHANGED sync_sqls
  <2>1. stagedTxn' = stagedTxn
    BY <1>1, <1>4 DEF Staged
  <2>2. UNCHANGED committed
    BY <1>4 DEF Next, Step, Idle, Connect, ReceiveMessage, FeedbackAfterMessage, Keepalive,
       IdleFeedback, StreamBreaks, ConnectFails, StageRow, EndLocal, StageFails, EndFails, StopOnAbort,
       Abort, Restart, vars
  <2>3. ackedTxn' \in 0 .. NTxn /\ \A t \in Txn : CommitLsn[t] < confirmed_flush' <=> t <= ackedTxn'
    <3>1. confirmed_flush' \in Int
      BY DEF IInv, TypeOK
    <3>2. \E n \in 0 .. NTxn : \A t \in Txn : CommitLsn[t] < confirmed_flush' <=> t <= n
      BY <3>1, BelowIsPrefix
    <3> QED
      BY <3>2 DEF ackedTxn
  <2>4. \A t \in Txn : t <= ackedTxn' => t <= stagedTxn
    BY <1>0, <2>1, <2>3 DEF IInv, PositionsAreStaged, StagedBelow
  <2>5. ackedTxn' \in 0 .. stagedTxn
    <3>1. ackedTxn' > 0 => ackedTxn' \in Txn /\ ackedTxn' <= ackedTxn'
      BY <2>3 DEF Txn
    <3> QED
      BY <1>0, <2>3, <2>4, <3>1
  <2> QED
    BY <2>1, <2>2, <2>5 DEF Log!Next, Log!Acknowledge
<1>5. CASE ~SourceCommit /\ ~UNCHANGED sync_sqls
  <2>1. pc = "end" /\ UNCHANGED <<committed, confirmed_flush>>
    BY <1>5 DEF Next, Step, Idle, Connect, ReceiveMessage, FeedbackAfterMessage, Keepalive,
       IdleFeedback, StreamBreaks, ConnectFails, StageRow, EndLocal, StageFails, EndFails, StopOnAbort,
       Abort, Restart, vars
  <2>2. CASE \A t \in Txn : Staged(t)' <=> Staged(t)
    BY <1>1, <1>2, <2>1, <2>2 DEF Log!vars
  <2>3. CASE /\ msg[1] \in Txn
             /\ \A t \in Txn : Staged(t)' <=> Staged(t) \/ t = msg[1]
    <3>1. \A u \in Txn : u < msg[1] => Staged(u)
      BY <2>1 DEF IInv, SentIsStaged, InHand
    <3>2. msg[1] <= committed
      BY <2>1 DEF IInv, RowsAreCommitted, InHand
    <3>3. CASE msg[1] <= stagedTxn
      BY <1>0, <1>1, <1>2, <2>1, <2>3, <3>3 DEF Log!vars
    <3>4. CASE ~(msg[1] <= stagedTxn)
      <4>1. msg[1] = stagedTxn + 1
        <5>1. stagedTxn + 1 \in Txn /\ msg[1] \in Nat /\ stagedTxn \in Nat /\ stagedTxn < msg[1]
          <6>1. msg[1] \in Nat /\ msg[1] <= NTxn
            BY <2>3 DEF Txn
          <6>2. stagedTxn \in Nat
            BY <1>0
          <6>3. stagedTxn < msg[1]
            BY <3>4, <6>1, <6>2
          <6>4. stagedTxn + 1 \in 1 .. NTxn
            BY <6>1, <6>2, <6>3, NTxnAssumption
          <6> QED
            BY <6>1, <6>2, <6>3, <6>4 DEF Txn
        <5>2. stagedTxn + 1 < msg[1] => stagedTxn + 1 <= stagedTxn
          BY <1>0, <3>1, <5>1
        <5> QED
          BY <5>1, <5>2
      <4>2. \A t \in Txn : t <= stagedTxn' <=> t <= stagedTxn + 1
        BY <1>0, <2>3, <4>1 DEF Txn
      <4>3. stagedTxn + 1 \in 0 .. NTxn
        BY <2>3, <4>1 DEF Txn
      <4>4. stagedTxn' = stagedTxn + 1
        BY <1>0, <4>2, <4>3, SameCount
      <4>5. stagedTxn < committed
        BY <1>0, <3>2, <4>1
      <4> QED
        BY <1>2, <2>1, <4>4, <4>5 DEF Log!Next, Log!Stage
    <3> QED
      BY <3>3, <3>4
  <2> QED
    BY <2>2, <2>3, WhatEndStages
<1> QED
  BY <1>3, <1>4, <1>5

(* Staging implements the at-least-once log: transactions become durable   *)
(* one by one in commit order, never before they are committed, and the    *)
(* source may forget only those that are durable.                          *)
THEOREM ImplementsLog ==
  ASSUME ~FeedbackMayFail
  PROVE  Safety => LogSpec
<1>1. Init => Log!Init
  <2> SUFFICES ASSUME Init PROVE Log!Init
    OBVIOUS
  <2>1. TypeOK /\ StagedIsPrefix
    BY Initially DEF IInv
  <2>2. \A t \in Txn : ~Staged(t)
    <3>1. DOMAIN sync_sqls = {}
      BY DEF Init
    <3> QED
      BY <2>1, <3>1, StagedHasCommit
  <2>3. \A t \in Txn : ~(CommitLsn[t] < confirmed_flush) /\ ~(t <= 0)
    BY WalIs DEF Init, Txn
  <2>0. 0 \in 0 .. NTxn
    OBVIOUS
  <2>4. stagedTxn = 0
    <3>1. stagedTxn \in 0 .. NTxn /\ \A t \in Txn : t <= stagedTxn <=> t <= 0
      BY <2>1, <2>2, <2>3, StagedCount
    <3> QED
      BY <2>0, <3>1, SameCount
  <2>5. ackedTxn = 0
    <3>1. ackedTxn \in 0 .. NTxn /\ \A t \in Txn : t <= ackedTxn <=> t <= 0
      BY <2>1, <2>3, AckedCount
    <3> QED
      BY <2>0, <3>1, SameCount
  <2> QED
    BY <2>4, <2>5 DEF Init, Log!Init
<1>2. IInv /\ IInv' /\ [Next]_vars => [Log!Next]_(Log!vars)
  BY LogStep
<1> QED
  BY <1>1, <1>2, Inductive, PTL DEF Safety, LogSpec, Log!Spec

-----------------------------------------------------------------------------
(* Part 2: the source, the two threads and the target.                     *)

(* A with the lemmas of Apply_proofs.                                      *)
AP == INSTANCE Apply_proofs WITH
        MaxStmt <- 0, MaxTxn <- 0, ServerMayFail <- FALSE,
        sync_sqls <- Sqls(sync_sqls), pc <- apc, again <- crashes > 0

(* Rows of the log are the same in A and in AP,                            *)
LEMMA SameStatements ==
  /\ A!Statement = AP!Statement
  /\ A!BeginRow = AP!BeginRow /\ A!CommitRow = AP!CommitRow
  /\ AP!Row = AP!Statement \union {AP!BeginRow, AP!CommitRow}
BY DEF A!Statement, AP!Statement, A!BeginRow, AP!BeginRow, A!CommitRow, AP!CommitRow,
       A!Sql, AP!Sql, AP!Row

(* so is what they do to a database,                                       *)
LEMMA SameEffects ==
  /\ \A db, r : A!Executable(db, r) <=> AP!Executable(db, r)
  /\ \A rows : A!Replay(rows) = AP!Replay(rows)
BY DEF A!Executable, AP!Executable, A!Duplicate, AP!Duplicate, A!Present, AP!Present,
       A!Replay, AP!Replay, A!EmptyDb, AP!EmptyDb, A!Effect, AP!Effect

(* and the start                                                           *)
LEMMA SameInit == A!Init => AP!Init
BY DEF A!Init, AP!Init, A!EmptyDb, AP!EmptyDb

(* and the row that was fetched,                                           *)
LEMMA SameFetch == (A!Fetching <=> AP!Fetching) /\ A!fetched = AP!fetched
BY DEF A!Fetching, AP!Fetching, A!fetched, AP!fetched

(* and every step of the thread.                                           *)
LEMMA SameRun == A!Run => AP!Run
BY DEF A!Run, AP!Run, A!Declare, AP!Declare, A!FetchNothing, AP!FetchNothing,
       A!Persist, AP!Persist, A!ExecBegin, AP!ExecBegin, A!ExecStatement, AP!ExecStatement,
       A!SkipDuplicate, AP!SkipDuplicate, A!ExecCommit, AP!ExecCommit,
       A!DuplicateExit, AP!DuplicateExit, A!AbortExit, AP!AbortExit, A!Exit, AP!Exit,
       A!Fetching, AP!Fetching, A!fetched, AP!fetched, A!TypeOf, AP!TypeOf,
       A!Advance, AP!Advance, A!Duplicate, AP!Duplicate, A!Present, AP!Present,
       A!Effect, AP!Effect

(* What the source executes, in those words.                               *)
LEMMA StmtIs ==
  ASSUME NEW t \in Txn
  PROVE  /\ Stmt[t] \in Seq(AP!Row) /\ Len(Stmt[t]) = NRow(t)
         /\ Stmt[t][1] = AP!BeginRow /\ Stmt[t][NRow(t)] = AP!CommitRow
         /\ \A k \in 2 .. NRow(t) - 1 :
              /\ Stmt[t][k] \in AP!Statement
              /\ AP!Executable(AP!Replay(HistoryTo(t - 1) \o SubSeq(Stmt[t], 1, k - 1)),
                               Stmt[t][k])
BY StmtAssumption, SameStatements, SameEffects

-----------------------------------------------------------------------------
(* The history of the source.  g is the history after each of the first n  *)
(* transactions.                                                           *)
Histories(g, n) ==
  /\ g \in [0 .. n -> Seq(AP!Row)]
  /\ g[0] = <<>>
  /\ \A i \in 1 .. n : g[i] = g[i - 1] \o Stmt[i]

(* There are such histories,                                               *)
LEMMA HistoriesExist ==
  ASSUME NEW n \in 0 .. NTxn
  PROVE  \E g : Histories(g, n)
<1> DEFINE S == Seq(AP!Row)
           F == [p \in (1 .. n) \X S |-> p[2] \o Stmt[p[1]]]
<1>1. <<>> \in S /\ n \in Nat /\ \A i \in 1 .. n : i \in Txn
  BY EmptySeq DEF Txn
<1>2. \A i \in 1 .. n : \A s \in S : s \o Stmt[i] \in S
  BY <1>1, StmtIs, ConcatProperties
<1>3. F \in [(1 .. n) \X S -> S]
  BY <1>2
<1>4. \A i \in 1 .. n : \A s \in S : F[<<i, s>>] = s \o Stmt[i]
  OBVIOUS
<1> HIDE DEF F, S
<1>5. PICK g : IsRun(g, <<>>, F, n, S)
  BY <1>1, <1>3, RunExists
<1>6. g \in [0 .. n -> S] /\ g[0] = <<>>
  BY <1>5 DEF IsRun
<1>7. ASSUME NEW i \in 1 .. n PROVE g[i] = g[i - 1] \o Stmt[i]
  <2>1. g[i - 1] \in S
    BY <1>1, <1>6
  <2> QED
    BY <1>4, <1>5, <2>1 DEF IsRun
<1> QED
  BY <1>6, <1>7 DEF Histories, S

(* and only one of each length.                                            *)
LEMMA HistoriesAgree ==
  ASSUME NEW n \in Nat, NEW g, Histories(g, n), NEW h, Histories(h, n)
  PROVE  g = h
<1> DEFINE T == {i \in 0 .. n : g[i] = h[i]}
<1>1. 0 \in T
  BY DEF Histories
<1>2. ASSUME NEW i \in 1 .. n, i - 1 \in T PROVE i \in T
  <2>1. g[i - 1] = h[i - 1] /\ i \in 0 .. n
    BY <1>2
  <2>2. g[i] = h[i]
    BY <2>1 DEF Histories
  <2> QED
    BY <2>1, <2>2
<1> HIDE DEF T
<1>3. \A i \in 0 .. n : i \in T
  BY <1>1, <1>2, UpTo
<1>4. \A i \in 0 .. n : g[i] = h[i]
  BY <1>3 DEF T
<1> QED
  BY <1>4 DEF Histories

(* The same as the function that HistoryTo chooses.                        *)
Recurs(h, n) ==
  h = [t \in 0 .. n |-> IF t = 0 THEN <<>> ELSE h[t - 1] \o Stmt[t]]

(* They satisfy the equation of HistoryTo,                                 *)
LEMMA HistoriesRecur ==
  ASSUME NEW n \in Nat, NEW g, Histories(g, n)
  PROVE  Recurs(g, n)
<1> DEFINE f == [t \in 0 .. n |-> IF t = 0 THEN <<>> ELSE g[t - 1] \o Stmt[t]]
<1>1. ASSUME NEW i \in 0 .. n PROVE f[i] = g[i]
  <2>1. CASE i = 0
    BY <2>1 DEF Histories
  <2>2. CASE i # 0
    <3>1. i \in 1 .. n
      BY <2>2
    <3> QED
      BY <2>2, <3>1 DEF Histories
  <2> QED
    BY <2>1, <2>2
<1>2. f = g
  BY <1>1 DEF Histories
<1> QED
  BY <1>2 DEF Recurs

(* and what satisfies it is one of them;                                   *)
LEMMA RecursHistories ==
  ASSUME NEW n \in Nat, \A i \in 1 .. n : Stmt[i] \in Seq(AP!Row), NEW h, Recurs(h, n)
  PROVE  Histories(h, n)
<1> DEFINE T == {i \in 0 .. n : h[i] \in Seq(AP!Row)}
<1>1. h[0] = <<>>
  BY DEF Recurs
<1>2. ASSUME NEW i \in 1 .. n PROVE h[i] = h[i - 1] \o Stmt[i]
  <2>1. i \in 0 .. n /\ i # 0
    OBVIOUS
  <2> QED
    BY <2>1 DEF Recurs
<1>3. 0 \in T
  <2>1. h[0] \in Seq(AP!Row) /\ 0 \in 0 .. n
    BY <1>1, EmptySeq
  <2> QED
    BY <2>1
<1>4. ASSUME NEW i \in 1 .. n, i - 1 \in T PROVE i \in T
  <2>1. h[i - 1] \in Seq(AP!Row) /\ Stmt[i] \in Seq(AP!Row) /\ i \in 0 .. n
    BY <1>4
  <2>2. h[i - 1] \o Stmt[i] \in Seq(AP!Row)
    BY <2>1, ConcatProperties
  <2> QED
    BY <1>2, <2>1, <2>2
<1> HIDE DEF T
<1>5. \A i \in 0 .. n : i \in T
  BY <1>3, <1>4, UpTo
<1>6. \A i \in 0 .. n : h[i] \in Seq(AP!Row)
  BY <1>5 DEF T
<1>7. h = [i \in 0 .. n |-> h[i]]
  BY DEF Recurs
<1> QED
  BY <1>1, <1>2, <1>6, <1>7 DEF Histories

(* so HistoryTo is the history.                                            *)
LEMMA HistoryToIs ==
  ASSUME NEW n \in 0 .. NTxn, NEW g, Histories(g, n)
  PROVE  HistoryTo(n) = g[n]
<1> DEFINE c == CHOOSE h : Recurs(h, n)
<1>0. n \in Nat /\ \A i \in 1 .. n : i \in Txn
  BY DEF Txn
<1>1. \A i \in 1 .. n : Stmt[i] \in Seq(AP!Row)
  BY <1>0, StmtIs
<1>2. HistoryTo(n) = c[n]
  BY DEF HistoryTo, Recurs
<1>3. Recurs(c, n)
  BY <1>0, HistoriesRecur
<1> HIDE DEF c
<1>4. c = g
  BY <1>0, <1>1, <1>3, RecursHistories, HistoriesAgree
<1> QED
  BY <1>2, <1>4

(* All that is needed of HistoryTo: it goes transaction by transaction.    *)
LEMMA HistoryNext ==
  /\ HistoryTo(0) = <<>>
  /\ \A n \in 0 .. NTxn : HistoryTo(n) \in Seq(AP!Row)
  /\ \A t \in Txn : HistoryTo(t) = HistoryTo(t - 1) \o Stmt[t]
<1>1. 0 \in 0 .. NTxn
  OBVIOUS
<1>2. ASSUME NEW n \in 0 .. NTxn PROVE HistoryTo(n) \in Seq(AP!Row)
  <2>1. PICK g : Histories(g, n)
    BY HistoriesExist
  <2> QED
    <3>1. n \in 0 .. n /\ g[n] = HistoryTo(n)
      BY <2>1, HistoryToIs
    <3> QED
      BY <2>1, <3>1 DEF Histories
<1>3. HistoryTo(0) = <<>>
  <2>1. PICK g : Histories(g, 0)
    BY <1>1, HistoriesExist
  <2> QED
    BY <1>1, <2>1, HistoryToIs DEF Histories
<1>4. ASSUME NEW t \in Txn PROVE HistoryTo(t) = HistoryTo(t - 1) \o Stmt[t]
  <2>1. t \in 0 .. NTxn /\ t - 1 \in 0 .. NTxn /\ t \in Nat
    BY DEF Txn
  <2>2. PICK g : Histories(g, t)
    BY <2>1, HistoriesExist
  <2> DEFINE h == [i \in 0 .. t - 1 |-> g[i]]
  <2>3. h \in [0 .. t - 1 -> Seq(AP!Row)] /\ h[0] = <<>> /\ h[t - 1] = g[t - 1]
    BY <2>1, <2>2 DEF Histories, Txn
  <2>4. ASSUME NEW i \in 1 .. t - 1 PROVE h[i] = h[i - 1] \o Stmt[i]
    <3>1. h[i] = g[i] /\ h[i - 1] = g[i - 1] /\ i \in 1 .. t
      BY <2>1
    <3> QED
      BY <2>2, <3>1 DEF Histories
  <2> HIDE DEF h
  <2>5. Histories(h, t - 1)
    BY <2>3, <2>4 DEF Histories
  <2>6. HistoryTo(t - 1) = g[t - 1] /\ HistoryTo(t) = g[t]
    BY <2>1, <2>2, <2>3, <2>5, HistoryToIs
  <2>7. t \in 1 .. t
    BY DEF Txn
  <2> QED
    BY <2>2, <2>6, <2>7 DEF Histories
<1> QED
  BY <1>2, <1>3, <1>4

-----------------------------------------------------------------------------
(* A prefix of a concatenation that ends in its second part.               *)
LEMMA PrefixEndsIn ==
  ASSUME NEW S, NEW s \in Seq(S), NEW t \in Seq(S), NEW j \in 0 .. Len(t)
  PROVE  SubSeq(s \o t, 1, Len(s) + j) = s \o SubSeq(t, 1, j)
<1> DEFINE m == Len(s)
           n == Len(t)
           a == SubSeq(s \o t, 1, m + j)
           p == SubSeq(t, 1, j)
<1>1. /\ m \in Nat /\ n \in Nat /\ j \in Nat /\ j <= n
      /\ s \o t \in Seq(S) /\ Len(s \o t) = m + n
      /\ \A i \in 1 .. m : (s \o t)[i] = s[i]
      /\ \A i \in 1 .. n : (s \o t)[m + i] = t[i]
  BY LenProperties, ConcatRows
<1>2. /\ p \in Seq(S) /\ Len(p) = j /\ \A i \in 1 .. j : p[i] = t[i]
  <2>1. \A i \in 1 .. j : t[i] \in S
    BY <1>1, ElementOfSeq
  <2>2. /\ p \in Seq(S) /\ Len(p) = (IF 1 <= j THEN j - 1 + 1 ELSE 0)
        /\ \A i \in 1 .. j - 1 + 1 : p[i] = t[1 + i - 1]
    BY <1>1, <2>1, SubSeqProperties
  <2> HIDE DEF p
  <2> QED
    BY <1>1, <2>2
<1>3. /\ a \in Seq(S) /\ Len(a) = m + j
      /\ \A i \in 1 .. m + j : a[i] = (s \o t)[i]
  <2> DEFINE st == s \o t
  <2>1. \A i \in 1 .. m + j : st[i] \in S
    <3>1. \A i \in 1 .. m + j : i \in 1 .. Len(st)
      BY <1>1
    <3> QED
      BY <1>1, <3>1, ElementOfSeq
  <2> DEFINE q == m + j
             b == SubSeq(st, 1, q)
  <2>2. q \in Nat /\ 1 \in Int
    BY <1>1
  <2> HIDE DEF st, q
  <2>3. /\ b \in Seq(S) /\ Len(b) = (IF 1 <= q THEN q - 1 + 1 ELSE 0)
        /\ \A i \in 1 .. q - 1 + 1 : b[i] = st[1 + i - 1]
    BY <2>1, <2>2, SubSeqProperties DEF q
  <2> HIDE DEF b
  <2>4. b \in Seq(S) /\ Len(b) = q /\ \A i \in 1 .. q : b[i] = st[i]
    BY <2>2, <2>3
  <2> QED
    BY <2>4 DEF b, st, q
<1> HIDE DEF a, p
<1>4. /\ s \o p \in Seq(S) /\ Len(s \o p) = m + j
      /\ \A i \in 1 .. m : (s \o p)[i] = s[i]
      /\ \A i \in 1 .. j : (s \o p)[m + i] = p[i]
  <2>0. s \in Seq(S) /\ p \in Seq(S)
    BY <1>2
  <2>1. /\ s \o p \in Seq(S) /\ Len(s \o p) = Len(s) + Len(p)
        /\ \A i \in 1 .. Len(s) : (s \o p)[i] = s[i]
        /\ \A i \in 1 .. Len(p) : (s \o p)[Len(s) + i] = p[i]
    BY <2>0, ConcatRows
  <2> QED
    BY <1>2, <2>1
<1> HIDE DEF m, n
<1>5. ASSUME NEW i \in 1 .. m + j PROVE a[i] = (s \o p)[i]
  <2>1. CASE i \in 1 .. m
    BY <1>1, <1>3, <1>4, <2>1
  <2>2. CASE i \notin 1 .. m
    <3>1. i - m \in 1 .. j /\ i - m \in 1 .. n /\ m + (i - m) = i
      BY <1>1, <2>2
    <3>2. a[i] = t[i - m] /\ (s \o p)[i] = t[i - m]
      BY <1>1, <1>2, <1>3, <1>4, <3>1
    <3> QED
      BY <3>2
  <2> QED
    BY <2>1, <2>2
<1>6. a = s \o p
  BY <1>3, <1>4, <1>5, SeqEqual
<1> QED
  BY <1>6 DEF a, p, m

(* all begins with rows.                                                   *)
Begins(rows, all) ==
  /\ Len(rows) <= Len(all)
  /\ \A i \in 1 .. Len(rows) : all[i] = rows[i]
  /\ \A i \in 0 .. Len(rows) : SubSeq(all, 1, i) = SubSeq(rows, 1, i)

(* What begins a sequence begins every longer one.                         *)
LEMMA BeginsConcat ==
  ASSUME NEW S, NEW s \in Seq(S), NEW t \in Seq(S), NEW r \in Seq(S), Begins(r, s)
  PROVE  Begins(r, s \o t)
<1>1. /\ Len(r) \in Nat /\ Len(s) \in Nat /\ Len(t) \in Nat /\ Len(r) <= Len(s)
      /\ Len(s \o t) = Len(s) + Len(t)
      /\ \A i \in 1 .. Len(s) : (s \o t)[i] = s[i]
  BY LenProperties, ConcatRows DEF Begins
<1>2. ASSUME NEW i \in 0 .. Len(r) PROVE SubSeq(s \o t, 1, i) = SubSeq(r, 1, i)
  <2>1. SubSeq(s, 1, i) = SubSeq(r, 1, i)
    BY DEF Begins
  <2>2. CASE i = 0
    <3>1. SubSeq(s \o t, 1, 0) = <<>> /\ SubSeq(r, 1, 0) = <<>>
      BY SubSeqEmpty
    <3> QED
      BY <2>2, <3>1
  <2>3. CASE i # 0
    <3>1. i \in 1 .. Len(s) /\ 1 \in 1 .. Len(s)
      BY <1>1, <2>3
    <3> QED
      BY <2>1, <3>1, SubSeqOfConcat1
  <2> QED
    BY <2>2, <2>3
<1>3. Len(r) <= Len(s \o t) /\ \A i \in 1 .. Len(r) : (s \o t)[i] = r[i]
  BY <1>1 DEF Begins
<1> QED
  BY <1>2, <1>3 DEF Begins

(* The history of fewer transactions begins that of more.                  *)
LEMMA HistoryGrows ==
  ASSUME NEW m \in 0 .. NTxn, NEW n \in 0 .. NTxn, m <= n
  PROVE  Begins(HistoryTo(m), HistoryTo(n))
<1> DEFINE T == {i \in 0 .. NTxn : m <= i => Begins(HistoryTo(m), HistoryTo(i))}
<1>1. Begins(HistoryTo(m), HistoryTo(m))
  <2>1. Len(HistoryTo(m)) \in Nat
    BY HistoryNext, LenProperties
  <2> QED
    BY <2>1 DEF Begins
<1>2. 0 \in T
  <2>1. m <= 0 => m = 0
    OBVIOUS
  <2> QED
    BY <1>1, <2>1
<1>3. ASSUME NEW i \in 1 .. NTxn, i - 1 \in T PROVE i \in T
  <2>1. CASE m <= i - 1
    <3>1. i \in Txn /\ i - 1 \in 0 .. NTxn
      BY DEF Txn
    <3>2. HistoryTo(i) = HistoryTo(i - 1) \o Stmt[i] /\ Begins(HistoryTo(m), HistoryTo(i - 1))
      BY <1>3, <2>1, <3>1, HistoryNext
    <3>3. /\ HistoryTo(m) \in Seq(AP!Row) /\ HistoryTo(i - 1) \in Seq(AP!Row)
          /\ Stmt[i] \in Seq(AP!Row)
      BY <3>1, HistoryNext, StmtIs
    <3>4. Begins(HistoryTo(m), HistoryTo(i))
      BY <3>2, <3>3, BeginsConcat
    <3> QED
      BY <3>4
  <2>2. CASE ~(m <= i - 1)
    <3>1. m <= i => m = i
      BY <2>2
    <3> QED
      BY <1>1, <3>1
  <2> QED
    BY <2>1, <2>2
<1> HIDE DEF T
<1>4. \A i \in 0 .. NTxn : i \in T
  BY <1>2, <1>3, UpTo
<1> QED
  BY <1>4 DEF T

-----------------------------------------------------------------------------
(* How many rows the source committed before t, and what it held behind    *)
(* row i of its first n transactions.                                      *)
Start(t) == Len(HistoryTo(t - 1))
SourceAt(n, i) == AP!Replay(SubSeq(HistoryTo(n), 1, i))

(* A transaction stands in the history behind the ones before it.          *)
LEMMA StartIs ==
  ASSUME NEW t \in Txn
  PROVE  /\ t \in Nat \ {0} /\ t - 1 \in 0 .. NTxn /\ t \in 0 .. NTxn
         /\ NRow(t) \in Nat /\ NRow(t) >= 2
         /\ Start(t) \in Nat
         /\ Len(HistoryTo(t)) = Start(t) + NRow(t)
         /\ \A k \in 1 .. NRow(t) : HistoryTo(t)[Start(t) + k] = Stmt[t][k]
<1>1. /\ t \in Nat \ {0} /\ t - 1 \in 0 .. NTxn /\ t \in 0 .. NTxn
      /\ NRow(t) \in Nat /\ NRow(t) >= 2
  BY WalIs DEF Txn
<1>2. /\ HistoryTo(t - 1) \in Seq(AP!Row) /\ Stmt[t] \in Seq(AP!Row)
      /\ Len(Stmt[t]) = NRow(t)
      /\ HistoryTo(t) = HistoryTo(t - 1) \o Stmt[t]
  BY <1>1, HistoryNext, StmtIs
<1>3. Len(HistoryTo(t - 1)) \in Nat
  BY <1>2, LenProperties
<1>4. /\ Len(HistoryTo(t)) = Start(t) + NRow(t)
      /\ \A k \in 1 .. NRow(t) : HistoryTo(t)[Start(t) + k] = Stmt[t][k]
  <2> DEFINE a == HistoryTo(t - 1)
             b == Stmt[t]
  <2>1. a \in Seq(AP!Row) /\ b \in Seq(AP!Row)
    BY <1>2
  <2> HIDE DEF a, b
  <2>2. Len(a \o b) = Len(a) + Len(b) /\ \A k \in 1 .. Len(b) : (a \o b)[Len(a) + k] = b[k]
    BY <2>1, ConcatRows
  <2> QED
    BY <1>2, <2>2 DEF a, b, Start
<1> QED
  BY <1>1, <1>3, <1>4 DEF Start

(* A transaction that starts no later than another starts no later in the  *)
(* history, and before the other starts it ends.                           *)
LEMMA StartsInOrder ==
  ASSUME NEW t \in Txn, NEW u \in Txn
  PROVE  /\ t <= u => Start(t) <= Start(u)
         /\ t <= u + 1 => Start(t) <= Start(u) + NRow(u)
<1>1. /\ t - 1 \in 0 .. NTxn /\ u - 1 \in 0 .. NTxn /\ u \in 0 .. NTxn
      /\ t \in Nat /\ u \in Nat /\ Len(HistoryTo(u)) = Start(u) + NRow(u)
  BY StartIs
<1>2. t <= u => Start(t) <= Start(u)
  BY <1>1, HistoryGrows DEF Begins, Start
<1>3. t <= u + 1 => Start(t) <= Len(HistoryTo(u))
  <2>1. t <= u + 1 => t - 1 <= u
    BY <1>1
  <2> QED
    BY <1>1, <2>1, HistoryGrows DEF Begins, Start
<1> QED
  BY <1>1, <1>2, <1>3

(* What the source executed, where it did.                                 *)
LEMMA SourceRow ==
  ASSUME NEW n \in 0 .. NTxn, NEW t \in Txn, t <= n, NEW k \in 1 .. NRow(t)
  PROVE  /\ Start(t) + k \in 1 .. Len(HistoryTo(n)) /\ Len(HistoryTo(n)) \in Nat
         /\ Stmt[t][k] \in AP!Row
         /\ SourceAt(n, Start(t) + k - 1) \in AP!Db
         /\ SourceAt(n, Start(t) + k) = AP!Effect(SourceAt(n, Start(t) + k - 1), Stmt[t][k])
         /\ Stmt[t][k] \in AP!Statement =>
              AP!Executable(SourceAt(n, Start(t) + k - 1), Stmt[t][k])
<1> DEFINE p == Start(t) + k
           h == HistoryTo(n)
<1>1. /\ t - 1 \in 0 .. NTxn /\ t \in 0 .. NTxn
      /\ NRow(t) \in Nat /\ NRow(t) >= 2 /\ Start(t) \in Nat
      /\ Len(HistoryTo(t)) = Start(t) + NRow(t)
      /\ HistoryTo(t)[p] = Stmt[t][k]
  BY StartIs
<1>2. h \in Seq(AP!Row) /\ Len(h) \in Nat
  BY HistoryNext, LenProperties
<1>3. /\ Len(HistoryTo(t)) <= Len(h)
      /\ \A i \in 1 .. Len(HistoryTo(t)) : h[i] = HistoryTo(t)[i]
      /\ \A i \in 0 .. Len(HistoryTo(t)) : SubSeq(h, 1, i) = SubSeq(HistoryTo(t), 1, i)
  BY <1>1, HistoryGrows DEF Begins
<1>4. p \in 1 .. Len(HistoryTo(t)) /\ p - 1 \in 0 .. Len(HistoryTo(t))
  BY <1>1
<1>5. p \in 1 .. Len(h) /\ p - 1 \in 0 .. Len(h)
  BY <1>2, <1>3, <1>4
<1>6. h[p] = Stmt[t][k]
  BY <1>1, <1>3, <1>4
<1> HIDE DEF h, p
<1>7. h[p] \in AP!Row
  BY <1>2, <1>5, ElementOfSeq
<1>8. SourceAt(n, p - 1) \in AP!Db
  <2>1. SubSeq(h, 1, p - 1) \in Seq(AP!Row)
    BY <1>2, <1>5, AP!PrefixIsSeq
  <2>2. AP!Replay(SubSeq(h, 1, p - 1)) \in AP!Db
    BY <2>1, ApplyAssumption, AP!ReplayIsDb
  <2> QED
    BY <2>2 DEF SourceAt, h
<1>9. SourceAt(n, p) = AP!Effect(SourceAt(n, p - 1), h[p])
  <2>1. AP!Replay(SubSeq(h, 1, p)) = AP!Effect(AP!Replay(SubSeq(h, 1, p - 1)), h[p])
    BY <1>2, <1>5, ApplyAssumption, AP!ReplayNext
  <2> QED
    BY <2>1 DEF SourceAt, h
<1>10. ASSUME Stmt[t][k] \in AP!Statement
       PROVE  AP!Executable(SourceAt(n, p - 1), Stmt[t][k])
  <2>1. k \in 2 .. NRow(t) - 1
    <3>1. AP!BeginRow.op = "begin" /\ AP!CommitRow.op = "commit"
      BY DEF AP!BeginRow, AP!CommitRow, AP!Sql
    <3>2. k # 1 /\ k # NRow(t)
      <4>1. Stmt[t][k].op \notin {"begin", "commit"}
        <5>1. Stmt[t][k] \in AP!Row
          BY <1>10 DEF AP!Row
        <5> QED
          BY <1>10, <5>1, ApplyAssumption, AP!RowKinds
      <4> QED
        BY <3>1, <4>1, StmtIs
    <3> QED
      BY <1>1, <3>2
  <2>2. AP!Executable(AP!Replay(HistoryTo(t - 1) \o SubSeq(Stmt[t], 1, k - 1)), Stmt[t][k])
    BY <2>1, StmtIs
  <2>3. /\ HistoryTo(t - 1) \in Seq(AP!Row) /\ Stmt[t] \in Seq(AP!Row)
        /\ Len(Stmt[t]) = NRow(t) /\ HistoryTo(t) = HistoryTo(t - 1) \o Stmt[t]
    BY <1>1, HistoryNext, StmtIs
  <2>4. k - 1 \in 0 .. Len(Stmt[t]) /\ p - 1 = Len(HistoryTo(t - 1)) + (k - 1)
    BY <1>1, <2>3 DEF p, Start
  <2>5. SubSeq(HistoryTo(t), 1, p - 1) = HistoryTo(t - 1) \o SubSeq(Stmt[t], 1, k - 1)
    <3> DEFINE a == HistoryTo(t - 1)
               b == Stmt[t]
               j == k - 1
    <3>1. a \in Seq(AP!Row) /\ b \in Seq(AP!Row) /\ j \in 0 .. Len(b)
      BY <2>3, <2>4
    <3> HIDE DEF a, b, j
    <3>2. SubSeq(a \o b, 1, Len(a) + j) = a \o SubSeq(b, 1, j)
      BY SMTT(60), <3>1, PrefixEndsIn
    <3> QED
      BY <2>3, <2>4, <3>2 DEF a, b, j
  <2>6. SubSeq(h, 1, p - 1) = SubSeq(HistoryTo(t), 1, p - 1)
    BY <1>3, <1>4 DEF h
  <2> QED
    BY <2>2, <2>5, <2>6 DEF SourceAt, h
<1>11. p - 1 = Start(t) + k - 1
  BY <1>1 DEF p
<1>12. /\ SourceAt(n, p - 1) \in AP!Db
       /\ SourceAt(n, p) = AP!Effect(SourceAt(n, p - 1), Stmt[t][k])
       /\ Stmt[t][k] \in AP!Row
  BY <1>6, <1>7, <1>8, <1>9
<1>13. Start(t) + k \in 1 .. Len(HistoryTo(n)) /\ Len(HistoryTo(n)) \in Nat
  BY <1>2, <1>5 DEF p, h
<1> HIDE DEF SourceAt
<1> QED
  BY <1>10, <1>11, <1>12, <1>13 DEF p

(* What the source commits next changes nothing of what it held before.    *)
LEMMA SourceStays ==
  ASSUME NEW m \in 0 .. NTxn, NEW n \in 0 .. NTxn, m <= n
  PROVE  /\ Len(HistoryTo(m)) \in Nat /\ Len(HistoryTo(n)) \in Nat
         /\ Len(HistoryTo(m)) <= Len(HistoryTo(n))
         /\ \A i \in 0 .. Len(HistoryTo(m)) : SourceAt(n, i) = SourceAt(m, i)
<1>1. Len(HistoryTo(m)) \in Nat /\ Len(HistoryTo(n)) \in Nat
  BY HistoryNext, LenProperties
<1> QED
  BY <1>1, HistoryGrows DEF Begins, SourceAt

-----------------------------------------------------------------------------
(* The receive thread once more, now with what it puts where.              *)

(* The transaction of the last row of sync_sqls, and of the row before i.  *)
LastStaged == IF sync_sqls = <<>> THEN 0 ELSE sync_sqls[Len(sync_sqls)][1]
Before(i) == IF i = 1 THEN 0 ELSE sync_sqls[i - 1][1]

(* Transactions stand whole in sync_sqls, and none is left out: after each *)
(* comes the next one, or one that was there before.                       *)
RowsAreFramed ==
  /\ sync_sqls # <<>> => IsCommit(sync_sqls[Len(sync_sqls)])
  /\ \A i \in DOMAIN sync_sqls :
       IF sync_sqls[i][2] = 1
       THEN (i > 1 => IsCommit(sync_sqls[i - 1])) /\ sync_sqls[i][1] <= Before(i) + 1
       ELSE i > 1 /\ sync_sqls[i - 1] = <<sync_sqls[i][1], sync_sqls[i][2] - 1>>

(* The open local transaction has the rows of the transaction that is      *)
(* being received and no others.                                           *)
OpenRows ==
  /\ pc = "connect" => ltx = <<>>
  /\ pc = "recv" => Len(ltx) = sendRow - 1
  /\ pc \in {"feedback", "stage"} => Len(ltx) = msg[2] - 1
  /\ pc = "end" => Len(ltx) = NRow(msg[1])

(* What is received is no further than the transaction after the last one  *)
(* that is durable.                                                        *)
SendsOn ==
  /\ pc = "recv" => sendTxn <= LastStaged + 1
  /\ InHand => msg[1] <= LastStaged + 1

(* p skips no transaction from t on.                                       *)
NotPast(p, t) == \A u \in Txn : u >= t => p <= CommitLsn[u]

PositionsHold ==
  /\ NotPast(confirmed_flush, LastStaged + 1)
  /\ pc = "connect" => startpos = 0 /\ recvpos = 0 /\ flushpos = 0
  /\ pc = "recv" =>
       /\ NotPast(confirmed_flush, sendTxn)
       /\ NotPast(recvpos, sendTxn) /\ NotPast(flushpos, sendTxn)
  /\ InHand => NotPast(confirmed_flush, msg[1]) /\ recvpos = Pos[msg[1]][msg[2]]
  /\ pc \in {"feedback", "stage"} => NotPast(flushpos, msg[1])
  /\ pc = "end" => flushpos = recvpos

RInv ==
  /\ TypeOK
  /\ RowsInOrder
  /\ SenderIsNext
  /\ RowsAreCommitted
  /\ RowsAreFramed
  /\ OpenRows
  /\ SendsOn
  /\ PositionsHold

(* Nothing is lost without a break of the stream.                          *)
LEMMA NoDrop ==
  ASSUME TypeOK, MaxDrop = 0
  PROVE  ~FeedbackFailed /\ ~StreamBreaks /\ ~ConnectFails
<1>1. drops \in Nat
  BY DEF TypeOK
<1>2. ~(drops < MaxDrop)
  BY <1>1
<1> QED
  BY <1>2 DEF FeedbackFailed, StreamBreaks, ConnectFails

(* A position that is not past m is not past what comes later.             *)
LEMMA NotPastLater ==
  ASSUME NEW p, NEW m \in Nat, NEW n \in Nat, m <= n, NotPast(p, m)
  PROVE  NotPast(p, n)
<1>1. \A u \in Txn : u >= n => u >= m
  BY DEF Txn
<1> QED
  BY <1>1 DEF NotPast

(* The last transaction staged has a number.                               *)
LEMMA LastStagedIs ==
  ASSUME TypeOK
  PROVE  LastStaged \in Nat
<1>1. CASE sync_sqls = <<>>
  BY <1>1 DEF LastStaged
<1>2. CASE sync_sqls # <<>>
  <2>1. sync_sqls \in Seq(Nat \X Nat) /\ Len(sync_sqls) \in Nat
    BY LenProperties DEF TypeOK
  <2>2. Len(sync_sqls) # 0
    BY <1>2, <2>1, EmptySeq
  <2>3. Len(sync_sqls) \in 1 .. Len(sync_sqls)
    BY <2>1, <2>2
  <2>4. sync_sqls[Len(sync_sqls)] \in Nat \X Nat
    BY <2>1, <2>3, ElementOfSeq
  <2> QED
    BY <1>2, <2>4 DEF LastStaged
<1> QED
  BY <1>1, <1>2

(* What is in the open local transaction when its END is due.              *)
LEMMA WholeTransaction ==
  ASSUME TypeOK, RowsInOrder, OpenRows, pc = "end"
  PROVE  /\ msg[1] \in Txn /\ Len(ltx) = NRow(msg[1])
         /\ \A k \in 1 .. NRow(msg[1]) : ltx[k] = <<msg[1], k>>
<1>1. msg[1] \in Txn /\ NRow(msg[1]) \in Nat
  BY Facts DEF InHand
<1>2. Len(ltx) = NRow(msg[1]) /\ EndsIn(ltx, msg[1], NRow(msg[1]))
  BY DEF OpenRows, RowsInOrder
<1>3. \A k \in 1 .. NRow(msg[1]) : Len(ltx) - NRow(msg[1]) + k = k
  BY <1>1, <1>2
<1> QED
  BY <1>1, <1>2, <1>3 DEF EndsIn

(* What an END does to sync_sqls.                                          *)
LEMMA FramedEnd ==
  ASSUME TypeOK, RowsAreFramed, NEW t \in Txn, t <= LastStaged + 1, Len(ltx) = NRow(t),
         \A k \in 1 .. NRow(t) : ltx[k] = <<t, k>>, sync_sqls' = sync_sqls \o ltx
  PROVE  RowsAreFramed' /\ LastStaged' = t
<1> DEFINE L == Len(sync_sqls)
           n == NRow(t)
           all == sync_sqls'
<1>0. n \in Nat /\ n >= 2 /\ t \in Nat
  BY WalIs
<1>1. /\ sync_sqls \in Seq(Nat \X Nat) /\ ltx \in Seq(Nat \X Nat)
  BY DEF TypeOK
<1>2. L \in Nat /\ DOMAIN sync_sqls = 1 .. L
  BY <1>1, LenProperties
<1>3. /\ all \in Seq(Nat \X Nat) /\ Len(all) = L + n
      /\ \A i \in 1 .. L : all[i] = sync_sqls[i]
      /\ \A k \in 1 .. n : all[L + k] = <<t, k>>
  <2> DEFINE a == sync_sqls
             b == ltx
             ab == a \o b
  <2>1. a \in Seq(Nat \X Nat) /\ b \in Seq(Nat \X Nat)
    BY <1>1
  <2> HIDE DEF a, b
  <2>2. /\ ab \in Seq(Nat \X Nat) /\ Len(ab) = Len(a) + Len(b)
        /\ \A i \in 1 .. Len(a) : ab[i] = a[i]
        /\ \A k \in 1 .. Len(b) : ab[Len(a) + k] = b[k]
    BY <2>1, ConcatRows
  <2>3. all = ab
    BY DEF a, b
  <2> HIDE DEF ab
  <2> QED
    BY <2>2, <2>3 DEF a, b
<1>4. DOMAIN all = 1 .. L + n
  BY <1>3, LenProperties
<1>5. all # <<>> /\ all[Len(all)] = <<t, n>>
  <2>1. n \in 1 .. n /\ Len(all) # 0
    BY SMTT(60), <1>0, <1>2, <1>3
  <2>2. Len(<<>>) = 0
    OBVIOUS
  <2> QED
    BY <1>3, <2>1, <2>2
<1>6. IsCommit(all[Len(all)])
  BY <1>5 DEF IsCommit
<1>7. L > 0 => sync_sqls # <<>>
  BY EmptySeq
<1> DEFINE B(i) == IF i = 1 THEN 0 ELSE all[i - 1][1]
           Good(i) == IF all[i][2] = 1
                      THEN (i > 1 => IsCommit(all[i - 1])) /\ all[i][1] <= B(i) + 1
                      ELSE i > 1 /\ all[i - 1] = <<all[i][1], all[i][2] - 1>>
<1>8. ASSUME NEW i \in 1 .. L PROVE Good(i)
  <2>1. all[i] = sync_sqls[i] /\ (i > 1 => all[i - 1] = sync_sqls[i - 1])
    BY <1>2, <1>3
  <2>2. B(i) = Before(i)
    BY <1>2, <2>1 DEF Before
  <2> QED
    BY <1>2, <2>1, <2>2 DEF RowsAreFramed
<1>9. ASSUME NEW k \in 1 .. n PROVE Good(L + k)
  <2>1. all[L + k] = <<t, k>>
    BY <1>3
  <2>2. CASE k = 1
    <3>1. L + k - 1 = L /\ (L + k) - 1 = L /\ (L + k > 1 => L > 0) /\ (L + k = 1 => L = 0) /\ (L = 0 => L + k = 1)
      BY <1>2, <2>2
    <3>2. L > 0 => all[L] = sync_sqls[L] /\ IsCommit(sync_sqls[L]) /\ LastStaged = sync_sqls[L][1]
      BY <1>2, <1>3, <1>7 DEF RowsAreFramed, LastStaged
    <3>3. L = 0 => LastStaged = 0
      <4>1. L = 0 => sync_sqls = <<>>
        BY <1>1, EmptySeq
      <4> QED
        BY <4>1 DEF LastStaged
    <3>4. L + k > 1 => IsCommit(all[(L + k) - 1])
      BY <3>1, <3>2
    <3>5. CASE L = 0
      <4>1. B(L + k) = 0
        BY <3>1, <3>5
      <4> HIDE DEF L, all, B
      <4> QED
        BY <2>1, <2>2, <3>3, <3>4, <3>5, <4>1
    <3>6. CASE L # 0
      <4>1. L + k # 1 /\ L > 0
        BY <1>2, <2>2, <3>6
      <4>2. B(L + k) = LastStaged
        BY <3>1, <3>2, <4>1
      <4>3. all[L + k][2] = 1 /\ all[L + k][1] = t
        BY <2>1, <2>2
      <4> HIDE DEF L, all, B
      <4> QED
        BY <3>4, <4>2, <4>3
    <3> QED
      BY <3>5, <3>6
  <2>3. CASE k # 1
    <3>1. k - 1 \in 1 .. n /\ L + k - 1 = L + (k - 1) /\ L + k > 1
      BY <1>0, <1>2, <2>3
    <3>2. all[L + k - 1] = <<t, k - 1>>
      BY <1>3, <3>1
    <3> QED
      BY <2>1, <2>3, <3>1, <3>2
  <2> QED
    BY <2>2, <2>3
<1>10. ASSUME NEW i \in DOMAIN all PROVE Good(i)
  <2>1. i \in 1 .. L \/ (i - L \in 1 .. n /\ i = L + (i - L))
    BY <1>0, <1>2, <1>4
  <2> HIDE DEF Good, L
  <2> QED
    BY <1>8, <1>9, <2>1
<1>11. LastStaged' = t
  BY <1>5 DEF LastStaged
<1> QED
  BY <1>6, <1>10, <1>11 DEF RowsAreFramed, Before, IsCommit

(* What only grows with an END.                                            *)
LEMMA OnlyEnd ==
  [Next]_vars => UNCHANGED sync_sqls \/ (pc = "end" /\ sync_sqls' = sync_sqls \o ltx)
BY DEF Next, Step, Idle, SourceCommit, Connect, ReceiveMessage, FeedbackAfterMessage, Keepalive,
   IdleFeedback, StreamBreaks, ConnectFails, StageRow, EndLocal, StageFails, EndFails, StopOnAbort,
   Abort, Restart, vars, local

(* END puts a whole transaction behind the last one.                       *)
LEMMA FramedStep ==
  ASSUME RInv, [Next]_vars
  PROVE  /\ RowsAreFramed'
         /\ UNCHANGED sync_sqls => LastStaged' = LastStaged
         /\ sync_sqls' = sync_sqls \o ltx /\ pc = "end" => LastStaged' = msg[1]
<1>1. CASE UNCHANGED sync_sqls /\ ~(sync_sqls' = sync_sqls \o ltx /\ pc = "end")
  BY <1>1 DEF RInv, RowsAreFramed, LastStaged, Before, IsCommit
<1>2. CASE pc = "end" /\ sync_sqls' = sync_sqls \o ltx
  <2>1. /\ TypeOK /\ RowsAreFramed /\ msg[1] \in Txn /\ Len(ltx) = NRow(msg[1])
        /\ \A k \in 1 .. NRow(msg[1]) : ltx[k] = <<msg[1], k>>
    BY <1>2, WholeTransaction DEF RInv
  <2>2. msg[1] <= LastStaged + 1
    BY <1>2 DEF RInv, SendsOn, InHand
  <2>3. RowsAreFramed' /\ LastStaged' = msg[1]
    BY <1>2, <2>1, <2>2, FramedEnd
  <2> QED
    BY <1>2, <2>3 DEF LastStaged
<1> QED
  BY <1>1, <1>2, OnlyEnd

(* The open transaction keeps to its rows.                                 *)
LEMMA OpenStep ==
  ASSUME RInv, [Next]_vars, MaxDrop = 0
  PROVE  OpenRows'
<1>0. TypeOK /\ SenderIsNext /\ OpenRows /\ ~FeedbackFailed /\ ~StreamBreaks /\ ~ConnectFails
  BY NoDrop DEF RInv
<1> USE DEF source, handler, local, faults
<1>1. CASE Connect
  BY <1>0, <1>1 DEF Connect, StreamFrom, OpenRows
<1>2. CASE ReceiveMessage
  BY <1>0, <1>2 DEF ReceiveMessage, OpenRows
<1>3. CASE FeedbackAfterMessage \/ Keepalive \/ IdleFeedback
  BY <1>0, <1>3 DEF FeedbackAfterMessage, Keepalive, IdleFeedback, OpenRows
<1>4. CASE StageRow
  <2>1. /\ msg[1] \in Txn /\ msg[2] \in 1 .. NRow(msg[1]) /\ NRow(msg[1]) \in Nat /\ InHand
        /\ Len(ltx) = msg[2] - 1 /\ ltx' = Append(ltx, msg) /\ msg' = msg /\ sendRow' = sendRow
        /\ pc' = IF IsCommit(msg) THEN "end" ELSE "recv"
    BY <1>0, <1>4, Facts DEF StageRow, OpenRows, InHand
  <2>2. Len(ltx') = msg[2]
    BY <1>0, <2>1, RowsAfterStage
  <2>3. IsCommit(msg) => msg[2] = NRow(msg[1])
    BY DEF IsCommit
  <2>4. ~IsCommit(msg) => sendRow = msg[2] + 1
    BY <1>0, <2>1 DEF SenderIsNext
  <2> QED
    BY <2>1, <2>2, <2>3, <2>4 DEF OpenRows
<1>5. CASE EndLocal
  <2>1. sendRow = 1 /\ Len(<<>>) = 0
    BY <1>0, <1>5 DEF EndLocal, SenderIsNext, InHand, RInv, RowsInOrder
  <2> QED
    BY <1>5, <2>1 DEF EndLocal, OpenRows
<1>6. CASE StopOnAbort \/ StageFails \/ EndFails \/ Restart
  BY <1>6 DEF StopOnAbort, StageFails, EndFails, Restart, OpenRows
<1>7. CASE SourceCommit \/ Abort \/ UNCHANGED vars
  BY <1>0, <1>7 DEF SourceCommit, Abort, vars, OpenRows
<1> QED
  BY <1>0, <1>1, <1>2, <1>3, <1>4, <1>5, <1>6, <1>7 DEF Next, Step, Idle

(* The walsender does not report a position past what it has to send.      *)
LEMMA SentPtrIsHeld ==
  ASSUME TypeOK, NEW walEnd \in SentPtr
  PROVE  walEnd \in Int /\ NotPast(walEnd, sendTxn)
<1>1. sendTxn \in 1 .. NTxn + 1
  BY DEF TypeOK
<1>2. CASE sendTxn = NTxn + 1
  <2>1. \A u \in Txn : ~(u >= sendTxn)
    BY <1>2 DEF Txn
  <2>2. sendTxn # 1 => sendTxn - 1 \in Txn
    BY <1>2 DEF Txn
  <2>3. walEnd = IF sendTxn = 1 THEN 0 ELSE CommitLsn[sendTxn - 1] + 1
    BY <1>2 DEF SentPtr
  <2>4. walEnd \in Int
    BY <2>2, <2>3, WalIs
  <2> QED
    BY <2>1, <2>4 DEF NotPast
<1>3. CASE sendTxn \in Txn
  <2>1. sendTxn # 1 => sendTxn - 1 \in Txn
    BY <1>3 DEF Txn
  <2>2. walEnd \in (IF sendTxn = 1 THEN 0 ELSE CommitLsn[sendTxn - 1] + 1) .. CommitLsn[sendTxn]
    BY <1>3 DEF SentPtr, Txn
  <2>3. walEnd \in Int /\ walEnd <= CommitLsn[sendTxn] /\ CommitLsn[sendTxn] \in Nat
    BY <1>3, <2>1, <2>2, WalIs
  <2>4. ASSUME NEW u \in Txn, u >= sendTxn PROVE walEnd <= CommitLsn[u]
    <3>1. u = sendTxn \/ sendTxn < u
      BY <1>3, <2>4 DEF Txn
    <3>2. CommitLsn[u] \in Nat /\ (sendTxn < u => CommitLsn[sendTxn] < CommitLsn[u])
      BY <1>3, WalIs
    <3> QED
      BY <2>3, <3>1, <3>2
  <2> QED
    BY <2>3, <2>4 DEF NotPast
<1> QED
  BY <1>1, <1>2, <1>3 DEF Txn

(* The position of a message that is not a commit skips nothing from its   *)
(* own transaction on, that of a commit nothing behind it.                 *)
LEMMA MessagePosition ==
  ASSUME NEW t \in Txn, NEW k \in 1 .. NRow(t)
  PROVE  /\ k # NRow(t) => NotPast(Pos[t][k], t)
         /\ NotPast(Pos[t][NRow(t)], t + 1)
<1>1. /\ NRow(t) \in Nat /\ CommitLsn[t] \in Nat /\ t \in Nat
      /\ Pos[t][k] \in Nat /\ (k # NRow(t) => Pos[t][k] <= CommitLsn[t])
      /\ Pos[t][NRow(t)] = CommitLsn[t] + 1
  BY WalIs
<1>2. ASSUME NEW u \in Txn
      PROVE  u \in Nat /\ CommitLsn[u] \in Nat /\ (t < u => CommitLsn[t] < CommitLsn[u])
  BY WalIs
<1>3. ASSUME NEW u \in Txn, u >= t, k # NRow(t) PROVE Pos[t][k] <= CommitLsn[u]
  <2>1. u = t \/ t < u
    BY <1>1, <1>2, <1>3
  <2> QED
    BY SMTT(60), <1>1, <1>2, <1>3, <2>1
<1>4. ASSUME NEW u \in Txn, u >= t + 1 PROVE Pos[t][NRow(t)] <= CommitLsn[u]
  <2>1. t < u
    BY <1>1, <1>2, <1>4
  <2> QED
    BY <1>1, <1>2, <2>1
<1> QED
  BY <1>3, <1>4 DEF NotPast

(* The stream goes on with what is not durable yet.                        *)
LEMMA ConnectHolds ==
  ASSUME RInv, Connect
  PROVE  SendsOn' /\ PositionsHold'
<1>0. TypeOK /\ PositionsHold /\ LastStaged \in Nat /\ LastStaged' = LastStaged
  BY LastStagedIs DEF RInv, Connect, local, LastStaged
<1>1. /\ startpos = 0 /\ confirmed_flush \in Nat /\ recvpos = 0 /\ flushpos = 0
      /\ NotPast(confirmed_flush, LastStaged + 1)
  BY <1>0 DEF Connect, PositionsHold, TypeOK
<1>2. PosMax(startpos, confirmed_flush) = confirmed_flush
  BY <1>1 DEF PosMax
<1>3. /\ sendTxn' \in 1 .. NTxn + 1 /\ pc' = "recv"
      /\ \A t \in Txn : t < sendTxn' <=> CommitLsn[t] < confirmed_flush
      /\ UNCHANGED <<confirmed_flush, recvpos, flushpos>>
  BY <1>2 DEF Connect, StreamFrom
<1>4. sendTxn' <= LastStaged + 1
  <2>1. CASE LastStaged + 1 \in Txn
    <3>1. confirmed_flush <= CommitLsn[LastStaged + 1]
      BY <1>0, <1>1, <2>1 DEF NotPast
    <3>2. ~(CommitLsn[LastStaged + 1] < confirmed_flush)
      BY <1>1, <2>1, <3>1, WalIs
    <3> QED
      BY <1>0, <1>3, <2>1, <3>2
  <2>2. CASE LastStaged + 1 \notin Txn
    BY <1>0, <1>3, <2>2 DEF Txn
  <2> QED
    BY <2>1, <2>2
<1>5. ASSUME NEW u \in Txn, u >= sendTxn' PROVE 0 <= CommitLsn[u] /\ confirmed_flush <= CommitLsn[u]
  <2>1. ~(u < sendTxn') /\ CommitLsn[u] \in Nat
    BY <1>3, <1>5, WalIs
  <2> QED
    BY <1>1, <1>3, <2>1
<1>6. SendsOn'
  BY <1>0, <1>3, <1>4 DEF SendsOn, InHand
<1>7. NotPast(confirmed_flush', LastStaged' + 1)
  BY <1>0, <1>1, <1>3
<1>8. NotPast(confirmed_flush', sendTxn') /\ NotPast(recvpos', sendTxn') /\ NotPast(flushpos', sendTxn')
  BY <1>1, <1>3, <1>5 DEF NotPast
<1> QED
  BY <1>3, <1>6, <1>7, <1>8 DEF PositionsHold, InHand, NotPast

(* A status packet confirms nothing that is not durable.                   *)
LEMMA FeedbackHolds ==
  ASSUME TypeOK, FeedbackSent, NEW t \in Nat, t <= LastStaged + 1,
         NotPast(confirmed_flush, LastStaged + 1), NotPast(confirmed_flush, t),
         NotPast(flushpos, t)
  PROVE  NotPast(confirmed_flush', LastStaged + 1) /\ NotPast(confirmed_flush', t)
<1>1. confirmed_flush' = confirmed_flush \/ confirmed_flush' = flushpos
  BY DEF FeedbackSent, TakeFeedback
<1>2. NotPast(flushpos, LastStaged + 1)
  BY LastStagedIs, NotPastLater
<1> QED
  BY <1>1, <1>2

(* The positions keep behind what is not staged.                           *)
LEMMA HoldStep ==
  ASSUME RInv, [Next]_vars, MaxDrop = 0
  PROVE  SendsOn' /\ PositionsHold'
<1>0. /\ TypeOK /\ RowsInOrder /\ SenderIsNext /\ SendsOn /\ PositionsHold
      /\ ~FeedbackFailed /\ ~StreamBreaks /\ ~ConnectFails
      /\ LastStaged \in Nat
      /\ sendTxn \in Nat
      /\ UNCHANGED sync_sqls => LastStaged' = LastStaged
      /\ sync_sqls' = sync_sqls \o ltx /\ pc = "end" => LastStaged' = msg[1]
  BY NoDrop, LastStagedIs, FramedStep DEF RInv, TypeOK
<1>m. InHand => /\ msg[1] \in Txn /\ msg[1] \in Nat /\ msg[2] \in 1 .. NRow(msg[1])
                /\ NRow(msg[1]) \in Nat
  BY <1>0, Facts
<1> USE DEF InHand
<1>1. CASE Connect
  BY <1>1, ConnectHolds
<1>2. CASE ReceiveMessage
  <2>1. /\ pc = "recv" /\ pc' \in {"stage", "feedback"} /\ msg' = <<sendTxn, sendRow>>
        /\ recvpos' = Pos[sendTxn][sendRow] /\ LastStaged' = LastStaged
        /\ UNCHANGED <<confirmed_flush, flushpos>>
    BY <1>0, <1>2 DEF ReceiveMessage, local
  <2>2. msg'[1] = sendTxn /\ msg'[2] = sendRow
    BY <2>1
  <2>3. SendsOn'
    BY <1>0, <2>1, <2>2 DEF SendsOn
  <2>4. NotPast(confirmed_flush, LastStaged + 1)' /\ NotPast(confirmed_flush, msg[1])'
        /\ NotPast(flushpos, msg[1])'
    BY <1>0, <2>1, <2>2 DEF PositionsHold, NotPast
  <2> QED
    BY <2>1, <2>2, <2>3, <2>4 DEF PositionsHold
<1>3. CASE FeedbackAfterMessage
  <2>1. /\ pc = "feedback" /\ pc' = "stage" /\ FeedbackSent /\ LastStaged' = LastStaged
        /\ UNCHANGED <<recvpos, flushpos, msg>>
    BY <1>0, <1>3 DEF FeedbackAfterMessage, local
  <2>2. /\ msg[1] <= LastStaged + 1 /\ NotPast(confirmed_flush, LastStaged + 1)
        /\ NotPast(confirmed_flush, msg[1]) /\ NotPast(flushpos, msg[1])
        /\ recvpos = Pos[msg[1]][msg[2]]
    BY <1>0, <2>1 DEF SendsOn, PositionsHold
  <2>3. NotPast(confirmed_flush', LastStaged + 1) /\ NotPast(confirmed_flush', msg[1])
    BY <1>0, <1>m, <2>1, <2>2, FeedbackHolds
  <2>4. SendsOn'
    BY <1>0, <2>1, <2>2 DEF SendsOn
  <2>5. NotPast(confirmed_flush, LastStaged + 1)' /\ NotPast(confirmed_flush, msg[1])'
        /\ NotPast(flushpos, msg[1])'
    BY <2>1, <2>2, <2>3 DEF NotPast
  <2> QED
    BY <2>1, <2>2, <2>4, <2>5 DEF PositionsHold
<1>4. CASE Keepalive \/ IdleFeedback
  <2>1. /\ pc = "recv" /\ pc' = "recv" /\ LastStaged' = LastStaged
        /\ FeedbackSent \/ confirmed_flush' = confirmed_flush
        /\ recvpos' = recvpos \/ \E walEnd \in SentPtr : recvpos' = PosMax(walEnd, recvpos)
        /\ UNCHANGED <<flushpos, sendTxn, msg>>
    BY <1>0, <1>4 DEF Keepalive, IdleFeedback, local
  <2>2. /\ sendTxn <= LastStaged + 1 /\ NotPast(confirmed_flush, LastStaged + 1)
        /\ NotPast(confirmed_flush, sendTxn) /\ NotPast(recvpos, sendTxn)
        /\ NotPast(flushpos, sendTxn)
    BY <1>0, <2>1 DEF SendsOn, PositionsHold
  <2>3. NotPast(confirmed_flush', LastStaged + 1) /\ NotPast(confirmed_flush', sendTxn)
    BY <1>0, <2>1, <2>2, FeedbackHolds
  <2>4. NotPast(recvpos', sendTxn)
    <3>1. ASSUME NEW walEnd \in SentPtr PROVE NotPast(walEnd, sendTxn)
      BY <1>0, SentPtrIsHeld
    <3> QED
      BY <2>1, <2>2, <3>1 DEF PosMax
  <2>5. SendsOn'
    BY <1>0, <2>1, <2>2 DEF SendsOn
  <2>6. /\ NotPast(confirmed_flush, LastStaged + 1)' /\ NotPast(confirmed_flush, sendTxn)'
        /\ NotPast(recvpos, sendTxn)' /\ NotPast(flushpos, sendTxn)'
    BY <2>1, <2>2, <2>3, <2>4 DEF NotPast
  <2> QED
    BY <2>1, <2>5, <2>6 DEF PositionsHold
<1>5. CASE StageRow
  <2>1. /\ pc = "stage" /\ pc' = (IF IsCommit(msg) THEN "end" ELSE "recv")
        /\ flushpos' = recvpos /\ LastStaged' = LastStaged
        /\ UNCHANGED <<confirmed_flush, recvpos, msg, sendTxn>>
    BY <1>0, <1>5 DEF StageRow, source
  <2>2. /\ msg[1] <= LastStaged + 1 /\ NotPast(confirmed_flush, LastStaged + 1)
        /\ NotPast(confirmed_flush, msg[1]) /\ recvpos = Pos[msg[1]][msg[2]]
    BY <1>0, <2>1 DEF SendsOn, PositionsHold
  <2>3. /\ NotPast(confirmed_flush, LastStaged + 1)' /\ NotPast(confirmed_flush, msg[1])'
    BY <2>1, <2>2 DEF NotPast
  <2>4. CASE IsCommit(msg)
    <3>1. SendsOn'
      BY <2>1, <2>2, <2>4 DEF SendsOn
    <3> QED
      BY <2>1, <2>2, <2>3, <2>4, <3>1 DEF PositionsHold
  <2>5. CASE ~IsCommit(msg)
    <3>1. sendTxn = msg[1] /\ msg[2] # NRow(msg[1])
      BY <1>0, <2>1, <2>5 DEF SenderIsNext, IsCommit
    <3>2. NotPast(recvpos, sendTxn)
      BY <1>m, <2>1, <2>2, <3>1, MessagePosition
    <3>3. NotPast(recvpos, sendTxn)' /\ NotPast(flushpos, sendTxn)' /\ NotPast(confirmed_flush, sendTxn)'
      BY <2>1, <2>2, <3>1, <3>2 DEF NotPast
    <3>4. SendsOn'
      BY <2>1, <2>2, <2>5, <3>1 DEF SendsOn
    <3> QED
      BY <2>1, <2>3, <2>5, <3>3, <3>4 DEF PositionsHold
  <2> QED
    BY <2>4, <2>5
<1>6. CASE EndLocal \/ EndFails
  <2>1. /\ pc = "end" /\ UNCHANGED <<confirmed_flush, recvpos, flushpos, sendTxn, sendRow>>
        /\ LastStaged' = LastStaged \/ LastStaged' = msg[1]
        /\ pc' \in {"recv", "stopped"}
        /\ pc' = "recv" => LastStaged' = msg[1]
    BY <1>0, <1>6 DEF EndLocal, EndFails, source, handler, local
  <2>2. /\ NotPast(confirmed_flush, LastStaged + 1) /\ NotPast(confirmed_flush, msg[1])
        /\ recvpos = Pos[msg[1]][msg[2]] /\ flushpos = recvpos
    BY <1>0, <2>1 DEF PositionsHold
  <2>3. NotPast(confirmed_flush, msg[1] + 1)
    <3>1. msg[1] \in Nat /\ msg[1] + 1 \in Nat /\ msg[1] <= msg[1] + 1
      BY <1>m, <2>1
    <3> QED
      BY <2>2, <3>1, NotPastLater
  <2>4. NotPast(confirmed_flush, LastStaged + 1)'
    BY <2>1, <2>2, <2>3 DEF NotPast
  <2>5. CASE pc' = "stopped"
    BY <2>4, <2>5 DEF SendsOn, PositionsHold
  <2>6. CASE pc' = "recv"
    <3>1. IsCommit(msg) /\ msg[2] = NRow(msg[1]) /\ sendTxn = msg[1] + 1
      BY <1>0, <2>1 DEF RowsInOrder, SenderIsNext, IsCommit
    <3>2. NotPast(recvpos, msg[1] + 1)
      BY <1>m, <2>1, <2>2, <3>1, MessagePosition
    <3>3. /\ NotPast(confirmed_flush, sendTxn)' /\ NotPast(recvpos, sendTxn)'
          /\ NotPast(flushpos, sendTxn)'
      BY <2>1, <2>2, <2>3, <3>1, <3>2 DEF NotPast
    <3>4. SendsOn'
      BY <1>0, <2>1, <2>6, <3>1 DEF SendsOn
    <3> QED
      BY <2>4, <2>6, <3>3, <3>4 DEF PositionsHold
  <2> QED
    BY <2>1, <2>5, <2>6
<1>7. CASE StopOnAbort \/ StageFails
  <2>1. pc' = "stopped" /\ LastStaged' = LastStaged /\ UNCHANGED confirmed_flush
    BY <1>0, <1>7 DEF StopOnAbort, StageFails, source, local
  <2> QED
    BY <1>0, <2>1 DEF SendsOn, PositionsHold, NotPast
<1>8. CASE Restart
  <2>1. /\ pc' = "connect" /\ LastStaged' = LastStaged /\ UNCHANGED confirmed_flush
        /\ startpos' = 0 /\ recvpos' = 0 /\ flushpos' = 0
    BY <1>0, <1>8 DEF Restart, source
  <2> QED
    BY <1>0, <2>1 DEF SendsOn, PositionsHold, NotPast
<1>9. CASE SourceCommit \/ Abort \/ UNCHANGED vars
  <2>1. /\ LastStaged' = LastStaged
        /\ UNCHANGED <<pc, confirmed_flush, startpos, recvpos, flushpos, msg, sendTxn>>
    BY <1>0, <1>9 DEF SourceCommit, Abort, vars, source, handler, local
  <2> QED
    BY <1>0, <2>1 DEF SendsOn, PositionsHold, NotPast
<1> QED
  BY <1>0, <1>1, <1>2, <1>3, <1>4, <1>5, <1>6, <1>7, <1>8, <1>9 DEF Next, Step, Idle

(* RInv is inductive as long as the stream does not break.                 *)
LEMMA RInvStep ==
  ASSUME RInv, [Next]_vars, MaxDrop = 0
  PROVE  RInv'
<1>1. TypeOK' /\ RowsInOrder' /\ SenderIsNext' /\ RowsAreCommitted'
  BY TypingStep, RowsInOrderStep, RowsAreCommittedStep DEF RInv
<1>2. RowsAreFramed' /\ OpenRows'
  BY FramedStep, OpenStep
<1>3. SendsOn' /\ PositionsHold'
  BY HoldStep
<1> QED
  BY <1>1, <1>2, <1>3 DEF RInv

(* It holds at the start.                                                  *)
LEMMA RInvInitially == Init => RInv
<1> SUFFICES ASSUME Init PROVE RInv
  OBVIOUS
<1>1. TypeOK /\ RowsInOrder /\ SenderIsNext /\ RowsAreCommitted
  BY Initially DEF IInv
<1>2. RowsAreFramed /\ OpenRows /\ SendsOn
  BY DEF Init, RowsAreFramed, OpenRows, SendsOn, InHand
<1>3. PositionsHold
  <2>1. NotPast(confirmed_flush, LastStaged + 1)
    BY WalIs DEF Init, NotPast
  <2> QED
    BY <2>1 DEF Init, PositionsHold, InHand
<1> QED
  BY <1>1, <1>2, <1>3 DEF RInv

(* The apply thread only raises the flag.                                  *)
LEMMA RInvKept ==
  ASSUME RInv, UNCHANGED receiveVars, time_to_abort' \in BOOLEAN
  PROVE  RInv'
<1> USE DEF receiveVars, source, handler, local, faults
<1>1. TypeOK'
  BY DEF RInv, TypeOK, IsRow
<1>2. RowsInOrder' /\ SenderIsNext'
  BY DEF RInv, RowsInOrder, SenderIsNext, EndsIn, IsCommit, InHand
<1>3. RowsAreCommitted'
  BY DEF RInv, RowsAreCommitted, IsRow, InHand
<1>4. LastStaged' = LastStaged
  BY DEF LastStaged
<1>5. RowsAreFramed'
  BY DEF RInv, RowsAreFramed, Before, IsCommit
<1>6. OpenRows' /\ SendsOn'
  BY <1>4 DEF RInv, OpenRows, SendsOn, InHand
<1>7. PositionsHold'
  BY <1>4 DEF RInv, PositionsHold, NotPast, InHand
<1> QED
  BY <1>1, <1>2, <1>3, <1>5, <1>6, <1>7 DEF RInv

-----------------------------------------------------------------------------
(* What the apply thread reads.                                            *)
LEMMA RowIs ==
  ASSUME RInv
  PROVE  /\ Len(sync_sqls) \in Nat /\ DOMAIN sync_sqls = 1 .. Len(sync_sqls)
         /\ committed \in 0 .. NTxn
         /\ \A i \in 1 .. Len(sync_sqls) :
              /\ sync_sqls[i][1] \in Txn /\ sync_sqls[i][1] <= committed
              /\ sync_sqls[i][2] \in 1 .. NRow(sync_sqls[i][1])
              /\ sync_sqls[i] = <<sync_sqls[i][1], sync_sqls[i][2]>>
<1>1. Len(sync_sqls) \in Nat /\ DOMAIN sync_sqls = 1 .. Len(sync_sqls) /\ committed \in 0 .. NTxn
  BY LenProperties DEF RInv, TypeOK
<1>2. \A i \in 1 .. Len(sync_sqls) : IsRow(sync_sqls[i]) /\ sync_sqls[i][1] <= committed
  BY <1>1 DEF RInv, RowsAreCommitted
<1>3. ASSUME NEW i \in 1 .. Len(sync_sqls)
      PROVE  /\ sync_sqls[i][1] \in Txn
             /\ sync_sqls[i][2] \in 1 .. NRow(sync_sqls[i][1])
             /\ sync_sqls[i] = <<sync_sqls[i][1], sync_sqls[i][2]>>
  <2>0. PICK t \in Txn : \E k \in 1 .. NRow(t) : sync_sqls[i] = <<t, k>>
    BY <1>2 DEF IsRow
  <2>1. PICK k \in 1 .. NRow(t) : sync_sqls[i] = <<t, k>>
    BY <2>0
  <2>2. sync_sqls[i][1] = t /\ sync_sqls[i][2] = k
    BY <2>1
  <2> QED
    BY <2>0, <2>1, <2>2
<1> QED
  BY <1>1, <1>2, <1>3

(* A transaction begins with its begin and ends with its commit.           *)
LEMMA RowStmt ==
  ASSUME NEW t \in Txn, NEW k \in 1 .. NRow(t)
  PROVE  /\ Stmt[t][k] \in AP!Row
         /\ k = 1 <=> Stmt[t][k].op = "begin"
         /\ k = NRow(t) <=> Stmt[t][k].op = "commit"
<1>1. NRow(t) \in Nat /\ NRow(t) >= 2
  BY WalIs
<1>2. /\ Stmt[t][1] = AP!BeginRow /\ Stmt[t][NRow(t)] = AP!CommitRow
      /\ \A i \in 2 .. NRow(t) - 1 : Stmt[t][i] \in AP!Statement
  BY StmtIs
<1>3. AP!BeginRow.op = "begin" /\ AP!CommitRow.op = "commit"
  BY DEF AP!BeginRow, AP!CommitRow, AP!Sql
<1>4. Stmt[t][k] \in AP!Row
  BY <1>1, StmtIs, ElementOfSeq
<1>5. CASE k = 1
  BY <1>1, <1>2, <1>3, <1>4, <1>5
<1>6. CASE k = NRow(t)
  BY <1>1, <1>2, <1>3, <1>4, <1>6
<1>7. CASE k # 1 /\ k # NRow(t)
  <2>1. Stmt[t][k] \in AP!Statement
    BY <1>1, <1>2, <1>7
  <2>2. Stmt[t][k].op \notin {"begin", "commit"}
    BY <1>4, <2>1, ApplyAssumption, AP!RowKinds
  <2> QED
    BY <1>4, <1>7, <2>2
<1> QED
  BY <1>5, <1>6, <1>7

(* The statements of a sequence of rows,                                   *)
LEMMA SqlsOf ==
  ASSUME NEW rows \in Seq(Nat \X Nat), \A i \in 1 .. Len(rows) : IsRow(rows[i])
  PROVE  /\ Len(rows) \in Nat
         /\ Sqls(rows) \in Seq(AP!Row)
         /\ Len(Sqls(rows)) = Len(rows)
         /\ \A i \in 1 .. Len(rows) : Sqls(rows)[i] = Stmt[rows[i][1]][rows[i][2]]
<1> DEFINE s == Sqls(rows)
           L == Len(rows)
<1>1. L \in Nat
  BY LenProperties
<1>2. ASSUME NEW i \in 1 .. L PROVE Stmt[rows[i][1]][rows[i][2]] \in AP!Row
  <2>1. PICK t \in Txn : \E k \in 1 .. NRow(t) : rows[i] = <<t, k>>
    BY DEF IsRow
  <2>2. PICK k \in 1 .. NRow(t) : rows[i] = <<t, k>>
    BY <2>1
  <2>3. rows[i][1] = t /\ rows[i][2] = k
    BY <2>2
  <2> QED
    BY <2>3, RowStmt
<1>3. s = [i \in 1 .. L |-> Stmt[rows[i][1]][rows[i][2]]]
  BY DEF Sqls
<1> HIDE DEF s, L
<1>4. s \in [1 .. L -> AP!Row]
  BY <1>2, <1>3
<1>5. s \in Seq(AP!Row) /\ Len(s) = L
  BY <1>1, <1>4
<1>6. \A i \in 1 .. L : s[i] = Stmt[rows[i][1]][rows[i][2]]
  BY <1>3
<1> QED
  BY <1>1, <1>5, <1>6 DEF s, L

(* of those in sync_sqls,                                                  *)
LEMMA SqlsAre ==
  ASSUME RInv
  PROVE  /\ Sqls(sync_sqls) \in Seq(AP!Row)
         /\ Len(Sqls(sync_sqls)) = Len(sync_sqls)
         /\ \A i \in 1 .. Len(sync_sqls) :
              Sqls(sync_sqls)[i] = Stmt[sync_sqls[i][1]][sync_sqls[i][2]]
<1>1. sync_sqls \in Seq(Nat \X Nat) /\ \A i \in 1 .. Len(sync_sqls) : IsRow(sync_sqls[i])
  BY RowIs DEF RInv, TypeOK, RowsAreCommitted
<1> QED
  BY <1>1, SqlsOf

(* which are framed as the apply thread expects them.                      *)
LEMMA FramedForApply ==
  ASSUME RInv
  PROVE  AP!LogIsFramed
<1> DEFINE s == Sqls(sync_sqls)
           L == Len(sync_sqls)
<1>1. /\ s \in Seq(AP!Row) /\ Len(s) = L /\ L \in Nat /\ DOMAIN s = 1 .. L
      /\ DOMAIN sync_sqls = 1 .. L
      /\ \A i \in 1 .. L : s[i] = Stmt[sync_sqls[i][1]][sync_sqls[i][2]]
  BY SqlsAre, RowIs, LenProperties
<1>2. \A i \in 1 .. L : /\ s[i].op = "begin" <=> sync_sqls[i][2] = 1
                        /\ s[i].op = "commit" <=> IsCommit(sync_sqls[i])
  <2> SUFFICES ASSUME NEW i \in 1 .. L
               PROVE  /\ s[i].op = "begin" <=> sync_sqls[i][2] = 1
                      /\ s[i].op = "commit" <=> IsCommit(sync_sqls[i])
    OBVIOUS
  <2> DEFINE t == sync_sqls[i][1]
             k == sync_sqls[i][2]
  <2>1. t \in Txn /\ k \in 1 .. NRow(t) /\ s[i] = Stmt[t][k]
    BY <1>1, RowIs
  <2> HIDE DEF t, k, s
  <2>2. /\ k = 1 <=> Stmt[t][k].op = "begin"
        /\ k = NRow(t) <=> Stmt[t][k].op = "commit"
    BY <2>1, RowStmt
  <2> QED
    BY <2>1, <2>2 DEF IsCommit, t, k
<1>3. s # <<>> => sync_sqls # <<>> /\ L \in 1 .. L
  <2>1. L = 0 => s = <<>>
    BY <1>1, EmptySeq
  <2>2. sync_sqls = <<>> => L = 0
    BY EmptySeq
  <2> QED
    BY <1>1, <2>1, <2>2
<1> HIDE DEF s
<1>4. s # <<>> => s[Len(s)].op = "commit"
  BY <1>1, <1>2, <1>3 DEF RInv, RowsAreFramed
<1>5. ASSUME NEW i \in 1 .. L, s[i].op = "begin"
      PROVE  i = 1 \/ s[i - 1].op = "commit"
  <2>1. i > 1 => IsCommit(sync_sqls[i - 1])
    BY <1>1, <1>2, <1>5 DEF RInv, RowsAreFramed
  <2>2. i > 1 => i - 1 \in 1 .. L
    BY <1>1
  <2> QED
    BY <1>1, <1>2, <2>1, <2>2
<1> QED
  BY <1>1, <1>4, <1>5 DEF s, AP!LogIsFramed

-----------------------------------------------------------------------------
(* No FETCH is refused here, so the target's transaction is open only from *)
(* its first statement to its commit, and no statement is lost.            *)
TxIsClosed ==
  /\ (apc = "fetch" => sqltype \in {"begin", "commit"}) => tx = target
  /\ ~lost

(* The apply thread's invariant, but for what it has applied.              *)
AInv == AP!TypeOK /\ AP!PositionsAreOrdered /\ AP!TxIsTarget /\ TxIsClosed

(* It holds when the thread is started for the first time.                 *)
LEMMA AInvInitially == A!Init => AInv
<1> SUFFICES ASSUME A!Init PROVE AInv
  OBVIOUS
<1>1. AP!Init
  BY SameInit
<1>2. AP!TypeOK
  BY <1>1, ApplyAssumption, AP!InitTypeOK
<1>3. AP!PositionsAreOrdered /\ AP!TxIsTarget
  BY <1>1 DEF AP!Init, AP!PositionsAreOrdered, AP!TxIsTarget
<1>4. TxIsClosed
  BY <1>1 DEF AP!Init, TxIsClosed
<1> QED
  BY <1>2, <1>3, <1>4 DEF AInv

(* A transaction opens with its first statement and closes with its        *)
(* commit, and what a duplicate makes the thread leave out the target has. *)
LEMMA ClosedRun ==
  ASSUME RInv, AInv, AP!Run
  PROVE  TxIsClosed'
<1>0. /\ AP!LogIsFramed /\ AP!TypeOK /\ AP!PositionsAreOrdered /\ AP!TxIsTarget
      /\ TxIsClosed
  BY FramedForApply DEF AInv
<1>1. CASE AP!Declare
  BY <1>0, <1>1 DEF AP!Declare, TxIsClosed
<1>2. CASE AP!FetchNothing
  <2>1. apc = "fetch" /\ cursor.next > cursor.last /\ UNCHANGED <<tx, target, lost>>
    BY <1>2 DEF AP!FetchNothing
  <2>2. sqltype \in {"begin", "commit"}
    BY <1>0, <2>1, ApplyAssumption, AP!NothingOpen
  <2> QED
    BY <1>0, <2>1, <2>2 DEF TxIsClosed
<1>3. CASE AP!ExecBegin
  <2>1. /\ AP!Fetching /\ AP!fetched.op = "begin" /\ apc = "fetch"
        /\ UNCHANGED <<tx, target, lost>>
    BY <1>3 DEF AP!ExecBegin, AP!Fetching
  <2>2. sqltype \in {"begin", "commit"}
    BY <1>0, <2>1, ApplyAssumption, AP!NothingOpen
  <2> QED
    BY <1>0, <2>1, <2>2 DEF TxIsClosed
<1>4. CASE AP!ExecStatement
  <2>1. apc' = "fetch" /\ sqltype' \in {"first", "other"} /\ lost' = lost
    BY <1>4 DEF AP!ExecStatement, AP!Fetching
  <2> QED
    BY <1>0, <2>1 DEF TxIsClosed
<1>5. CASE AP!SkipDuplicate
  <2>1. /\ apc = "fetch" /\ sqltype = "begin" /\ AP!Duplicate(tx, AP!fetched)
        /\ tx' = target /\ target' = target
        /\ lost' = (lost \/ ~AP!Duplicate(target, AP!fetched))
    BY <1>5 DEF AP!SkipDuplicate, AP!Fetching, AP!TypeOf
  <2>2. tx = target /\ ~lost
    BY <1>0, <2>1 DEF TxIsClosed
  <2> QED
    BY <2>1, <2>2 DEF TxIsClosed
<1>6. CASE AP!ExecCommit
  BY <1>0, <1>6 DEF AP!ExecCommit, TxIsClosed
<1>7. CASE AP!DuplicateExit \/ AP!AbortExit
  BY <1>0, <1>7 DEF AP!DuplicateExit, AP!AbortExit, AP!Exit, TxIsClosed
<1> QED
  BY <1>1, <1>2, <1>3, <1>4, <1>5, <1>6, <1>7 DEF AP!Run

(* The apply thread keeps it.                                              *)
LEMMA AInvRun ==
  ASSUME RInv, AInv, A!Run
  PROVE  AInv'
<1>1. AP!Run
  BY SameRun
<1>2. AP!Next
  BY <1>1 DEF AP!Next
<1>3. [AP!Next]_AP!vars
  BY <1>2
<1>4. AP!LogIsFramed /\ AP!TypeOK /\ AP!PositionsAreOrdered /\ AP!TxIsTarget
  BY FramedForApply DEF AInv
<1>5. AP!TypeOK'
  BY <1>3, <1>4, ApplyAssumption, AP!NextTypeOK
<1>6. AP!PositionsAreOrdered'
  BY <1>3, <1>4, ApplyAssumption, AP!PositionsStep
<1>7. AP!TxIsTarget'
  BY <1>3, <1>4, ApplyAssumption, AP!TxStep
<1> QED
  BY <1>1, <1>5, <1>6, <1>7, ClosedRun DEF AInv

(* The receive thread appends rows.                                        *)
LEMMA RowsGrow ==
  ASSUME RInv, RInv', [Next]_vars
  PROVE  /\ Len(sync_sqls) \in Nat /\ Len(sync_sqls') \in Nat
         /\ Len(sync_sqls) <= Len(sync_sqls')
         /\ \A i \in 1 .. Len(sync_sqls) : sync_sqls'[i] = sync_sqls[i]
         /\ Sqls(sync_sqls') \in Seq(AP!Row)
         /\ Len(Sqls(sync_sqls')) = Len(sync_sqls')
         /\ \A i \in 1 .. Len(sync_sqls) : Sqls(sync_sqls')[i] = Sqls(sync_sqls)[i]
<1> DEFINE s == sync_sqls
           all == sync_sqls'
<1>1. s \in Seq(Nat \X Nat) /\ ltx \in Seq(Nat \X Nat) /\ all \in Seq(Nat \X Nat)
  BY DEF RInv, TypeOK
<1>2. Len(s) \in Nat /\ Len(ltx) \in Nat /\ Len(all) \in Nat /\ DOMAIN all = 1 .. Len(all)
  BY <1>1, LenProperties
<1>3. Len(s) <= Len(all) /\ \A i \in 1 .. Len(s) : all[i] = s[i]
  <2>1. CASE UNCHANGED sync_sqls
    BY <1>2, <2>1
  <2>2. CASE sync_sqls' = sync_sqls \o ltx
    <3> DEFINE b == ltx
    <3>1. s \in Seq(Nat \X Nat) /\ b \in Seq(Nat \X Nat) /\ all = s \o b
      BY <1>1, <2>2
    <3> HIDE DEF s, b, all
    <3>2. Len(s \o b) = Len(s) + Len(b) /\ \A i \in 1 .. Len(s) : (s \o b)[i] = s[i]
      BY <3>1, ConcatRows
    <3> QED
      BY <1>2, <3>1, <3>2 DEF b
  <2> QED
    BY <2>1, <2>2, OnlyEnd
<1>4. \A i \in 1 .. Len(all) : IsRow(all[i])
  BY <1>2 DEF RInv, RowsAreCommitted
<1> HIDE DEF all
<1>5. /\ Sqls(all) \in Seq(AP!Row) /\ Len(Sqls(all)) = Len(all)
      /\ \A i \in 1 .. Len(all) : Sqls(all)[i] = Stmt[all[i][1]][all[i][2]]
  BY <1>1, <1>4, SqlsOf
<1>6. ASSUME NEW i \in 1 .. Len(s) PROVE Sqls(all)[i] = Sqls(s)[i]
  <2>1. i \in 1 .. Len(all) /\ all[i] = s[i]
    BY <1>2, <1>3
  <2>2. Sqls(s)[i] = Stmt[s[i][1]][s[i][2]]
    BY SqlsAre
  <2> QED
    BY <1>5, <2>1, <2>2
<1> QED
  BY <1>2, <1>3, <1>5, <1>6 DEF all

(* What the apply thread knows stays true of them.                         *)
LEMMA AInvGrows ==
  ASSUME RInv, RInv', AInv, [Next]_vars, UNCHANGED applyVars
  PROVE  AInv'
<1> DEFINE q == Sqls(sync_sqls)
           all == Sqls(sync_sqls')
<1>1. /\ Len(q) \in Nat /\ Len(all) \in Nat /\ Len(q) <= Len(all)
      /\ all \in Seq(AP!Row)
      /\ \A i \in 1 .. Len(q) : all[i] = q[i]
  BY RowsGrow, SqlsAre
<1>2. Sqls(sync_sqls)' = all
  BY DEF Sqls
<1>3. AP!TypeOK /\ AP!PositionsAreOrdered /\ AP!TxIsTarget /\ TxIsClosed
  BY DEF AInv
<1>4. /\ cursor.next \in Nat \ {0} /\ cursor.last \in 0 .. Len(q)
      /\ cursor \in [next : Nat \ {0}, last : 0 .. Len(q)]
  BY <1>3 DEF AP!TypeOK
<1>5. /\ 0 .. Len(q) \subseteq 0 .. Len(all)
      /\ cursor \in [next : Nat \ {0}, last : 0 .. Len(all)]
  BY <1>1, <1>4
<1>6. time_to_abort' \in BOOLEAN
  BY DEF RInv, TypeOK
<1> USE DEF applyVars
<1>7. AP!TypeOK'
  <2>1. Sqls(sync_sqls)' \in Seq(AP!Statement \union {AP!BeginRow, AP!CommitRow})
    BY <1>1, <1>2 DEF AP!Row
  <2> HIDE DEF q, all
  <2>2. /\ apply_id' \in 0 .. Len(Sqls(sync_sqls)') /\ status_id' \in 0 .. Len(Sqls(sync_sqls)')
        /\ cursor' \in [next : Nat \ {0}, last : 0 .. Len(Sqls(sync_sqls)')]
    BY <1>2, <1>3, <1>5 DEF AP!TypeOK, q
  <2>3. (crashes > 0)' \in BOOLEAN
    OBVIOUS
  <2> QED
    BY <1>3, <1>6, <2>1, <2>2, <2>3 DEF AP!TypeOK, AP!Db
<1>8. AP!PositionsAreOrdered'
  <2>1. cursor.last > 0 => all[cursor.last] = q[cursor.last]
    BY <1>1, <1>4
  <2> HIDE DEF q, all
  <2> QED
    BY <1>2, <1>3, <2>1 DEF AP!PositionsAreOrdered, q
<1>10. (crashes > 0) => (crashes > 0)'
  BY DEF RInv, TypeOK, Next, Step, Idle, SourceCommit, Connect, ReceiveMessage,
     FeedbackAfterMessage, Keepalive, IdleFeedback, StreamBreaks, ConnectFails, StageRow,
     EndLocal, StageFails, EndFails, StopOnAbort, Abort, Restart, FeedbackFailed, vars, faults
<1>9. AP!TxIsTarget'
  <2>1. apc = "fetch" => cursor.next - 1 \in 0 .. Len(q)
    BY <1>1, <1>3, <1>4 DEF AP!PositionsAreOrdered
  <2>2. apc = "fetch" /\ cursor.next > 1 => all[cursor.next - 1] = q[cursor.next - 1]
    BY <1>1, <1>4, <2>1
  <2>3. apply_id \in Nat
    BY <1>1, <1>3 DEF AP!TypeOK
  <2>4. cursor.next > apply_id + 1 => cursor.next > 1
    BY <1>4, <2>3
  <2> HIDE DEF q, all
  <2> QED
    BY <1>2, <1>3, <1>10, <2>2, <2>3, <2>4 DEF AP!TxIsTarget, q
<1>11. TxIsClosed'
  BY <1>3 DEF TxIsClosed
<1> QED
  BY <1>7, <1>8, <1>9, <1>11 DEF AInv

(* The process starts again.                                               *)
LEMMA AInvRestarts ==
  ASSUME RInv, RInv', AInv, ProcessRestart
  PROVE  AInv'
<1>1. AP!TypeOK /\ AP!PositionsAreOrdered /\ AP!TxIsTarget /\ TxIsClosed
  BY DEF AInv
<1>2. /\ sync_sqls' = sync_sqls /\ time_to_abort' = FALSE
      /\ target' = target \/ target' = tx
      /\ tx' = target' /\ apply_id' = status_id /\ status_id' = status_id
      /\ lost' = lost
      /\ cursor' = [next |-> 1, last |-> 0]
      /\ sqltype' = "begin" /\ n_commit' = 0 /\ apc' = "declare"
  BY DEF ProcessRestart, Restart
<1>3. Sqls(sync_sqls)' = Sqls(sync_sqls)
  BY <1>2 DEF Sqls
<1>4. Len(Sqls(sync_sqls)) \in Nat
  BY SqlsAre, RowIs
<1>5. AP!TypeOK'
  <2>1. cursor' \in [next : Nat \ {0}, last : 0 .. Len(Sqls(sync_sqls))]
    BY <1>2, <1>4
  <2>2. n_commit' \in 0 .. PersistEvery - 1
    BY <1>2, ApplyAssumption
  <2>3. target' \in AP!Db /\ tx' \in AP!Db
    BY <1>1, <1>2 DEF AP!TypeOK
  <2>4. (crashes > 0)' \in BOOLEAN
    OBVIOUS
  <2> QED
    BY <1>1, <1>2, <1>3, <2>1, <2>2, <2>3, <2>4 DEF AP!TypeOK, AP!Db
<1>6. AP!PositionsAreOrdered'
  <2>1. status_id' <= apply_id'
    <3>1. status_id \in Nat
      BY <1>1, <1>4 DEF AP!TypeOK
    <3> QED
      BY <1>2, <3>1
  <2> QED
    BY <1>2, <2>1 DEF AP!PositionsAreOrdered
<1>7. AP!TxIsTarget'
  BY <1>2 DEF AP!TxIsTarget
<1>8. TxIsClosed'
  BY <1>1, <1>2 DEF TxIsClosed
<1> QED
  BY <1>5, <1>6, <1>7, <1>8 DEF AInv

-----------------------------------------------------------------------------
(* What the target holds.                                                  *)

(* Where the source executed row i of sync_sqls, counted from its start.   *)
Place(i) == IF i = 0 THEN 0 ELSE Start(sync_sqls[i][1]) + sync_sqls[i][2]

(* Every key of db holds what it held at the source where the source       *)
(* executed row n of sync_sqls or a later one, or since.                   *)
NotBefore(db, n) ==
  \A key \in Key : \E i \in n .. Len(sync_sqls) :
    \E j \in Place(i) .. Len(History) : db[key] = SourceAt(committed, j)[key]

NotBehind ==
  /\ NotBefore(target, apply_id)
  /\ apc = "fetch" => NotBefore(tx, cursor.next - 1)

(* Row i was executed at its place on what was held there.                 *)
LEMMA PlaceIs ==
  ASSUME RInv, NEW i \in 1 .. Len(sync_sqls)
  PROVE  /\ Place(i) \in 1 .. Len(History) /\ Len(History) \in Nat
         /\ Sqls(sync_sqls)[i] \in AP!Row
         /\ SourceAt(committed, Place(i) - 1) \in AP!Db
         /\ SourceAt(committed, Place(i))
              = AP!Effect(SourceAt(committed, Place(i) - 1), Sqls(sync_sqls)[i])
         /\ Sqls(sync_sqls)[i] \in AP!Statement =>
              AP!Executable(SourceAt(committed, Place(i) - 1), Sqls(sync_sqls)[i])
<1> DEFINE t == sync_sqls[i][1]
           k == sync_sqls[i][2]
           r == Sqls(sync_sqls)[i]
<1>1. /\ t \in Txn /\ t <= committed /\ k \in 1 .. NRow(t) /\ committed \in 0 .. NTxn
      /\ i # 0 /\ r = Stmt[t][k]
  <2>1. /\ t \in Txn /\ t <= committed /\ k \in 1 .. NRow(t) /\ committed \in 0 .. NTxn /\ i # 0
    BY RowIs
  <2>2. r = Stmt[t][k]
    BY SqlsAre
  <2> QED
    BY <2>1, <2>2
<1>2. Place(i) = Start(t) + k
  BY <1>1 DEF Place
<1>3. Start(t) \in Nat /\ NRow(t) \in Nat
  BY <1>1, StartIs
<1> HIDE DEF t, k, r
<1>4. Place(i) - 1 = Start(t) + k - 1
  BY <1>1, <1>2, <1>3
<1>5. /\ Start(t) + k \in 1 .. Len(HistoryTo(committed)) /\ Len(HistoryTo(committed)) \in Nat
      /\ Stmt[t][k] \in AP!Row
      /\ SourceAt(committed, Start(t) + k - 1) \in AP!Db
      /\ SourceAt(committed, Start(t) + k)
           = AP!Effect(SourceAt(committed, Start(t) + k - 1), Stmt[t][k])
      /\ Stmt[t][k] \in AP!Statement =>
           AP!Executable(SourceAt(committed, Start(t) + k - 1), Stmt[t][k])
  BY <1>1, SourceRow
<1> HIDE DEF Place, SourceAt
<1> QED
  BY <1>1, <1>2, <1>4, <1>5 DEF History, r

(* The next row was executed no later than behind the one before it.       *)
LEMMA PlaceNext ==
  ASSUME RInv, NEW i \in 1 .. Len(sync_sqls)
  PROVE  Place(i - 1) \in Nat /\ Place(i) <= Place(i - 1) + 1
<1> DEFINE t == sync_sqls[i][1]
           k == sync_sqls[i][2]
           u == sync_sqls[i - 1][1]
           m == sync_sqls[i - 1][2]
<1>0. Len(sync_sqls) \in Nat /\ DOMAIN sync_sqls = 1 .. Len(sync_sqls)
  BY RowIs
<1>1. t \in Txn /\ k \in 1 .. NRow(t) /\ Start(t) \in Nat /\ NRow(t) \in Nat
  BY RowIs, StartIs
<1>2. Place(i) = Start(t) + k
  BY DEF Place
<1>3. i # 1 => /\ i - 1 \in 1 .. Len(sync_sqls) /\ u \in Txn /\ m \in 1 .. NRow(u)
               /\ Start(u) \in Nat /\ NRow(u) \in Nat
  <2>1. i # 1 => i - 1 \in 1 .. Len(sync_sqls)
    BY <1>0
  <2> QED
    BY <2>1, RowIs, StartIs
<1>4. i # 1 => Place(i - 1) = Start(u) + m
  BY DEF Place
<1>5. IF k = 1 THEN (i > 1 => IsCommit(sync_sqls[i - 1])) /\ t <= Before(i) + 1
              ELSE i > 1 /\ sync_sqls[i - 1] = <<t, k - 1>>
  BY <1>0 DEF RInv, RowsAreFramed
<1>6. CASE i = 1
  <2>1. k = 1 /\ t <= 1 /\ Place(i - 1) = 0
    BY <1>5, <1>6 DEF Before, Place
  <2>2. Start(t) = 0
    <3>1. t = 1
      BY <1>1, <2>1 DEF Txn
    <3>2. Len(HistoryTo(0)) = 0
      BY HistoryNext, EmptySeq
    <3> QED
      BY <3>1, <3>2 DEF Start
  <2> QED
    BY <1>2, <2>1, <2>2
<1>7. CASE i # 1 /\ k = 1
  <2>1. m = NRow(u) /\ t <= u + 1
    BY <1>0, <1>5, <1>7 DEF IsCommit, Before
  <2>2. Start(t) <= Start(u) + NRow(u)
    BY <1>1, <1>3, <1>7, <2>1, StartsInOrder
  <2>3. Place(i) = Start(t) + 1 /\ Place(i - 1) = Start(u) + NRow(u)
    BY <1>2, <1>4, <1>7, <2>1
  <2>4. Start(t) \in Nat /\ Start(u) \in Nat /\ NRow(u) \in Nat
    BY <1>1, <1>3, <1>7
  <2> HIDE DEF t, k, u, m, Place
  <2> QED
    BY ONLY <2>2, <2>3, <2>4, SMT
<1>8. CASE i # 1 /\ k # 1
  <2>1. u = t /\ m = k - 1
    BY <1>5, <1>8
  <2> HIDE DEF t, k, u, m, Place
  <2> QED
    BY <1>1, <1>2, <1>3, <1>4, <1>8, <2>1
<1> QED
  BY <1>6, <1>7, <1>8

(* From one row to the next.                                               *)
LEMMA NotBeforeNext ==
  ASSUME RInv, NEW i \in 1 .. Len(sync_sqls), NEW db, NEW new, NotBefore(db, i - 1),
         \A key \in Key :
           \/ new[key] = SourceAt(committed, Place(i))[key]
           \/ /\ new[key] = db[key]
              /\ db[key] # SourceAt(committed, Place(i) - 1)[key]
  PROVE  NotBefore(new, i)
<1> DEFINE L == Len(sync_sqls)
           H == Len(History)
           P(n) == Place(n)
           S(n) == SourceAt(committed, n)
<1>1. L \in Nat /\ H \in Nat /\ P(i) \in 1 .. H /\ P(i - 1) \in Nat /\ P(i) <= P(i - 1) + 1
  BY RowIs, PlaceIs, PlaceNext
<1> SUFFICES ASSUME NEW key \in Key
             PROVE  \E n \in i .. L : \E j \in P(n) .. H : new[key] = S(j)[key]
  BY DEF NotBefore
<1>2. PICK n \in i - 1 .. L : \E j \in P(n) .. H : db[key] = S(j)[key]
  BY DEF NotBefore
<1>3. PICK j \in P(n) .. H : db[key] = S(j)[key]
  BY <1>2
<1>4. new[key] = S(P(i))[key] \/ (new[key] = db[key] /\ db[key] # S(P(i) - 1)[key])
  OBVIOUS
<1> HIDE DEF L, H, P, S
<1>5. i \in i .. L
  BY <1>1 DEF L
<1>6. CASE new[key] = S(P(i))[key]
  <2>1. P(i) \in P(i) .. H
    BY <1>1
  <2> QED
    BY <1>5, <1>6, <2>1
<1>7. CASE new[key] = db[key] /\ db[key] # S(P(i) - 1)[key]
  <2>1. CASE n = i - 1
    <3>1. j # P(i) - 1
      BY <1>3, <1>7
    <3>2. j \in P(i) .. H
      BY <1>1, <1>3, <2>1, <3>1
    <3> QED
      BY <1>3, <1>5, <1>7, <3>2
  <2>2. CASE n # i - 1
    <3>1. n \in i .. L
      BY <1>1, <2>2
    <3> QED
      BY <1>3, <1>7, <3>1
  <2> QED
    BY <2>1, <2>2
<1> QED
  BY <1>4, <1>6, <1>7

(* Not before n is not before any m below n.                               *)
LEMMA NotBeforeLess ==
  ASSUME NEW db, NEW m \in Nat, NEW n \in Nat, m <= n, Len(sync_sqls) \in Nat,
         NotBefore(db, n)
  PROVE  NotBefore(db, m)
<1>1. n .. Len(sync_sqls) \subseteq m .. Len(sync_sqls)
  OBVIOUS
<1> QED
  BY <1>1 DEF NotBefore

(* More rows and more transactions change nothing.                         *)
LEMMA NotBeforeGrows ==
  ASSUME RInv, RInv', [Next]_vars, NEW db, NEW n \in Nat, NotBefore(db, n)
  PROVE  \A key \in Key : \E i \in n .. Len(sync_sqls') :
           \E j \in Place(i)' .. Len(HistoryTo(committed')) :
             db[key] = SourceAt(committed', j)[key]
<1>1. /\ Len(sync_sqls) \in Nat /\ Len(sync_sqls') \in Nat
      /\ Len(sync_sqls) <= Len(sync_sqls')
      /\ \A i \in 1 .. Len(sync_sqls) : sync_sqls'[i] = sync_sqls[i]
  BY RowsGrow
<1>2. /\ committed \in 0 .. NTxn /\ committed' \in 0 .. NTxn /\ committed <= committed'
  <2>1. UNCHANGED committed \/ committed' = committed + 1
    BY DEF Next, Step, Idle, SourceCommit, Connect, ReceiveMessage, FeedbackAfterMessage,
       Keepalive, IdleFeedback, StreamBreaks, ConnectFails, StageRow, EndLocal, StageFails,
       EndFails, StopOnAbort, Abort, Restart, vars, source
  <2> QED
    BY <2>1 DEF RInv, TypeOK
<1>3. /\ Len(HistoryTo(committed)) \in Nat /\ Len(HistoryTo(committed')) \in Nat
      /\ Len(HistoryTo(committed)) <= Len(HistoryTo(committed'))
      /\ \A i \in 0 .. Len(HistoryTo(committed)) :
           SourceAt(committed', i) = SourceAt(committed, i)
  BY <1>2, SourceStays
<1> SUFFICES ASSUME NEW key \in Key
             PROVE  \E i \in n .. Len(sync_sqls') :
                      \E j \in Place(i)' .. Len(HistoryTo(committed')) :
                        db[key] = SourceAt(committed', j)[key]
  OBVIOUS
<1>4. PICK i \in n .. Len(sync_sqls) :
        \E j \in Place(i) .. Len(HistoryTo(committed)) :
          db[key] = SourceAt(committed, j)[key]
  BY DEF NotBefore, History
<1>5. PICK j \in Place(i) .. Len(HistoryTo(committed)) :
        db[key] = SourceAt(committed, j)[key]
  BY <1>4
<1>6. i \in n .. Len(sync_sqls') /\ (i # 0 => i \in 1 .. Len(sync_sqls))
  BY <1>1
<1>7. Place(i)' = Place(i)
  BY <1>1, <1>6 DEF Place
<1>8. Place(i) \in Nat
  <2>1. i = 0 => Place(i) = 0
    BY DEF Place
  <2>2. i # 0 => Place(i) \in Nat
    BY <1>6, PlaceIs
  <2> QED
    BY <2>1, <2>2
<1>9. j \in 0 .. Len(HistoryTo(committed)) /\ j \in Place(i)' .. Len(HistoryTo(committed'))
  BY <1>3, <1>7, <1>8
<1> QED
  BY <1>3, <1>5, <1>6, <1>9

(* The row that is fetched, in terms of the source.                        *)
LEMMA FetchedIs ==
  ASSUME RInv, AInv, AP!Fetching, "move" \notin Ops
  PROVE  /\ cursor.next \in 1 .. Len(sync_sqls)
         /\ AP!fetched \in AP!Row /\ AP!fetched.op # "move"
         /\ AP!fetched = Sqls(sync_sqls)[cursor.next]
         /\ AP!TypeOf(AP!fetched) \in {"first", "other"} => AP!fetched \in AP!Statement
         /\ AP!fetched.op \in {"begin", "commit"} => \A db : AP!Effect(db, AP!fetched) = db
<1>1. AP!TypeOK
  BY DEF AInv
<1>2. /\ cursor.next \in 1 .. Len(Sqls(sync_sqls)) /\ AP!fetched \in AP!Row
  BY <1>1, ApplyAssumption, AP!FetchedRow
<1>3. /\ AP!TypeOf(AP!fetched) \in {"first", "other"} => AP!fetched \in AP!Statement
      /\ AP!fetched.op \in {"begin", "commit"} => \A db : AP!Effect(db, AP!fetched) = db
  BY <1>1, ApplyAssumption, AP!FetchedKind
<1>4. AP!fetched.op # "move"
  <2>1. AP!fetched \in AP!Statement => AP!fetched.op \in Ops
    BY DEF AP!Statement
  <2>2. AP!fetched \notin AP!Statement => AP!fetched.op \in {"begin", "commit"}
    BY <1>2, ApplyAssumption, AP!RowKinds
  <2> QED
    BY <2>1, <2>2
<1>5. AP!fetched = Sqls(sync_sqls)[cursor.next]
  BY DEF AP!fetched
<1>6. Len(Sqls(sync_sqls)) = Len(sync_sqls)
  BY SqlsAre
<1> QED
  BY <1>2, <1>3, <1>4, <1>5, <1>6

(* What executing it, or leaving it out, makes of the transaction.         *)
LEMMA ExecutedIsNotBefore ==
  ASSUME RInv, AInv, AP!Fetching, "move" \notin Ops, NotBefore(tx, cursor.next - 1)
  PROVE  /\ NotBefore(AP!Effect(tx, AP!fetched), cursor.next)
         /\ AP!fetched \in AP!Statement /\ AP!Duplicate(tx, AP!fetched) =>
              NotBefore(tx, cursor.next)
<1> DEFINE i == cursor.next
           r == AP!fetched
           at == SourceAt(committed, Place(i) - 1)
<1>1. /\ i \in 1 .. Len(sync_sqls) /\ r \in AP!Row /\ r.op # "move"
      /\ r = Sqls(sync_sqls)[i]
  BY FetchedIs
<1>2. /\ at \in AP!Db
      /\ SourceAt(committed, Place(i)) = AP!Effect(at, r)
      /\ r \in AP!Statement => AP!Executable(at, r)
  BY <1>1, PlaceIs
<1>3. tx \in AP!Db
  BY DEF AInv, AP!TypeOK
<1> HIDE DEF i, r
<1>4. NotBefore(AP!Effect(tx, r), i)
  <2> DEFINE new == AP!Effect(tx, r)
  <2> HIDE DEF at
  <2>1. ASSUME NEW key \in Key
        PROVE  \/ new[key] = AP!Effect(at, r)[key]
               \/ new[key] = tx[key] /\ tx[key] # at[key]
    BY <1>1, <1>2, <1>3, ApplyAssumption, AP!EffectCatchesUp
  <2> HIDE DEF new
  <2>2. \A key \in Key :
          \/ new[key] = SourceAt(committed, Place(i))[key]
          \/ /\ new[key] = tx[key]
             /\ tx[key] # SourceAt(committed, Place(i) - 1)[key]
    BY <1>2, <2>1 DEF at
  <2>3. NotBefore(tx, i - 1)
    BY DEF i
  <2>4. NotBefore(new, i)
    BY <1>1, <2>2, <2>3, NotBeforeNext
  <2> QED
    BY <2>4 DEF new
<1>5. ASSUME r \in AP!Statement, AP!Duplicate(tx, r) PROVE NotBefore(tx, i)
  <2> HIDE DEF at
  <2>1. ASSUME NEW key \in Key
        PROVE  tx[key] = AP!Effect(at, r)[key] \/ tx[key] # at[key]
    BY <1>1, <1>2, <1>3, <1>5, ApplyAssumption, AP!SkipCatchesUp
  <2>2. \A key \in Key :
          \/ tx[key] = SourceAt(committed, Place(i))[key]
          \/ /\ tx[key] = tx[key]
             /\ tx[key] # SourceAt(committed, Place(i) - 1)[key]
    BY <1>2, <2>1 DEF at
  <2>3. NotBefore(tx, i - 1)
    BY DEF i
  <2> QED
    BY <1>1, <2>2, <2>3, NotBeforeNext
<1> QED
  BY <1>4, <1>5 DEF i, r

(* The apply thread moves on, and no key falls behind.                     *)
LEMMA BehindRun ==
  ASSUME RInv, AInv, NotBehind, UNCHANGED receiveVars, A!Run, "move" \notin Ops
  PROVE  NotBehind'
<1>0. /\ Len(sync_sqls) \in Nat /\ Len(Sqls(sync_sqls)) = Len(sync_sqls)
      /\ AP!TypeOK /\ AP!PositionsAreOrdered /\ TxIsClosed
  BY RowIs, SqlsAre DEF AInv
<1>1. cursor.next \in Nat /\ apply_id \in Nat
  BY <1>0 DEF AP!TypeOK
<1>2. AP!Run
  BY SameRun
<1>3. ASSUME NEW db, NEW n PROVE NotBefore(db, n) => (\A d, m : d = db /\ m = n => NotBefore(d, m)')
  BY DEF NotBefore, Place, History, receiveVars, source, local
<1>4. /\ NotBefore(target, apply_id)
      /\ apc = "fetch" => NotBefore(tx, cursor.next - 1)
  BY DEF NotBehind
<1> SUFFICES /\ NotBefore(target', apply_id')
             /\ apc' = "fetch" => NotBefore(tx', cursor'.next - 1)
  BY DEF NotBehind, NotBefore, Place, History, receiveVars, source, local
<1>5. CASE AP!Declare
  <2>1. tx = target
    BY <1>0, <1>5 DEF AP!Declare, TxIsClosed
  <2>2. cursor'.next - 1 = apply_id
    BY <1>1, <1>5 DEF AP!Declare
  <2> QED
    BY <1>4, <1>5, <2>1, <2>2 DEF AP!Declare
<1>6. CASE AP!FetchNothing
  BY <1>4, <1>6 DEF AP!FetchNothing
<1>7. ASSUME AP!Advance PROVE cursor'.next - 1 = cursor.next
  <2>1. cursor'.next = cursor.next + 1
    BY <1>0, <1>7, ApplyAssumption, AP!AdvanceFacts
  <2> QED
    BY <1>1, <2>1
<1>8. AP!Fetching /\ AP!fetched.op \in {"begin", "commit"} => NotBefore(tx, cursor.next)
  BY <1>4, FetchedIs, ExecutedIsNotBefore DEF AP!Fetching
<1>9. CASE AP!ExecBegin
  BY <1>4, <1>7, <1>8, <1>9 DEF AP!ExecBegin
<1>10. CASE AP!ExecStatement
  <2>1. NotBefore(AP!Effect(tx, AP!fetched), cursor.next)
    BY <1>4, <1>10, ExecutedIsNotBefore DEF AP!ExecStatement, AP!Fetching
  <2> QED
    BY <1>4, <1>7, <1>10, <2>1 DEF AP!ExecStatement
<1>11. CASE AP!SkipDuplicate
  <2>1. AP!Fetching /\ AP!TypeOf(AP!fetched) = "first" /\ AP!Duplicate(tx, AP!fetched)
        /\ AP!Advance /\ tx' = target /\ UNCHANGED <<target, apply_id, apc>>
    BY <1>11 DEF AP!SkipDuplicate
  <2>2. tx = target
    BY <1>0, <2>1 DEF AP!TypeOf, AP!Fetching, TxIsClosed
  <2>3. NotBefore(tx, cursor.next)
    BY <1>4, <2>1, FetchedIs, ExecutedIsNotBefore DEF AP!Fetching
  <2> QED
    BY <1>4, <1>7, <2>1, <2>2, <2>3
<1>12. CASE AP!ExecCommit
  BY <1>7, <1>8, <1>12 DEF AP!ExecCommit
<1>13. CASE AP!DuplicateExit \/ AP!AbortExit
  BY <1>4, <1>13 DEF AP!DuplicateExit, AP!AbortExit, AP!Exit
<1> QED
  BY <1>2, <1>5, <1>6, <1>9, <1>10, <1>11, <1>12, <1>13 DEF AP!Run

(* Nor by what the receive thread stages and the source commits.           *)
LEMMA BehindGrows ==
  ASSUME RInv, RInv', AInv, NotBehind, [Next]_vars, UNCHANGED applyVars
  PROVE  NotBehind'
<1>1. apply_id \in Nat /\ (apc = "fetch" => cursor.next - 1 \in Nat)
  <2>1. /\ apply_id \in Nat /\ cursor.next \in Nat \ {0}
    BY SqlsAre, RowIs DEF AInv, AP!TypeOK
  <2> QED
    BY <2>1
<1>2. /\ NotBefore(target, apply_id)
      /\ apc = "fetch" => NotBefore(tx, cursor.next - 1)
  BY DEF NotBehind
<1>3. NotBefore(target, apply_id)'
  <2>1. \A key \in Key : \E i \in apply_id .. Len(sync_sqls') :
           \E j \in Place(i)' .. Len(HistoryTo(committed')) :
             target[key] = SourceAt(committed', j)[key]
    BY <1>1, <1>2, NotBeforeGrows
  <2> QED
    BY <2>1 DEF applyVars, NotBefore, History
<1>4. apc = "fetch" => NotBefore(tx, cursor.next - 1)'
  <2> SUFFICES ASSUME apc = "fetch" PROVE NotBefore(tx, cursor.next - 1)'
    OBVIOUS
  <2>1. \A key \in Key : \E i \in cursor.next - 1 .. Len(sync_sqls') :
           \E j \in Place(i)' .. Len(HistoryTo(committed')) :
             tx[key] = SourceAt(committed', j)[key]
    BY <1>1, <1>2, NotBeforeGrows
  <2> QED
    BY <2>1 DEF applyVars, NotBefore, History
<1> QED
  BY <1>3, <1>4 DEF NotBehind, applyVars

(* Nor by a restart, which goes back to what was written of apply_id.      *)
LEMMA BehindRestarts ==
  ASSUME RInv, RInv', AInv, NotBehind, ProcessRestart
  PROVE  NotBehind'
<1>0. /\ Len(sync_sqls) \in Nat /\ Len(Sqls(sync_sqls)) = Len(sync_sqls)
      /\ AP!TypeOK /\ AP!PositionsAreOrdered
  BY RowIs, SqlsAre DEF AInv
<1>1. /\ status_id \in Nat /\ apply_id \in Nat /\ cursor.next \in Nat \ {0}
      /\ status_id <= apply_id
      /\ apc = "fetch" => apply_id < cursor.next
  BY <1>0 DEF AP!TypeOK, AP!PositionsAreOrdered
<1>2. /\ NotBefore(target, apply_id)
      /\ apc = "fetch" => NotBefore(tx, cursor.next - 1)
  BY DEF NotBehind
<1>3. NotBefore(target, status_id)
  BY <1>0, <1>1, <1>2, NotBeforeLess
<1>4. apc = "fetch" => NotBefore(tx, status_id)
  <2> SUFFICES ASSUME apc = "fetch" PROVE NotBefore(tx, status_id)
    OBVIOUS
  <2>1. cursor.next - 1 \in Nat /\ status_id <= cursor.next - 1 /\ NotBefore(tx, cursor.next - 1)
    BY <1>1, <1>2
  <2> QED
    BY <1>0, <1>1, <2>1, NotBeforeLess
<1>5. /\ target' = target \/ (apc = "fetch" /\ target' = tx)
      /\ apply_id' = status_id /\ apc' = "declare"
      /\ UNCHANGED <<sync_sqls, committed>>
  BY SameFetch DEF ProcessRestart, Restart, source, AP!Fetching
<1>6. NotBefore(target', apply_id')
  BY <1>3, <1>4, <1>5
<1>7. NotBefore(target, apply_id)'
  BY <1>5, <1>6 DEF NotBefore, Place, History
<1> QED
  BY <1>5, <1>7 DEF NotBehind

PInv == RInv /\ AInv /\ NotBehind

(* PInv holds at the start.                                                *)
LEMMA PInvInitially == PipelineInit => PInv
<1> SUFFICES ASSUME PipelineInit PROVE PInv
  OBVIOUS
<1>1. Init /\ A!Init /\ AP!Init
  BY SameInit DEF PipelineInit
<1>2. RInv /\ AInv
  BY <1>1, RInvInitially, AInvInitially
<1>3. committed = 0 /\ sync_sqls = <<>> /\ Len(sync_sqls) = 0
  BY <1>1 DEF Init
<1>4. Len(History) = 0 /\ Place(0) = 0
  BY <1>3, HistoryNext DEF History, Place
<1>5. SourceAt(0, 0) = AP!EmptyDb
  <2>1. SubSeq(HistoryTo(0), 1, 0) = <<>>
    BY SubSeqEmpty
  <2> QED
    BY <2>1, ApplyAssumption, AP!ReplayEmpty DEF SourceAt
<1>6. target = AP!EmptyDb /\ apply_id = 0 /\ apc = "declare"
  BY <1>1 DEF AP!Init
<1>7. NotBefore(target, 0)
  <2>1. 0 \in 0 .. 0 /\ target = SourceAt(0, 0)
    BY <1>5, <1>6
  <2> HIDE DEF SourceAt, Place, History
  <2> QED
    BY <1>3, <1>4, <2>1 DEF NotBefore
<1> QED
  BY <1>2, <1>6, <1>7 DEF PInv, NotBehind

(* Every step of the source, a thread or the process keeps PInv.           *)
LEMMA PInvStep ==
  ASSUME PInv, [PipelineNext]_<<vars, applyVars>>, MaxDrop = 0, "move" \notin Ops
  PROVE  PInv'
<1>0. RInv /\ AInv /\ NotBehind
  BY DEF PInv
<1>1. ASSUME [Next]_vars, UNCHANGED applyVars PROVE PInv'
  <2>1. RInv'
    BY <1>0, <1>1, RInvStep
  <2> QED
    BY <1>0, <1>1, <2>1, AInvGrows, BehindGrows DEF PInv
<1>2. CASE ReceiveSide
  <2>1. Next /\ UNCHANGED applyVars
    BY <1>2 DEF ReceiveSide, Next
  <2> QED
    BY <1>1, <2>1
<1>3. CASE ApplySide
  <2>1. UNCHANGED receiveVars /\ A!Run
    BY <1>3 DEF ApplySide
  <2>2. AInv'
    BY <1>0, <2>1, AInvRun
  <2>3. time_to_abort' \in BOOLEAN
    BY <2>2 DEF AInv, AP!TypeOK
  <2>4. RInv'
    BY <1>0, <2>1, <2>3, RInvKept
  <2>5. NotBehind'
    BY <1>0, <2>1, BehindRun
  <2> QED
    BY <2>2, <2>4, <2>5 DEF PInv
<1>4. CASE ProcessRestart
  <2>1. [Next]_vars
    BY <1>4 DEF ProcessRestart, Next
  <2>2. RInv'
    BY <1>0, <2>1, RInvStep
  <2> QED
    BY <1>0, <1>4, <2>2, AInvRestarts, BehindRestarts DEF PInv
<1>5. CASE UNCHANGED <<vars, applyVars>>
  <2>1. [Next]_vars /\ UNCHANGED applyVars
    BY <1>5
  <2> QED
    BY <1>1, <2>1
<1> QED
  BY <1>2, <1>3, <1>4, <1>5 DEF PipelineNext, Stopped

(* When the apply thread is at the end and the end is what the source      *)
(* committed last, there is one place left.                                *)
LEMMA AtTheEnd == PInv => TargetEqualsSource
<1> SUFFICES ASSUME PInv, InSync PROVE target = A!Replay(History)
  BY DEF TargetEqualsSource
<1> DEFINE L == Len(sync_sqls)
           h == HistoryTo(committed)
           H == Len(h)
<1>1. /\ RInv /\ AInv /\ NotBefore(target, apply_id) /\ sync_sqls # <<>>
      /\ sync_sqls[L] = <<committed, NRow(committed)>> /\ apply_id = L
  BY DEF PInv, NotBehind, InSync
<1>2. L \in Nat /\ L \in 1 .. L
  <2>1. L \in Nat /\ sync_sqls \in Seq(Nat \X Nat)
    BY <1>1, RowIs DEF RInv, TypeOK
  <2>2. L # 0
    BY <1>1, <2>1, EmptySeq
  <2> QED
    BY <2>1, <2>2
<1>3. committed \in Txn /\ sync_sqls[L][1] = committed /\ sync_sqls[L][2] = NRow(committed)
  BY <1>1, <1>2, RowIs
<1>4. Place(L) = H /\ H \in Nat
  <2>1. H = Start(committed) + NRow(committed) /\ Start(committed) \in Nat /\ NRow(committed) \in Nat
    BY <1>3, StartIs
  <2>2. Place(L) = Start(committed) + NRow(committed)
    BY <1>2, <1>3 DEF Place
  <2> QED
    BY <2>1, <2>2
<1>5. h \in Seq(AP!Row)
  BY <1>3, HistoryNext DEF Txn
<1> HIDE DEF h
<1>6. SourceAt(committed, H) = AP!Replay(h)
  <2>1. SubSeq(h, 1, H) = h
    BY <1>5, SubSeqFull
  <2> QED
    BY <2>1 DEF SourceAt, h
<1>7. AP!Replay(h) \in AP!Db /\ target \in AP!Db
  BY <1>1, <1>5, ApplyAssumption, AP!ReplayIsDb DEF AInv, AP!TypeOK
<1>8. ASSUME NEW key \in Key PROVE target[key] = AP!Replay(h)[key]
  <2>1. PICK i \in L .. L : \E j \in Place(i) .. H : target[key] = SourceAt(committed, j)[key]
    BY <1>1 DEF NotBefore, History, h
  <2>2. i = L
    BY <1>2, <2>1
  <2>3. PICK j \in H .. H : target[key] = SourceAt(committed, j)[key]
    BY <1>4, <2>1, <2>2
  <2>4. j = H
    BY <1>4, <2>3
  <2> QED
    BY <1>6, <2>3, <2>4
<1>9. target = AP!Replay(h)
  BY <1>7, <1>8 DEF AP!Db
<1> QED
  BY <1>9, SameEffects DEF History, h

(* From the source to the target: for any WAL, any workload that does not  *)
(* change keys, local commands that may be refused and any number of       *)
(* restarts, a target that the apply thread brought up to the last commit  *)
(* of the source holds what the source holds.  A stream that breaks within *)
(* a process can leave the first rows of a transaction in the open local   *)
(* one, in front of all of them: MaxDrop = 0 says that it does not.        *)
THEOREM SourceReachesTarget ==
  ASSUME MaxDrop = 0, "move" \notin Ops
  PROVE  PipelineSafety => []TargetEqualsSource
<1>1. PInv /\ [PipelineNext]_<<vars, applyVars>> => PInv'
  BY PInvStep
<1> QED
  BY PInvInitially, <1>1, AtTheEnd, PTL DEF PipelineSafety
=============================================================================
