----------------------------- MODULE Apply_proofs -----------------------------
(***************************************************************************)
(* Proofs about Apply, for any keys, values, workload and number of         *)
(* restarts and refusals.  At(n) is what the source held behind row n.     *)
(* The inductive invariant IInv says what the target shows of it.  Until   *)
(* rows are applied again it is At(apply_id) (NeverAgain).  Later, rows    *)
(* are applied that the target or the open transaction has seen before,    *)
(* and no single At(n) need be there: but every key, taken alone, holds    *)
(* what it held at the source behind some row from the thread's position   *)
(* on (NotBehind), and when the thread is at the end there is only one     *)
(* such row.                                                               *)
(***************************************************************************)
EXTENDS Apply, Induction, SequenceTheorems, TLAPS

Row == Statement \union {BeginRow, CommitRow}

(* What the source held behind row n.                                      *)
At(n) == Replay(SubSeq(sync_sqls, 1, n))

(* A transaction is complete in sync_sqls, and a begin row is its first.   *)
LogIsFramed ==
  /\ sync_sqls # <<>> => sync_sqls[Len(sync_sqls)].op = "commit"
  /\ \A i \in DOMAIN sync_sqls :
       sync_sqls[i].op = "begin" => i = 1 \/ sync_sqls[i - 1].op = "commit"

(* The source could execute every statement where it stands.               *)
LogIsExecutable ==
  \A i \in DOMAIN sync_sqls :
    sync_sqls[i] \in Statement => Executable(At(i - 1), sync_sqls[i])

(* The cursor ends at a commit row and runs ahead of apply_id, apply_id of *)
(* what is written.                                                        *)
PositionsAreOrdered ==
  /\ status_id <= apply_id
  /\ pc = "fetch" => apply_id < cursor.next /\ cursor.next <= cursor.last + 1
  /\ cursor.last > 0 => sync_sqls[cursor.last].op = "commit"

(* Between a statement and its commit row the transaction may show what is *)
(* not committed.  A refused FETCH there leaves it open behind the loop.   *)
TxIsTarget ==
  /\ pc = "fetch" /\ sqltype \notin {"begin", "commit"} =>
       cursor.next > apply_id + 1 /\ sync_sqls[cursor.next - 1].op # "commit"
  /\ pc = "stopped" => tx = target
  /\ ~again /\ (pc = "fetch" => sqltype \in {"begin", "commit"}) => tx = target

(* Until rows come again the thread executes what the source executed,     *)
(* where the source did.                                                   *)
NeverAgain ==
  ~again =>
    /\ pc # "stopped" => target = At(apply_id)
    /\ pc = "fetch" => tx = At(cursor.next - 1)

(* Every key of db holds what it held at the source behind row n or later. *)
NotBefore(db, n) == \A k \in Key : \E j \in n .. Len(sync_sqls) : db[k] = At(j)[k]

(* The target is not behind apply_id, nor behind the thread's position     *)
(* while a first statement may still be left out; the transaction is never *)
(* behind the position.                                                    *)
NotBehind ==
  KeysStay /\ ~lost =>
    /\ NotBefore(target, apply_id)
    /\ pc = "fetch" => NotBefore(tx, cursor.next - 1)
    /\ pc # "fetch" => NotBefore(tx, apply_id)
    /\ pc = "fetch" /\ sqltype \in {"begin", "commit"} => NotBefore(target, cursor.next - 1)

IInv ==
  /\ TypeOK
  /\ LogIsFramed
  /\ LogIsExecutable
  /\ PositionsAreOrdered
  /\ TxIsTarget
  /\ NeverAgain
  /\ NotBehind

-----------------------------------------------------------------------------
(* Statements and what they do.                                            *)

LEMMA EmptyDbIsDb == EmptyDb \in Db
BY DEF EmptyDb, Db

LEMMA EffectType ==
  ASSUME NEW db \in Db, NEW r \in Row
  PROVE  Effect(db, r) \in Db
<1> USE DEF Db
<1>1. CASE r \in Statement
  <2>1. r.op \in Ops /\ r.key \in Key
    BY <1>1 DEF Statement
  <2>2. r.op \in {"insert", "update"} => r.arg \in Value
    BY <1>1 DEF Statement
  <2>3. r.op = "move" => r.arg \in Key
    BY <1>1 DEF Statement
  <2> QED
    BY <2>1, <2>2, <2>3 DEF Effect
<1>2. CASE r \in {BeginRow, CommitRow}
  BY <1>2 DEF Effect, BeginRow, CommitRow, Sql
<1> QED
  BY <1>1, <1>2 DEF Row

LEMMA RowKinds ==
  ASSUME NEW r \in Row
  PROVE  /\ r \in Statement <=> r.op \notin {"begin", "commit"}
         /\ r.op \in {"begin", "commit"} => \A db : Effect(db, r) = db
<1>1. \A q \in Statement : q.op \in Ops
  BY DEF Statement
<1>2. BeginRow.op = "begin" /\ CommitRow.op = "commit"
  BY DEF BeginRow, CommitRow, Sql
<1> QED
  BY <1>1, <1>2, OpsAssumption DEF Row, Effect

-----------------------------------------------------------------------------
(* What is replayed: g follows rows from db, n rows far.                   *)
Follows(g, db, rows, n) ==
  g = [i \in 0 .. n |-> IF i = 0 THEN db ELSE Effect(g[i - 1], rows[i])]

(* The same without the recursion.                                         *)
Path(g, db, rows, n) ==
  /\ g \in [0 .. n -> Db]
  /\ g[0] = db
  /\ \A i \in 1 .. n : g[i] = Effect(g[i - 1], rows[i])

LEMMA FollowsIsPath ==
  ASSUME NEW db \in Db, NEW n \in Nat, NEW rows, \A i \in 1 .. n : rows[i] \in Row,
         NEW g, Follows(g, db, rows, n)
  PROVE  Path(g, db, rows, n)
<1>1. g[0] = db /\ \A i \in 1 .. n : g[i] = Effect(g[i - 1], rows[i])
  BY DEF Follows
<1> DEFINE T == {i \in 0 .. n : g[i] \in Db}
<1>2. 0 \in T
  BY <1>1
<1>3. ASSUME NEW i \in 1 .. n, i - 1 \in T PROVE i \in T
  BY <1>1, <1>3, EffectType
<1> HIDE DEF T
<1>4. \A i \in 0 .. n : i \in T
  BY <1>2, <1>3, UpTo
<1>5. \A i \in 0 .. n : g[i] \in Db
  BY <1>4 DEF T
<1>6. g \in [0 .. n -> Db]
  BY <1>5 DEF Follows
<1> QED
  BY <1>1, <1>6 DEF Path

LEMMA PathFollows ==
  ASSUME NEW db \in Db, NEW n \in Nat, NEW rows, NEW g, Path(g, db, rows, n)
  PROVE  Follows(g, db, rows, n)
<1> DEFINE h == [i \in 0 .. n |-> IF i = 0 THEN db ELSE Effect(g[i - 1], rows[i])]
<1>1. \A i \in 0 .. n : h[i] = g[i]
  BY DEF Path
<1>2. h = g
  BY <1>1 DEF Path
<1> QED
  BY <1>2 DEF Follows

LEMMA PathExists ==
  ASSUME NEW db \in Db, NEW n \in Nat, NEW rows, \A i \in 1 .. n : rows[i] \in Row
  PROVE  \E g : Path(g, db, rows, n)
<1> DEFINE F == [p \in (1 .. n) \X Db |-> Effect(p[2], rows[p[1]])]
<1>1. F \in [(1 .. n) \X Db -> Db]
  BY EffectType
<1>2. \A i \in 1 .. n : \A d \in Db : F[<<i, d>>] = Effect(d, rows[i])
  OBVIOUS
<1> HIDE DEF F
<1>3. PICK g : IsRun(g, db, F, n, Db)
  BY <1>1, RunExists
<1>4. g \in [0 .. n -> Db] /\ g[0] = db
  BY <1>3 DEF IsRun
<1>5. ASSUME NEW i \in 1 .. n PROVE g[i] = Effect(g[i - 1], rows[i])
  <2>1. g[i - 1] \in Db
    BY <1>4
  <2> QED
    BY <1>2, <1>3, <2>1 DEF IsRun
<1> QED
  BY <1>4, <1>5 DEF Path

LEMMA PathIsUnique ==
  ASSUME NEW db, NEW n \in Nat, NEW rows,
         NEW g, Path(g, db, rows, n), NEW h, Path(h, db, rows, n)
  PROVE  g = h
<1> DEFINE T == {i \in 0 .. n : g[i] = h[i]}
<1>1. 0 \in T
  BY DEF Path
<1>2. ASSUME NEW i \in 1 .. n, i - 1 \in T PROVE i \in T
  <2>1. g[i - 1] = h[i - 1]
    BY <1>2
  <2> QED
    BY <2>1 DEF Path
<1> HIDE DEF T
<1>3. \A i \in 0 .. n : i \in T
  BY <1>1, <1>2, UpTo
<1>4. \A i \in 0 .. n : g[i] = h[i]
  BY <1>3 DEF T
<1> QED
  BY <1>4 DEF Path

LEMMA ReplayIsEnd ==
  ASSUME NEW rows \in Seq(Row), NEW g, Path(g, EmptyDb, rows, Len(rows))
  PROVE  Replay(rows) = g[Len(rows)]
<1> DEFINE P(h) == h = [i \in 0 .. Len(rows) |->
                          IF i = 0 THEN EmptyDb ELSE Effect(h[i - 1], rows[i])]
           c == CHOOSE h : P(h)
<1>1. Replay(rows) = c[Len(rows)]
  BY DEF Replay
<1>0. Len(rows) \in Nat /\ \A i \in 1 .. Len(rows) : rows[i] \in Row
  BY LenProperties, ElementOfSeq
<1>2. P(g)
  BY <1>0, EmptyDbIsDb, PathFollows DEF Follows
<1>3. P(c)
  BY <1>2
<1>4. Follows(c, EmptyDb, rows, Len(rows))
  BY <1>3 DEF Follows
<1> HIDE DEF P, c
<1>5. Path(c, EmptyDb, rows, Len(rows))
  BY <1>0, <1>4, EmptyDbIsDb, FollowsIsPath
<1>6. c = g
  BY <1>0, <1>5, PathIsUnique
<1> QED
  BY <1>1, <1>6

(* All that is needed of Replay: it goes row by row.                       *)
LEMMA ReplayEmpty == Replay(<<>>) = EmptyDb
<1>1. <<>> \in Seq(Row) /\ Len(<<>>) = 0
  BY EmptySeq
<1>2. PICK g : Path(g, EmptyDb, <<>>, 0)
  BY <1>1, EmptyDbIsDb, PathExists
<1>3. g[0] = EmptyDb
  BY <1>2 DEF Path
<1> QED
  BY <1>1, <1>2, <1>3, ReplayIsEnd

LEMMA ReplayAppend ==
  ASSUME NEW rows \in Seq(Row), NEW r \in Row
  PROVE  Replay(rows \o <<r>>) = Effect(Replay(rows), r)
<1> DEFINE n == Len(rows)
           all == rows \o <<r>>
<1>0. n \in Nat /\ rows \in [1 .. n -> Row] /\ \A i \in 1 .. n : rows[i] \in Row
  BY LenProperties, ElementOfSeq
<1>1. all \in Seq(Row) /\ Len(all) = n + 1 /\ all[n + 1] = r
  OBVIOUS
<1>2. \A i \in 1 .. n : all[i] = rows[i]
  BY <1>0
<1>3. \A i \in 1 .. n + 1 : all[i] \in Row
  BY <1>1, ElementOfSeq
<1> HIDE DEF n, all
<1>4. PICK h : Path(h, EmptyDb, all, n + 1)
  BY <1>0, <1>3, EmptyDbIsDb, PathExists
<1>5. /\ h \in [0 .. n + 1 -> Db] /\ h[0] = EmptyDb
      /\ \A i \in 1 .. n + 1 : h[i] = Effect(h[i - 1], all[i])
  BY <1>4 DEF Path
<1> DEFINE g == [i \in 0 .. n |-> h[i]]
<1>6. g \in [0 .. n -> Db] /\ g[0] = EmptyDb /\ g[n] = h[n]
  BY <1>0, <1>5
<1>7. ASSUME NEW i \in 1 .. n PROVE g[i] = Effect(g[i - 1], rows[i])
  <2>1. g[i] = h[i] /\ g[i - 1] = h[i - 1] /\ i \in 1 .. n + 1
    BY <1>0
  <2> QED
    BY <1>2, <1>5, <2>1
<1> HIDE DEF g
<1>8. Path(g, EmptyDb, rows, n)
  BY <1>6, <1>7 DEF Path
<1>9. Replay(rows) = g[n]
  BY <1>8, ReplayIsEnd DEF n
<1>10. Replay(all) = h[n + 1]
  BY <1>1, <1>4, ReplayIsEnd
<1>11. h[n + 1] = Effect(h[n], r)
  BY <1>0, <1>1, <1>5
<1> QED
  BY <1>6, <1>9, <1>10, <1>11 DEF all

LEMMA ReplayIsDb ==
  ASSUME NEW rows \in Seq(Row)
  PROVE  Replay(rows) \in Db
<1>1. Len(rows) \in Nat /\ \A i \in 1 .. Len(rows) : rows[i] \in Row
  BY LenProperties, ElementOfSeq
<1>2. PICK g : Path(g, EmptyDb, rows, Len(rows))
  BY <1>1, EmptyDbIsDb, PathExists
<1>3. g[Len(rows)] \in Db
  BY <1>1, <1>2 DEF Path
<1> QED
  BY <1>2, <1>3, ReplayIsEnd

(* The rows up to n.                                                       *)
LEMMA PrefixIsSeq ==
  ASSUME NEW rows \in Seq(Row), NEW n \in 0 .. Len(rows)
  PROVE  SubSeq(rows, 1, n) \in Seq(Row)
<1>1. \A i \in 1 .. n : rows[i] \in Row
  BY LenProperties, ElementOfSeq
<1>2. 1 \in Int /\ n \in Int
  BY LenProperties
<1> QED
  BY <1>1, <1>2, SubSeqProperties

LEMMA ReplayNext ==
  ASSUME NEW rows \in Seq(Row), NEW n \in 1 .. Len(rows)
  PROVE  Replay(SubSeq(rows, 1, n)) = Effect(Replay(SubSeq(rows, 1, n - 1)), rows[n])
<1>1. Len(rows) \in Nat /\ n - 1 \in 0 .. Len(rows) /\ 1 \in 1 .. Len(rows) /\ rows[n] \in Row
  BY LenProperties, ElementOfSeq
<1>2. SubSeq(rows, 1, n) = SubSeq(rows, 1, n - 1) \o <<rows[n]>>
  BY <1>1, SubSeqRecursiveSecond
<1>3. SubSeq(rows, 1, n - 1) \in Seq(Row)
  BY <1>1, PrefixIsSeq
<1> QED
  BY <1>1, <1>2, <1>3, ReplayAppend

LEMMA PrefixOfConcat ==
  ASSUME NEW rows \in Seq(Row), NEW more \in Seq(Row), NEW n \in 0 .. Len(rows)
  PROVE  SubSeq(rows \o more, 1, n) = SubSeq(rows, 1, n)
<1>1. Len(rows) \in Nat
  BY LenProperties
<1>2. CASE n = 0
  <2>1. SubSeq(rows \o more, 1, 0) = <<>> /\ SubSeq(rows, 1, 0) = <<>>
    BY SubSeqEmpty
  <2> QED
    BY <1>2, <2>1
<1>3. CASE n # 0
  <2>1. n \in 1 .. Len(rows) /\ 1 \in 1 .. Len(rows)
    BY <1>1, <1>3
  <2> QED
    BY <2>1, SubSeqOfConcat1
<1> QED
  BY <1>2, <1>3

-----------------------------------------------------------------------------
(* A transaction that is staged.                                           *)

(* The source goes through g when it executes s on db.                     *)
LEMMA TransactionIsPath ==
  ASSUME NEW db \in Db, NEW s \in Transaction(db)
  PROVE  /\ s \in Seq(Statement)
         /\ \E g : /\ Path(g, db, s, Len(s))
                   /\ \A i \in 1 .. Len(s) : Executable(g[i - 1], s[i])
<1>1. PICK n \in 1 .. MaxStmt : s \in [1 .. n -> Statement]
  BY DEF Transaction
<1>2. n \in Nat /\ s \in Seq(Statement) /\ Len(s) = n
  BY <1>1, BoundAssumption
<1>3. \A i \in 1 .. n : s[i] \in Row
  BY <1>1 DEF Row
<1>4. PICK g : Path(g, db, s, n)
  BY <1>2, <1>3, PathExists
<1>5. ASSUME NEW i \in 1 .. n PROVE Executable(g[i - 1], s[i])
  <2> DEFINE P(h) == h = [m \in 0 .. i - 1 |->
                            IF m = 0 THEN db ELSE Effect(h[m - 1], s[m])]
             c == CHOOSE h : P(h)
             p == [m \in 0 .. i - 1 |-> g[m]]
  <2>1. Executable(c[i - 1], s[i])
    BY <1>2 DEF Transaction
  <2>2. i - 1 \in Nat /\ i - 1 \in 0 .. n /\ \A m \in 1 .. i - 1 : s[m] \in Row
    BY <1>2, <1>3
  <2>3. Path(p, db, s, i - 1)
    <3>1. p \in [0 .. i - 1 -> Db] /\ p[0] = db /\ p[i - 1] = g[i - 1]
      BY <1>2, <1>4, <2>2 DEF Path
    <3>2. ASSUME NEW m \in 1 .. i - 1 PROVE p[m] = Effect(p[m - 1], s[m])
      <4>1. m \in 1 .. n /\ p[m] = g[m] /\ p[m - 1] = g[m - 1]
        BY <1>2
      <4> QED
        BY <1>4, <4>1 DEF Path
    <3> HIDE DEF p
    <3> QED
      BY <3>1, <3>2 DEF Path
  <2>4. p[i - 1] = g[i - 1]
    BY <2>2
  <2> HIDE DEF p
  <2>5. Follows(p, db, s, i - 1)
    BY <2>2, <2>3, PathFollows
  <2>6. P(c)
    BY <2>5 DEF Follows
  <2>7. Follows(c, db, s, i - 1)
    BY <2>6 DEF Follows
  <2> HIDE DEF P, c
  <2>8. Path(c, db, s, i - 1)
    BY <2>2, <2>7, FollowsIsPath
  <2>9. c = p
    BY <2>2, <2>3, <2>8, PathIsUnique
  <2> QED
    BY <2>1, <2>4, <2>9
<1> QED
  BY <1>2, <1>4, <1>5

(* The rows that are staged for it.                                        *)
Framed(s) == <<BeginRow>> \o s \o <<CommitRow>>

LEMMA FramedRows ==
  ASSUME NEW s \in Seq(Statement)
  PROVE  /\ Framed(s) \in Seq(Row)
         /\ Len(Framed(s)) = Len(s) + 2 /\ Len(s) \in Nat
         /\ Framed(s)[1] = BeginRow
         /\ Framed(s)[Len(s) + 2] = CommitRow
         /\ \A i \in 1 .. Len(s) : Framed(s)[i + 1] = s[i]
<1> DEFINE b == <<BeginRow>>
           c == <<CommitRow>>
           n == Len(s)
<1>1. /\ b \in Seq(Row) /\ Len(b) = 1 /\ b[1] = BeginRow
      /\ c \in Seq(Row) /\ Len(c) = 1 /\ c[1] = CommitRow
  BY DEF Row
<1>2. n \in Nat /\ s \in Seq(Row)
  BY LenProperties, SeqMonotonic DEF Row
<1> HIDE DEF b, c, n
<1> DEFINE bs == b \o s
           all == bs \o c
<1>3. /\ bs \in Seq(Row) /\ Len(bs) = n + 1
      /\ \A i \in 1 .. 1 : bs[i] = b[i]
      /\ \A i \in 1 .. n : bs[1 + i] = s[i]
  <2>1. /\ bs \in Seq(Row) /\ Len(bs) = Len(b) + Len(s)
        /\ \A i \in 1 .. Len(b) : bs[i] = b[i]
        /\ \A i \in 1 .. Len(s) : bs[Len(b) + i] = s[i]
    BY SMTT(60), <1>1, <1>2, ConcatRows
  <2> HIDE DEF bs
  <2> QED
    BY <1>1, <1>2, <2>1 DEF n
<1> HIDE DEF bs
<1>4. /\ all \in Seq(Row) /\ Len(all) = n + 2
      /\ \A i \in 1 .. n + 1 : all[i] = bs[i]
      /\ \A i \in 1 .. 1 : all[n + 1 + i] = c[i]
  <2>1. /\ all \in Seq(Row) /\ Len(all) = Len(bs) + Len(c)
        /\ \A i \in 1 .. Len(bs) : all[i] = bs[i]
        /\ \A i \in 1 .. Len(c) : all[Len(bs) + i] = c[i]
    <3>1. bs \in Seq(Row) /\ c \in Seq(Row)
      BY <1>1, <1>3
    <3> QED
      BY <3>1, ConcatRows
  <2> HIDE DEF all
  <2> QED
    BY <1>1, <1>2, <1>3, <2>1
<1> HIDE DEF all
<1>5. /\ all[1] = BeginRow /\ all[n + 2] = CommitRow
      /\ \A i \in 1 .. n : all[i + 1] = s[i]
  <2>1. 1 \in 1 .. n + 1 /\ 1 \in 1 .. 1 /\ n + 1 + 1 = n + 2
    BY <1>2
  <2>2. ASSUME NEW i \in 1 .. n PROVE all[i + 1] = s[i]
    <3>1. i + 1 \in 1 .. n + 1 /\ i + 1 = 1 + i
      BY <1>2
    <3> QED
      BY <1>3, <1>4, <3>1
  <2> QED
    BY <1>1, <1>3, <1>4, <2>1, <2>2
<1>6. Framed(s) = all
  BY DEF Framed, all, bs, b, c
<1> QED
  BY <1>1, <1>2, <1>4, <1>5, <1>6 DEF n

(* all has the rows before it and another transaction, complete and such   *)
(* that the source could execute it there.                                 *)
Extended(all, rows) ==
  /\ all \in Seq(Row)
  /\ Len(rows) \in Nat /\ Len(all) \in Nat /\ Len(all) > Len(rows)
  /\ \A i \in 1 .. Len(rows) : all[i] = rows[i]
  /\ \A i \in 0 .. Len(rows) : SubSeq(all, 1, i) = SubSeq(rows, 1, i)
  /\ all[Len(all)] = CommitRow
  /\ \A i \in Len(rows) + 1 .. Len(all) :
       /\ all[i].op = "begin" => i = Len(rows) + 1
       /\ all[i] \in Statement =>
            Executable(Replay(SubSeq(all, 1, i - 1)), all[i])

LEMMA StagedRows ==
  ASSUME NEW rows \in Seq(Row), NEW s \in Transaction(Replay(rows)), NEW all,
         all = rows \o Framed(s)
  PROVE  Extended(all, rows)
<1> DEFINE L == Len(rows)
           n == Len(s)
           f == Framed(s)
           R(i) == Replay(SubSeq(all, 1, i))
<1>1. L \in Nat /\ Replay(rows) \in Db
  BY LenProperties, ReplayIsDb
<1>2. s \in Seq(Statement)
  BY <1>1, TransactionIsPath
<1>3. PICK g : Path(g, Replay(rows), s, n) /\ \A i \in 1 .. n : Executable(g[i - 1], s[i])
  BY <1>1, TransactionIsPath
<1>4. /\ f \in Seq(Row) /\ Len(f) = n + 2 /\ n \in Nat
      /\ f[1] = BeginRow /\ f[n + 2] = CommitRow
      /\ \A i \in 1 .. n : f[i + 1] = s[i]
  BY <1>2, FramedRows
<1>5. /\ \A i \in 1 .. n : s[i] \in Statement
      /\ \A i \in 1 .. n : s[i].op # "begin"
  BY <1>2, <1>4, ElementOfSeq, RowKinds DEF Row
<1> HIDE DEF f, n
<1>6. /\ all \in Seq(Row) /\ Len(all) = L + n + 2
      /\ \A i \in 1 .. L : all[i] = rows[i]
      /\ \A i \in 1 .. n + 2 : all[L + i] = f[i]
  <2>1. f \in Seq(Row) /\ all = rows \o f
    BY <1>4 DEF f
  <2>2. /\ all \in Seq(Row) /\ Len(all) = Len(rows) + Len(f)
        /\ \A i \in 1 .. Len(rows) : all[i] = rows[i]
        /\ \A i \in 1 .. Len(f) : all[Len(rows) + i] = f[i]
    BY <2>1, ConcatRows
  <2> QED
    BY <1>1, <1>4, <2>2
<1>7. \A i \in 0 .. L : SubSeq(all, 1, i) = SubSeq(rows, 1, i)
  BY <1>4, PrefixOfConcat DEF f
<1>8. all[L + 1] = BeginRow /\ all[L + n + 2] = CommitRow
  <2>1. 1 \in 1 .. n + 2 /\ n + 2 \in 1 .. n + 2 /\ L + (n + 2) = L + n + 2
    BY <1>1, <1>4
  <2> QED
    BY <1>4, <1>6, <2>1
<1>9. \A i \in 1 .. n : all[L + 1 + i] = s[i]
  <2> SUFFICES ASSUME NEW i \in 1 .. n PROVE all[L + 1 + i] = s[i]
    OBVIOUS
  <2>1. i + 1 \in 1 .. n + 2 /\ L + (i + 1) = L + 1 + i
    BY <1>1, <1>4
  <2> QED
    BY <1>4, <1>6, <2>1
<1>10. \A i \in 1 .. Len(all) : R(i) = Effect(R(i - 1), all[i])
  BY <1>6, ReplayNext
<1>11. R(L) = Replay(rows)
  <2>1. L \in 0 .. L /\ SubSeq(rows, 1, L) = rows
    BY <1>1, SubSeqFull
  <2> QED
    BY <1>7, <2>1
<1>12. R(L + 1) = Replay(rows)
  <2>1. L + 1 \in 1 .. Len(all) /\ L + 1 - 1 = L
    BY <1>1, <1>4, <1>6
  <2>2. R(L + 1) = Effect(R(L), all[L + 1])
    BY SMTT(60), <1>10, <2>1
  <2>3. BeginRow.op = "begin" /\ BeginRow \in Row
    BY DEF BeginRow, Sql, Row
  <2> QED
    BY <1>8, <1>11, <2>2, <2>3, RowKinds
<1> HIDE DEF R
<1> DEFINE T == {i \in 0 .. n : R(L + 1 + i) = g[i]}
<1>13. 0 \in T
  BY <1>1, <1>3, <1>4, <1>12 DEF Path
<1>14. ASSUME NEW i \in 1 .. n, i - 1 \in T PROVE i \in T
  <2>1. L + 1 + i \in 1 .. Len(all) /\ L + 1 + i - 1 = L + 1 + (i - 1)
    BY <1>1, <1>4, <1>6
  <2>2. R(L + 1 + i) = Effect(R(L + 1 + (i - 1)), all[L + 1 + i])
    BY <1>10, <2>1
  <2>3. R(L + 1 + (i - 1)) = g[i - 1]
    BY <1>14
  <2>4. g[i] = Effect(g[i - 1], s[i])
    BY <1>3 DEF Path
  <2>5. R(L + 1 + i) = g[i]
    BY <1>9, <2>2, <2>3, <2>4
  <2> QED
    BY <2>5
<1> HIDE DEF T
<1>15. \A i \in 0 .. n : i \in T
  BY <1>4, <1>13, <1>14, UpTo
<1>16. ASSUME NEW i \in L + 1 .. Len(all)
       PROVE  /\ all[i].op = "begin" => i = L + 1
              /\ all[i] \in Statement => Executable(R(i - 1), all[i])
  <2>1. BeginRow.op = "begin" /\ BeginRow \in Row /\ CommitRow.op = "commit" /\ CommitRow \in Row
    BY DEF BeginRow, CommitRow, Sql, Row
  <2>2. BeginRow \notin Statement /\ CommitRow \notin Statement
    BY <2>1, RowKinds
  <2>3. i = L + 1 \/ i = L + n + 2 \/ i - L - 1 \in 1 .. n
    <3>1. L \in Nat /\ n \in Nat /\ i \in L + 1 .. L + n + 2
      BY <1>1, <1>4, <1>6
    <3> QED
      BY ONLY <3>1
  <2>4. CASE i = L + 1
    BY <1>8, <2>1, <2>2, <2>4
  <2>5. CASE i = L + n + 2
    BY <1>8, <2>1, <2>2, <2>5
  <2>6. CASE i - L - 1 \in 1 .. n
    <3> DEFINE m == i - L - 1
    <3>1. m \in 1 .. n /\ L + 1 + m = i /\ m - 1 \in 0 .. n /\ i - 1 = L + 1 + (m - 1)
      BY <1>1, <1>4, <2>6
    <3> HIDE DEF m
    <3>2. all[i] = s[m] /\ s[m].op # "begin" /\ Executable(g[m - 1], s[m])
      BY <1>3, <1>5, <1>9, <3>1
    <3>3. m - 1 \in T
      BY <1>15, <3>1
    <3>4. R(L + 1 + (m - 1)) = g[m - 1]
      BY <3>3 DEF T
    <3> QED
      BY <3>1, <3>2, <3>4
  <2> QED
    BY <2>3, <2>4, <2>5, <2>6
<1> QED
  BY <1>1, <1>4, <1>6, <1>7, <1>8, <1>16 DEF R, Extended

(* What Stage does to sync_sqls.                                           *)
LEMMA StageExtends ==
  ASSUME TypeOK, Stage
  PROVE  Extended(sync_sqls', sync_sqls)
<1>1. sync_sqls \in Seq(Row)
  BY DEF TypeOK, Row
<1>2. PICK s \in Transaction(Replay(sync_sqls)) :
        sync_sqls' = sync_sqls \o <<BeginRow>> \o s \o <<CommitRow>>
  BY DEF Stage
<1>3. s \in Seq(Row)
  <2>1. s \in Seq(Statement)
    BY <1>1, ReplayIsDb, TransactionIsPath
  <2> QED
    BY <2>1, SeqMonotonic DEF Row
<1> DEFINE b == <<BeginRow>>
           c == <<CommitRow>>
<1>4. b \in Seq(Row) /\ c \in Seq(Row)
  BY DEF Row
<1>5. sync_sqls' = sync_sqls \o Framed(s)
  <2>1. sync_sqls' = ((sync_sqls \o b) \o s) \o c /\ Framed(s) = (b \o s) \o c
    BY <1>2 DEF Framed
  <2> HIDE DEF b, c
  <2>2. b \o s \in Seq(Row)
    BY <1>3, <1>4, ConcatProperties
  <2>3. \A p, q, r \in Seq(Row) : (p \o q) \o r = p \o (q \o r)
    BY ConcatAssociative
  <2>4. (sync_sqls \o b) \o s = sync_sqls \o (b \o s)
    BY <1>1, <1>3, <1>4, <2>3
  <2>5. (sync_sqls \o (b \o s)) \o c = sync_sqls \o ((b \o s) \o c)
    BY <1>1, <1>4, <2>2, <2>3
  <2> QED
    BY <2>1, <2>4, <2>5
<1> HIDE DEF b, c
<1> QED
  BY <1>1, <1>2, <1>5, StagedRows

-----------------------------------------------------------------------------
(* Types.                                                                  *)

LEMMA InitTypeOK == Init => TypeOK
<1> SUFFICES ASSUME Init PROVE TypeOK
  OBVIOUS
<1> USE DEF Init
<1>1. sync_sqls \in Seq(Row) /\ Len(sync_sqls) = 0
  BY EmptySeq
<1>2. target \in Db /\ tx \in Db
  BY EmptyDbIsDb
<1>3. cursor \in [next : Nat \ {0}, last : 0 .. Len(sync_sqls)]
  BY <1>1
<1>4. 0 \in 0 .. PersistEvery - 1
  BY BoundAssumption
<1>5. /\ apply_id \in 0 .. Len(sync_sqls) /\ status_id \in 0 .. Len(sync_sqls)
      /\ n_commit \in 0 .. PersistEvery - 1
  BY <1>1, <1>4
<1> QED
  BY <1>1, <1>2, <1>3, <1>5 DEF TypeOK, Row

LEMMA FetchedRow ==
  ASSUME TypeOK, Fetching
  PROVE  /\ cursor.next \in 1 .. Len(sync_sqls) /\ cursor.next <= cursor.last
         /\ Len(sync_sqls) \in Nat
         /\ fetched \in Row
<1>1. sync_sqls \in Seq(Row) /\ Len(sync_sqls) \in Nat
  BY LenProperties DEF TypeOK, Row
<1>2. cursor.next \in 1 .. Len(sync_sqls) /\ cursor.next <= cursor.last
  BY <1>1 DEF TypeOK, Fetching
<1> QED
  BY <1>1, <1>2, ElementOfSeq DEF fetched

LEMMA AdvanceFacts ==
  ASSUME TypeOK, Advance
  PROVE  /\ cursor' \in [next : Nat \ {0}, last : 0 .. Len(sync_sqls)]
         /\ cursor'.next = cursor.next + 1
         /\ cursor'.last = cursor.last
BY DEF TypeOK, Advance

LEMMA NextTypeOK == TypeOK /\ [Next]_vars => TypeOK'
<1> SUFFICES ASSUME TypeOK, [Next]_vars PROVE TypeOK'
  OBVIOUS
<1> USE DEF TypeOK
<1>0. sync_sqls \in Seq(Row) /\ Len(sync_sqls) \in Nat
  BY LenProperties DEF Row
<1>1. CASE Stage
  <2>1. /\ sync_sqls' \in Seq(Row)
        /\ Len(sync_sqls') \in Nat /\ Len(sync_sqls') > Len(sync_sqls)
    BY <1>1, StageExtends DEF Extended
  <2>2. 0 .. Len(sync_sqls) \subseteq 0 .. Len(sync_sqls')
    BY <1>0, <2>1
  <2> QED
    BY <1>1, <2>1, <2>2 DEF Stage, Row
<1>2. CASE Declare
  <2>1. cursor' \in [next : Nat \ {0}, last : 0 .. Len(sync_sqls)]
    BY <1>0, <1>2 DEF Declare
  <2> QED
    BY <1>2, <2>1, BoundAssumption DEF Declare
<1>3. CASE FetchNothing
  BY <1>3, BoundAssumption DEF FetchNothing, Persist
<1>4. CASE ExecBegin
  BY <1>4, AdvanceFacts DEF ExecBegin
<1>5. CASE ExecStatement
  <2>1. tx' \in Db
    BY <1>5, FetchedRow, EffectType DEF ExecStatement
  <2>2. sqltype' \in {"begin", "first", "other", "commit"}
    BY <1>5 DEF ExecStatement
  <2> QED
    BY <1>5, <2>1, <2>2, AdvanceFacts DEF ExecStatement
<1>6. CASE SkipDuplicate
  BY <1>6, AdvanceFacts DEF SkipDuplicate
<1>7. CASE ExecCommit
  <2>1. cursor.next \in 0 .. Len(sync_sqls)
    BY <1>0, <1>7, FetchedRow DEF ExecCommit
  <2>2. status_id' \in 0 .. Len(sync_sqls)
    BY <1>7, <2>1 DEF ExecCommit, Persist
  <2>3. n_commit' \in 0 .. PersistEvery - 1
    BY <1>7, BoundAssumption DEF ExecCommit
  <2> QED
    BY <1>7, <2>1, <2>2, <2>3, AdvanceFacts DEF ExecCommit
<1>8. CASE DuplicateExit
  BY <1>8 DEF DuplicateExit, Exit
<1>9. CASE AbortExit
  BY <1>9 DEF AbortExit, Exit
<1>10. CASE ErrorExit
  BY <1>10 DEF ErrorExit, Exit
<1>11. CASE Abort
  BY <1>11 DEF Abort
<1>12. CASE Crash
  BY <1>12 DEF Crash
<1>13. CASE Restart
  <2>1. cursor' \in [next : Nat \ {0}, last : 0 .. Len(sync_sqls)]
    BY <1>0, <1>13 DEF Restart
  <2>2. n_commit' \in 0 .. PersistEvery - 1
    BY <1>13, BoundAssumption DEF Restart
  <2> QED
    BY <1>13, <2>1, <2>2 DEF Restart
<1>14. CASE FetchRefused
  BY <1>14, BoundAssumption DEF FetchRefused, Persist
<1>15. CASE UNCHANGED vars
  BY <1>15 DEF vars
<1> QED
  BY <1>1, <1>2, <1>3, <1>4, <1>5, <1>6, <1>7, <1>8, <1>9, <1>10, <1>11, <1>12, <1>13,
     <1>14, <1>15 DEF Next, Run

(* Every variable has its type.                                            *)
THEOREM Typing == Safety => []TypeOK
<1> QED
  BY InitTypeOK, NextTypeOK, PTL DEF Safety

-----------------------------------------------------------------------------
(* The parts of the inductive invariant, one after the other.              *)

LEMMA OnlyStage == [Next]_vars => Stage \/ UNCHANGED sync_sqls
BY DEF Next, Run, vars, Declare, FetchNothing, FetchRefused, ExecBegin, ExecStatement, SkipDuplicate,
       ExecCommit, DuplicateExit, AbortExit, ErrorExit, Abort, Crash, Restart, Exit

LEMMA LogStep ==
  ASSUME TypeOK, LogIsFramed, LogIsExecutable, [Next]_vars
  PROVE  LogIsFramed' /\ LogIsExecutable'
<1>0. sync_sqls \in Seq(Row) /\ Len(sync_sqls) \in Nat /\ DOMAIN sync_sqls = 1 .. Len(sync_sqls)
  BY LenProperties DEF TypeOK, Row
<1>1. CASE UNCHANGED sync_sqls
  BY <1>1 DEF LogIsFramed, LogIsExecutable, At
<1>2. CASE Stage
  <2> DEFINE L == Len(sync_sqls)
             all == sync_sqls'
  <2>1. Extended(all, sync_sqls)
    BY <1>2, StageExtends
  <2>2. DOMAIN all = 1 .. Len(all)
    BY <2>1, LenProperties DEF Extended
  <2>3. all[Len(all)].op = "commit"
    BY <2>1 DEF Extended, CommitRow, Sql
  <2>4. ASSUME NEW i \in 1 .. Len(all), all[i].op = "begin"
        PROVE  i = 1 \/ all[i - 1].op = "commit"
    <3>1. CASE i \in 1 .. L
      <4>1. all[i] = sync_sqls[i] /\ (i # 1 => all[i - 1] = sync_sqls[i - 1])
        BY <1>0, <2>1, <3>1 DEF Extended
      <4> QED
        BY <1>0, <2>4, <3>1, <4>1 DEF LogIsFramed
    <3>2. CASE i \in L + 1 .. Len(all)
      <4>1. i = L + 1
        BY <2>1, <2>4, <3>2 DEF Extended
      <4>2. CASE L = 0
        BY <4>1, <4>2
      <4>3. CASE L # 0
        <5>1. sync_sqls # <<>>
          BY <4>3, EmptySeq
        <5>2. L \in 1 .. L /\ i - 1 = L
          BY <1>0, <4>1, <4>3
        <5>3. all[i - 1] = sync_sqls[L]
          BY <2>1, <5>2 DEF Extended
        <5> QED
          BY <5>1, <5>3 DEF LogIsFramed
      <4> QED
        BY <4>2, <4>3
    <3> QED
      BY <1>0, <2>1, <3>1, <3>2 DEF Extended
  <2>5. ASSUME NEW i \in 1 .. Len(all), all[i] \in Statement
        PROVE  Executable(Replay(SubSeq(all, 1, i - 1)), all[i])
    <3>1. CASE i \in 1 .. L
      <4>1. i - 1 \in 0 .. L /\ all[i] = sync_sqls[i]
        BY <1>0, <2>1, <3>1 DEF Extended
      <4>2. SubSeq(all, 1, i - 1) = SubSeq(sync_sqls, 1, i - 1)
        BY <2>1, <4>1 DEF Extended
      <4> QED
        BY <1>0, <2>5, <3>1, <4>1, <4>2 DEF LogIsExecutable, At
    <3>2. CASE i \in L + 1 .. Len(all)
      BY <2>1, <2>5, <3>2 DEF Extended
    <3> QED
      BY <1>0, <2>1, <3>1, <3>2 DEF Extended
  <2> QED
    BY <2>2, <2>3, <2>4, <2>5 DEF LogIsFramed, LogIsExecutable, At
<1> QED
  BY <1>1, <1>2, OnlyStage

LEMMA PositionsStep ==
  ASSUME TypeOK, LogIsFramed, PositionsAreOrdered, [Next]_vars
  PROVE  PositionsAreOrdered'
<1> USE DEF PositionsAreOrdered
<1>0. /\ Len(sync_sqls) \in Nat
      /\ apply_id \in Nat /\ status_id \in Nat
      /\ apply_id <= Len(sync_sqls)
      /\ cursor.next \in Nat /\ cursor.last \in 0 .. Len(sync_sqls)
  BY LenProperties DEF TypeOK
<1>1. CASE Stage
  <2>1. cursor.last > 0 => sync_sqls'[cursor.last] = sync_sqls[cursor.last]
    BY <1>0, <1>1, StageExtends DEF Extended
  <2> QED
    BY <1>0, <1>1, <2>1 DEF Stage
<1>2. CASE Declare
  <2>1. cursor'.next = apply_id + 1 /\ cursor'.last = Len(sync_sqls)
    BY <1>2 DEF Declare
  <2>2. Len(sync_sqls) > 0 => sync_sqls # <<>>
    BY EmptySeq
  <2>3. Len(sync_sqls) > 0 => sync_sqls[Len(sync_sqls)].op = "commit"
    BY <2>2 DEF LogIsFramed
  <2> QED
    BY <1>0, <1>2, <2>1, <2>3 DEF Declare
<1>3. CASE FetchNothing
  BY <1>0, <1>3 DEF FetchNothing, Persist
<1>4. CASE ExecBegin
  BY <1>0, <1>4, AdvanceFacts DEF ExecBegin, Fetching
<1>5. CASE ExecStatement
  BY <1>0, <1>5, AdvanceFacts DEF ExecStatement, Fetching
<1>6. CASE SkipDuplicate
  BY <1>0, <1>6, AdvanceFacts DEF SkipDuplicate, Fetching
<1>7. CASE ExecCommit
  <2>1. status_id' <= apply_id'
    BY <1>0, <1>7 DEF ExecCommit, Persist, Fetching
  <2> QED
    BY <1>0, <1>7, <2>1, AdvanceFacts DEF ExecCommit, Fetching
<1>8. CASE DuplicateExit
  BY <1>0, <1>8 DEF DuplicateExit, Exit
<1>9. CASE AbortExit
  BY <1>0, <1>9 DEF AbortExit, Exit
<1>10. CASE ErrorExit
  BY <1>0, <1>10 DEF ErrorExit, Exit
<1>11. CASE Abort
  BY <1>0, <1>11 DEF Abort
<1>12. CASE Crash
  BY <1>0, <1>12 DEF Crash
<1>13. CASE Restart
  BY <1>0, <1>13 DEF Restart
<1>14. CASE FetchRefused
  BY <1>0, <1>14 DEF FetchRefused, Persist
<1>15. CASE UNCHANGED vars
  BY <1>15 DEF vars
<1> QED
  BY <1>1, <1>2, <1>3, <1>4, <1>5, <1>6, <1>7, <1>8, <1>9, <1>10, <1>11, <1>12, <1>13,
     <1>14, <1>15 DEF Next, Run

(* At the end of the cursor and at a begin row no statement is under way.  *)
LEMMA NothingOpen ==
  ASSUME TypeOK, LogIsFramed, PositionsAreOrdered, TxIsTarget, pc = "fetch",
         cursor.next > cursor.last \/ (Fetching /\ fetched.op = "begin")
  PROVE  sqltype \in {"begin", "commit"}
<1> SUFFICES ASSUME cursor.next > 1, sync_sqls[cursor.next - 1].op # "commit"
             PROVE  FALSE
  BY DEF TxIsTarget, TypeOK
<1>0. /\ Len(sync_sqls) \in Nat /\ DOMAIN sync_sqls = 1 .. Len(sync_sqls)
      /\ cursor.next \in Nat /\ cursor.last \in 0 .. Len(sync_sqls)
  BY LenProperties DEF TypeOK
<1>1. CASE cursor.next > cursor.last
  <2>1. cursor.next - 1 = cursor.last /\ cursor.last > 0
    BY <1>0, <1>1 DEF PositionsAreOrdered
  <2> QED
    BY <2>1 DEF PositionsAreOrdered
<1>2. CASE Fetching /\ fetched.op = "begin"
  BY <1>0, <1>2, FetchedRow DEF LogIsFramed, fetched
<1> QED
  BY <1>1, <1>2

LEMMA TxStep ==
  ASSUME TypeOK, LogIsFramed, PositionsAreOrdered, TxIsTarget, [Next]_vars
  PROVE  TxIsTarget'
<1> USE DEF TxIsTarget
<1>0. /\ Len(sync_sqls) \in Nat
      /\ cursor.next \in Nat /\ cursor.last \in 0 .. Len(sync_sqls)
      /\ apply_id \in Nat
  BY LenProperties DEF TypeOK
<1>1. CASE Stage
  <2>1. pc = "fetch" /\ cursor.next > 1 => cursor.next - 1 \in 1 .. Len(sync_sqls)
    BY <1>0 DEF PositionsAreOrdered
  <2>2. pc = "fetch" /\ cursor.next > 1 =>
          sync_sqls'[cursor.next - 1] = sync_sqls[cursor.next - 1]
    BY <1>1, <2>1, StageExtends DEF Extended
  <2>3. cursor.next > apply_id + 1 => cursor.next > 1
    BY <1>0
  <2>4. UNCHANGED <<target, tx, apply_id, cursor, sqltype, pc, again>>
    BY <1>1 DEF Stage
  <2> QED
    BY <2>2, <2>3, <2>4
<1>2. CASE Declare
  BY <1>2 DEF Declare
<1>3. CASE FetchNothing
  BY <1>3, NothingOpen DEF FetchNothing
<1>14. CASE FetchRefused
  <2>1. ~again' => ~again /\ sqltype \in {"begin", "commit"}
    BY <1>0, <1>14 DEF FetchRefused
  <2> QED
    BY <1>14, <2>1 DEF FetchRefused
<1>4. CASE ExecBegin
  <2>1. ~again => tx = target
    BY <1>4, NothingOpen DEF ExecBegin, Fetching
  <2> QED
    BY <1>4, <2>1 DEF ExecBegin, Fetching
<1>5. CASE ExecStatement
  <2>1. cursor'.next - 1 = cursor.next /\ cursor'.next > apply_id + 1
    BY <1>0, <1>5, AdvanceFacts, FetchedRow DEF ExecStatement, PositionsAreOrdered, Fetching
  <2>2. fetched.op # "commit" /\ sqltype' \in {"first", "other"}
    BY <1>5 DEF ExecStatement, TypeOf
  <2> QED
    BY <1>5, <2>1, <2>2 DEF ExecStatement, Fetching, fetched
<1>6. CASE SkipDuplicate
  BY <1>6 DEF SkipDuplicate, Fetching
<1>7. CASE ExecCommit
  BY <1>7 DEF ExecCommit, Fetching
<1>8. CASE DuplicateExit
  BY <1>8 DEF DuplicateExit, Exit
<1>9. CASE AbortExit
  BY <1>9 DEF AbortExit, Exit
<1>10. CASE ErrorExit
  BY <1>10 DEF ErrorExit, Exit
<1>11. CASE Abort
  BY <1>11 DEF Abort
<1>12. CASE Crash
  BY <1>12 DEF Crash
<1>13. CASE Restart
  BY <1>13 DEF Restart
<1>15. CASE UNCHANGED vars
  BY <1>15 DEF vars
<1> QED
  BY <1>1, <1>2, <1>3, <1>4, <1>5, <1>6, <1>7, <1>8, <1>9, <1>10, <1>11, <1>12, <1>13,
     <1>14, <1>15 DEF Next, Run

(* What is applied is the row that follows At(cursor.next - 1), and the    *)
(* source could execute it there.                                          *)
LEMMA FetchedAt ==
  ASSUME TypeOK, LogIsExecutable, Fetching
  PROVE  /\ At(cursor.next - 1) \in Db
         /\ At(cursor.next) = Effect(At(cursor.next - 1), fetched)
         /\ fetched \in Statement => Executable(At(cursor.next - 1), fetched)
<1>1. /\ sync_sqls \in Seq(Row) /\ DOMAIN sync_sqls = 1 .. Len(sync_sqls)
      /\ Len(sync_sqls) \in Nat
  BY LenProperties DEF TypeOK, Row
<1>2. cursor.next \in 1 .. Len(sync_sqls) /\ cursor.next - 1 \in 0 .. Len(sync_sqls)
  BY FetchedRow
<1>3. At(cursor.next - 1) \in Db
  BY <1>1, <1>2, PrefixIsSeq, ReplayIsDb DEF At
<1>4. At(cursor.next) = Effect(At(cursor.next - 1), fetched)
  BY <1>1, <1>2, ReplayNext DEF At, fetched
<1> QED
  BY <1>1, <1>2, <1>3, <1>4 DEF LogIsExecutable, fetched

(* A row that is executed or left out is a statement.                      *)
LEMMA FetchedKind ==
  ASSUME TypeOK, Fetching
  PROVE  /\ TypeOf(fetched) \in {"first", "other"} => fetched \in Statement
         /\ fetched.op \in {"begin", "commit"} => \A db : Effect(db, fetched) = db
<1>1. fetched \in Row
  BY FetchedRow
<1>2. TypeOf(fetched) \in {"first", "other"} => fetched.op \notin {"begin", "commit"}
  BY DEF TypeOf
<1> QED
  BY <1>1, <1>2, RowKinds

LEMMA AgainStep ==
  ASSUME TypeOK, LogIsExecutable, PositionsAreOrdered, TxIsTarget, NeverAgain, [Next]_vars
  PROVE  NeverAgain'
<1> USE DEF NeverAgain
<1>0. /\ Len(sync_sqls) \in Nat /\ apply_id \in 0 .. Len(sync_sqls)
      /\ cursor.next \in Nat /\ cursor.last \in 0 .. Len(sync_sqls)
  BY LenProperties DEF TypeOK
<1>1. CASE Stage
  <2>1. Replay(SubSeq(sync_sqls', 1, apply_id)) = At(apply_id)
    BY <1>0, <1>1, StageExtends DEF Extended, At
  <2>2. pc = "fetch" => cursor.next - 1 \in 0 .. Len(sync_sqls)
    BY <1>0 DEF PositionsAreOrdered
  <2>3. pc = "fetch" =>
          Replay(SubSeq(sync_sqls', 1, cursor.next - 1)) = At(cursor.next - 1)
    BY <1>1, <2>2, StageExtends DEF Extended, At
  <2> QED
    BY <1>1, <2>1, <2>3 DEF Stage, At
<1>2. CASE Declare
  <2>1. cursor'.next - 1 = apply_id
    BY <1>0, <1>2 DEF Declare
  <2> QED
    BY <1>2, <2>1 DEF Declare, At, TxIsTarget
<1>3. CASE FetchNothing
  BY <1>3 DEF FetchNothing, At
<1>4. CASE ExecBegin
  <2>1. cursor'.next - 1 = cursor.next
    BY <1>0, <1>4, AdvanceFacts DEF ExecBegin
  <2>2. At(cursor.next) = At(cursor.next - 1)
    BY <1>4, FetchedAt, FetchedKind DEF ExecBegin
  <2> QED
    BY <1>4, <2>1, <2>2 DEF ExecBegin, Fetching, At
<1>5. CASE ExecStatement
  <2>1. cursor'.next - 1 = cursor.next
    BY <1>0, <1>5, AdvanceFacts DEF ExecStatement
  <2>2. ~again => tx' = At(cursor.next)
    BY <1>5, FetchedAt DEF ExecStatement, Fetching
  <2> QED
    BY <1>5, <2>1, <2>2 DEF ExecStatement, Fetching, At
<1>6. CASE SkipDuplicate
  <2>1. fetched \in Statement
    BY <1>6, FetchedKind DEF SkipDuplicate
  <2>2. ~Duplicate(At(cursor.next - 1), fetched)
    BY <1>6, <2>1, FetchedAt DEF SkipDuplicate, Executable
  <2>3. again
    BY <1>6, <2>2 DEF SkipDuplicate, Fetching
  <2> QED
    BY <1>6, <2>3 DEF SkipDuplicate
<1>7. CASE ExecCommit
  <2>1. cursor'.next - 1 = cursor.next
    BY <1>0, <1>7, AdvanceFacts DEF ExecCommit
  <2>2. At(cursor.next) = At(cursor.next - 1)
    BY <1>7, FetchedAt, FetchedKind DEF ExecCommit
  <2> QED
    BY <1>7, <2>1, <2>2 DEF ExecCommit, Fetching, At
<1>8. CASE DuplicateExit
  BY <1>8 DEF DuplicateExit, Exit
<1>9. CASE AbortExit
  BY <1>9 DEF AbortExit, Exit
<1>10. CASE ErrorExit
  BY <1>10 DEF ErrorExit, Exit
<1>11. CASE Abort
  BY <1>11 DEF Abort, At
<1>12. CASE Crash
  BY <1>12 DEF Crash
<1>13. CASE Restart
  BY <1>13 DEF Restart
<1>14. CASE FetchRefused
  BY <1>14 DEF FetchRefused, At
<1>15. CASE UNCHANGED vars
  BY <1>15 DEF vars, At
<1> QED
  BY <1>1, <1>2, <1>3, <1>4, <1>5, <1>6, <1>7, <1>8, <1>9, <1>10, <1>11, <1>12, <1>13,
     <1>14, <1>15 DEF Next, Run

-----------------------------------------------------------------------------
(* Applying rows again.  db is the target, at what the source held when it *)
(* executed r: afterwards a key of db is as at the source, or db was ahead *)
(* there and still is.                                                     *)
LEMMA EffectCatchesUp ==
  ASSUME NEW db \in Db, NEW at \in Db, NEW r \in Row, r.op # "move", NEW k \in Key,
         r \in Statement => Executable(at, r)
  PROVE  \/ Effect(db, r)[k] = Effect(at, r)[k]
         \/ Effect(db, r)[k] = db[k] /\ db[k] # at[k]
<1>1. CASE r \in Statement
  <2>1. r.op \in {"insert", "update", "delete"} /\ r.key \in Key
    BY <1>1, OpsAssumption DEF Statement
  <2>2. r.op # "insert" => at[r.key] # Absent
    BY <1>1 DEF Executable, Present
  <2>3. CASE r.op = "insert"
    BY <2>1, <2>3 DEF Effect, Db
  <2>4. CASE r.op = "update"
    BY <2>1, <2>2, <2>4 DEF Effect, Db, Present
  <2>5. CASE r.op = "delete"
    BY <2>1, <2>5 DEF Effect, Db
  <2> QED
    BY <2>1, <2>3, <2>4, <2>5
<1>2. CASE r \notin Statement
  <2>1. \A d : Effect(d, r) = d
    BY <1>2, RowKinds
  <2> QED
    BY <2>1
<1> QED
  BY <1>1, <1>2

(* The same for a statement that is left out: db has the key already.      *)
LEMMA SkipCatchesUp ==
  ASSUME NEW db \in Db, NEW at \in Db, NEW r \in Statement, r.op # "move", NEW k \in Key,
         Executable(at, r), Duplicate(db, r)
  PROVE  db[k] = Effect(at, r)[k] \/ db[k] # at[k]
<1>1. r.op = "insert" /\ r.key \in Key /\ db[r.key] # Absent /\ at[r.key] = Absent
  BY DEF Statement, Executable, Duplicate, Present
<1> QED
  BY <1>1 DEF Effect, Db

(* From one row to the next.                                               *)
LEMMA NotBeforeNext ==
  ASSUME TypeOK, Fetching, NEW db, NEW new, NotBefore(db, cursor.next - 1),
         \A k \in Key : \/ new[k] = At(cursor.next)[k]
                        \/ new[k] = db[k] /\ db[k] # At(cursor.next - 1)[k]
  PROVE  NotBefore(new, cursor.next)
<1>1. cursor.next \in 1 .. Len(sync_sqls) /\ Len(sync_sqls) \in Nat
  BY FetchedRow
<1> SUFFICES ASSUME NEW k \in Key
             PROVE  \E j \in cursor.next .. Len(sync_sqls) : new[k] = At(j)[k]
  BY DEF NotBefore
<1>2. CASE new[k] = At(cursor.next)[k]
  BY <1>1, <1>2
<1>3. CASE new[k] = db[k] /\ db[k] # At(cursor.next - 1)[k]
  <2>1. PICK j \in cursor.next - 1 .. Len(sync_sqls) : db[k] = At(j)[k]
    BY DEF NotBefore
  <2>2. j \in cursor.next .. Len(sync_sqls)
    BY <1>1, <1>3, <2>1
  <2> QED
    BY <1>3, <2>1, <2>2
<1> QED
  BY <1>2, <1>3

(* Later is not before.                                                    *)
LEMMA NotBeforeLess ==
  ASSUME NEW db, NEW m \in Nat, NEW n \in Nat, m <= n, Len(sync_sqls) \in Nat,
         NotBefore(db, n)
  PROVE  NotBefore(db, m)
<1>1. n .. Len(sync_sqls) \subseteq m .. Len(sync_sqls)
  OBVIOUS
<1> QED
  BY <1>1 DEF NotBefore

LEMMA NotBeforeStage ==
  ASSUME TypeOK, Stage, NEW db, NEW n \in 0 .. Len(sync_sqls), NotBefore(db, n),
         NEW k \in Key
  PROVE  \E j \in n .. Len(sync_sqls') : db[k] = Replay(SubSeq(sync_sqls', 1, j))[k]
<1>1. Extended(sync_sqls', sync_sqls)
  BY StageExtends
<1>2. PICK j \in n .. Len(sync_sqls) : db[k] = At(j)[k]
  BY DEF NotBefore
<1>3. j \in 0 .. Len(sync_sqls) /\ j \in n .. Len(sync_sqls')
  BY <1>1 DEF Extended
<1>4. SubSeq(sync_sqls', 1, j) = SubSeq(sync_sqls, 1, j)
  BY <1>1, <1>3 DEF Extended
<1> QED
  BY <1>2, <1>3, <1>4 DEF At

LEMMA KeysStayed == TypeOK /\ [Next]_vars /\ KeysStay' => KeysStay
<1> SUFFICES ASSUME TypeOK, [Next]_vars, KeysStay' PROVE KeysStay
  OBVIOUS
<1>1. CASE Stage
  <2>1. Extended(sync_sqls', sync_sqls)
    BY <1>1, StageExtends
  <2>2. DOMAIN sync_sqls = 1 .. Len(sync_sqls) /\ DOMAIN sync_sqls' = 1 .. Len(sync_sqls')
    BY <2>1, LenProperties DEF TypeOK, Extended
  <2>3. ASSUME NEW i \in 1 .. Len(sync_sqls) PROVE sync_sqls[i].op # "move"
    BY <2>1, <2>2 DEF Extended, KeysStay
  <2> QED
    BY <2>2, <2>3 DEF KeysStay
<1>2. CASE UNCHANGED sync_sqls
  BY <1>2 DEF KeysStay
<1> QED
  BY <1>1, <1>2, OnlyStage

(* What was lost stays lost.                                               *)
LEMMA LostStays == [Next]_vars /\ ~lost' => ~lost
BY DEF Next, Run, vars, Stage, Declare, FetchNothing, FetchRefused, ExecBegin, ExecStatement,
       SkipDuplicate, ExecCommit, DuplicateExit, AbortExit, ErrorExit, Abort, Crash, Restart,
       Exit

LEMMA BehindStep ==
  ASSUME TypeOK, LogIsFramed, LogIsExecutable, PositionsAreOrdered, TxIsTarget, NotBehind,
         [Next]_vars
  PROVE  NotBehind'
<1> SUFFICES ASSUME KeysStay, KeysStay', ~lost, ~lost'
             PROVE  /\ NotBefore(target, apply_id)'
                    /\ (pc = "fetch" => NotBefore(tx, cursor.next - 1))'
                    /\ (pc # "fetch" => NotBefore(tx, apply_id))'
                    /\ (pc = "fetch" /\ sqltype \in {"begin", "commit"} =>
                           NotBefore(target, cursor.next - 1))'
  BY KeysStayed, LostStays DEF NotBehind
<1>0. /\ Len(sync_sqls) \in Nat /\ DOMAIN sync_sqls = 1 .. Len(sync_sqls)
      /\ apply_id \in 0 .. Len(sync_sqls) /\ status_id \in 0 .. Len(sync_sqls)
      /\ status_id <= apply_id
      /\ target \in Db /\ tx \in Db
      /\ cursor.next \in Nat /\ cursor.last \in 0 .. Len(sync_sqls)
  BY LenProperties DEF TypeOK, PositionsAreOrdered
<1>a. /\ NotBefore(target, apply_id)
      /\ pc = "fetch" => NotBefore(tx, cursor.next - 1)
      /\ pc # "fetch" => NotBefore(tx, apply_id)
      /\ pc = "fetch" /\ sqltype \in {"begin", "commit"} => NotBefore(target, cursor.next - 1)
  BY DEF NotBehind
<1>b. pc = "fetch" => cursor.next - 1 \in 0 .. Len(sync_sqls) /\ apply_id <= cursor.next - 1
  BY <1>0 DEF PositionsAreOrdered
<1>c. Fetching =>
        /\ fetched \in Row /\ fetched.op # "move"
        /\ At(cursor.next - 1) \in Db
        /\ At(cursor.next) = Effect(At(cursor.next - 1), fetched)
        /\ fetched \in Statement => Executable(At(cursor.next - 1), fetched)
  BY <1>0, FetchedAt, FetchedRow DEF KeysStay, fetched
<1>1. CASE Stage
  <2>1. ASSUME NEW db, NEW n \in 0 .. Len(sync_sqls), NotBefore(db, n)
        PROVE  \A k \in Key : \E j \in n .. Len(sync_sqls') :
                 db[k] = Replay(SubSeq(sync_sqls', 1, j))[k]
    BY <1>1, <2>1, NotBeforeStage
  <2>2. /\ NotBefore(target, apply_id)'
        /\ pc # "fetch" => NotBefore(tx, apply_id)'
    <3>1. NotBefore(target, apply_id)'
      <4>1. \A k \in Key : \E j \in apply_id .. Len(sync_sqls') :
              target[k] = Replay(SubSeq(sync_sqls', 1, j))[k]
        BY <1>0, <1>a, <2>1
      <4> QED
        BY <1>1, <4>1 DEF Stage, NotBefore, At
    <3>2. ASSUME pc # "fetch" PROVE NotBefore(tx, apply_id)'
      <4>1. NotBefore(tx, apply_id)
        BY <1>a, <3>2
      <4>2. \A k \in Key : \E j \in apply_id .. Len(sync_sqls') :
              tx[k] = Replay(SubSeq(sync_sqls', 1, j))[k]
        BY <1>0, <2>1, <4>1
      <4> QED
        BY <1>1, <4>2 DEF Stage, NotBefore, At
    <3> QED
      BY <3>1, <3>2
  <2>3. ASSUME pc = "fetch" PROVE NotBefore(tx, cursor.next - 1)'
    <3>1. NotBefore(tx, cursor.next - 1) /\ cursor.next - 1 \in 0 .. Len(sync_sqls)
      BY <1>a, <1>b, <2>3
    <3>2. \A k \in Key : \E j \in cursor.next - 1 .. Len(sync_sqls') :
            tx[k] = Replay(SubSeq(sync_sqls', 1, j))[k]
      BY <2>1, <3>1
    <3> QED
      BY <1>1, <3>2 DEF Stage, NotBefore, At
  <2>4. ASSUME pc = "fetch", sqltype \in {"begin", "commit"}
        PROVE  NotBefore(target, cursor.next - 1)'
    <3>1. NotBefore(target, cursor.next - 1) /\ cursor.next - 1 \in 0 .. Len(sync_sqls)
      BY <1>a, <1>b, <2>4
    <3>2. \A k \in Key : \E j \in cursor.next - 1 .. Len(sync_sqls') :
            target[k] = Replay(SubSeq(sync_sqls', 1, j))[k]
      BY <2>1, <3>1
    <3> QED
      BY <1>1, <3>2 DEF Stage, NotBefore, At
  <2> QED
    BY <1>1, <2>2, <2>3, <2>4 DEF Stage
<1>2. CASE Declare
  <2>1. cursor'.next - 1 = apply_id
    BY <1>0, <1>2 DEF Declare
  <2> QED
    BY <1>2, <1>a, <2>1 DEF Declare, NotBefore, At
<1>d. pc = "fetch" => NotBefore(tx, apply_id)
  BY <1>0, <1>a, <1>b, NotBeforeLess
<1>3. CASE FetchNothing
  BY <1>3, <1>a, <1>d DEF FetchNothing, NotBefore, At
<1>15. CASE FetchRefused
  BY <1>15, <1>a, <1>d DEF FetchRefused, NotBefore, At
<1>4. CASE ExecBegin
  <2>1. cursor'.next - 1 = cursor.next
    BY <1>0, <1>4, AdvanceFacts DEF ExecBegin
  <2>2. At(cursor.next) = At(cursor.next - 1)
    BY <1>4, FetchedAt, FetchedKind DEF ExecBegin
  <2>3. NotBefore(tx, cursor.next)
    <3>1. \A k \in Key : tx[k] = At(cursor.next)[k] \/ tx[k] # At(cursor.next - 1)[k]
      BY <2>2
    <3> QED
      BY <1>4, <1>a, <3>1, NotBeforeNext DEF ExecBegin, Fetching
  <2>4. NotBefore(target, cursor.next)
    <3>1. \A k \in Key : target[k] = At(cursor.next)[k] \/ target[k] # At(cursor.next - 1)[k]
      BY <2>2
    <3>2. pc = "fetch" /\ sqltype \in {"begin", "commit"} /\ Fetching
      BY <1>4, NothingOpen DEF ExecBegin, Fetching
    <3>3. NotBefore(target, cursor.next - 1)
      BY <1>a, <3>2
    <3> QED
      BY <3>1, <3>2, <3>3, NotBeforeNext
  <2> QED
    BY <1>4, <1>a, <2>1, <2>3, <2>4 DEF ExecBegin, NotBefore, At, Fetching
<1>5. CASE ExecStatement
  <2>1. cursor'.next - 1 = cursor.next
    BY <1>0, <1>5, AdvanceFacts DEF ExecStatement
  <2>2. NotBefore(Effect(tx, fetched), cursor.next)
    <3>1. Fetching /\ NotBefore(tx, cursor.next - 1)
      BY <1>5, <1>a DEF ExecStatement, Fetching
    <3>2. \A k \in Key :
            \/ Effect(tx, fetched)[k] = At(cursor.next)[k]
            \/ Effect(tx, fetched)[k] = tx[k] /\ tx[k] # At(cursor.next - 1)[k]
      BY <1>0, <1>c, <3>1, EffectCatchesUp
    <3> QED
      BY <3>1, <3>2, NotBeforeNext
  <2>3. pc' = "fetch" /\ sqltype' \notin {"begin", "commit"}
    BY <1>5 DEF ExecStatement, Fetching
  <2> QED
    BY <1>5, <1>a, <2>1, <2>2, <2>3 DEF ExecStatement, NotBefore, At
<1>6. CASE SkipDuplicate
  <2>1. cursor'.next - 1 = cursor.next
    BY <1>0, <1>6, AdvanceFacts DEF SkipDuplicate
  <2>2. Fetching /\ sqltype = "begin"
    BY <1>6 DEF SkipDuplicate, TypeOf
  <2>3. NotBefore(target, cursor.next)
    <3>1. NotBefore(target, cursor.next - 1) /\ Duplicate(target, fetched)
      BY <1>6, <1>a, <2>2 DEF SkipDuplicate, Fetching
    <3>2. fetched \in Statement
      BY <1>6, FetchedKind DEF SkipDuplicate
    <3>3. \A k \in Key : target[k] = At(cursor.next)[k] \/ target[k] # At(cursor.next - 1)[k]
      BY <1>0, <1>c, <2>2, <3>1, <3>2, SkipCatchesUp
    <3> QED
      BY <2>2, <3>1, <3>3, NotBeforeNext
  <2> QED
    BY <1>6, <1>a, <2>1, <2>2, <2>3 DEF SkipDuplicate, Fetching, NotBefore, At
<1>7. CASE ExecCommit
  <2>1. cursor'.next - 1 = cursor.next
    BY <1>0, <1>7, AdvanceFacts DEF ExecCommit
  <2>2. At(cursor.next) = At(cursor.next - 1)
    BY <1>7, FetchedAt, FetchedKind DEF ExecCommit
  <2>3. NotBefore(tx, cursor.next)
    <3>1. \A k \in Key : tx[k] = At(cursor.next)[k] \/ tx[k] # At(cursor.next - 1)[k]
      BY <2>2
    <3> QED
      BY <1>7, <1>a, <3>1, NotBeforeNext DEF ExecCommit, Fetching
  <2> QED
    BY <1>7, <2>1, <2>3 DEF ExecCommit, Fetching, NotBefore, At
<1>8. CASE DuplicateExit
  BY <1>8, <1>a DEF DuplicateExit, Exit, NotBefore, At
<1>9. CASE AbortExit
  BY <1>9, <1>a DEF AbortExit, Exit, NotBefore, At
<1>10. CASE ErrorExit
  BY <1>10, <1>a DEF ErrorExit, Exit, NotBefore, At
<1>11. CASE Abort
  BY <1>11, <1>a DEF Abort, NotBefore, At
<1>12. CASE Crash
  <2>1. CASE UNCHANGED target
    <3>1. pc' = "stopped" /\ tx' = target /\ UNCHANGED <<apply_id, sync_sqls>>
      BY <1>12, <2>1 DEF Crash
    <3> QED
      BY <1>a, <2>1, <3>1 DEF NotBefore, At
  <2>2. CASE Fetching /\ fetched.op = "commit" /\ target' = tx
    <3>1. NotBefore(tx, apply_id)
      BY <1>0, <1>a, <1>b, <2>2, NotBeforeLess DEF Fetching
    <3>2. pc' = "stopped" /\ tx' = tx /\ UNCHANGED <<apply_id, sync_sqls>>
      BY <1>12, <2>2 DEF Crash
    <3> QED
      BY <2>2, <3>1, <3>2 DEF NotBefore, At
  <2> QED
    BY <1>12, <2>1, <2>2 DEF Crash
<1>13. CASE Restart
  <2>1. NotBefore(target, status_id)
    BY <1>0, <1>a, NotBeforeLess
  <2>2. tx = target
    BY <1>13 DEF Restart, TxIsTarget
  <2> QED
    BY <1>13, <2>1, <2>2 DEF Restart, NotBefore, At
<1>14. CASE UNCHANGED vars
  BY <1>14, <1>a DEF vars, NotBefore, At
<1> QED
  BY <1>1, <1>2, <1>3, <1>4, <1>5, <1>6, <1>7, <1>8, <1>9, <1>10, <1>11, <1>12, <1>13,
     <1>14, <1>15 DEF Next, Run

-----------------------------------------------------------------------------
LEMMA InitIInv == Init => IInv
<1> SUFFICES ASSUME Init PROVE IInv
  OBVIOUS
<1>1. TypeOK
  BY InitTypeOK
<1>2. sync_sqls = <<>> /\ Len(sync_sqls) = 0 /\ DOMAIN sync_sqls = {}
  BY DEF Init
<1>3. At(0) = EmptyDb
  <2>1. SubSeq(sync_sqls, 1, 0) = <<>>
    BY SubSeqEmpty
  <2> QED
    BY <2>1, ReplayEmpty DEF At
<1>4. LogIsFramed /\ LogIsExecutable
  BY <1>2 DEF LogIsFramed, LogIsExecutable
<1>5. PositionsAreOrdered /\ TxIsTarget
  BY DEF Init, PositionsAreOrdered, TxIsTarget
<1>6. NeverAgain
  BY <1>3 DEF Init, NeverAgain
<1>7. NotBehind
  <2>1. \A k \in Key : target[k] = At(0)[k] /\ tx[k] = At(0)[k]
    BY <1>3 DEF Init
  <2>2. 0 \in 0 .. 0
    OBVIOUS
  <2> QED
    BY <1>2, <2>1, <2>2 DEF Init, NotBehind, NotBefore
<1> QED
  BY <1>1, <1>4, <1>5, <1>6, <1>7 DEF IInv

(* The inductive invariant holds.                                          *)
THEOREM Inductive == Safety => []IInv
<1>1. IInv /\ [Next]_vars => IInv'
  BY NextTypeOK, LogStep, PositionsStep, TxStep, AgainStep, BehindStep DEF IInv
<1> QED
  BY InitIInv, <1>1, PTL DEF Safety

(* Until rows are applied again the target is at apply_id: what was        *)
(* committed there is what the source committed up to it, no statement     *)
(* more or less.                                                           *)
THEOREM AtApplyId == Safety => []TargetAtApplyId
<1>1. IInv => TargetAtApplyId
  BY DEF IInv, NeverAgain, TargetAtApplyId, At
<1> QED
  BY <1>1, Inductive, PTL

(* Only a row that is applied again meets its own duplicate.               *)
THEOREM DuplicatesHaveACause == Safety => []DuplicatesComeBack
<1>1. IInv => DuplicatesComeBack
  <2> SUFFICES ASSUME IInv, Fetching, ~again, Duplicate(tx, fetched)
               PROVE  FALSE
    BY DEF DuplicatesComeBack
  <2>1. tx = At(cursor.next - 1)
    BY DEF IInv, NeverAgain, Fetching
  <2>2. fetched \in Statement
    <3>1. fetched \in Row
      BY FetchedRow DEF IInv
    <3>2. fetched.op \in {"insert", "move"}
      BY DEF Duplicate
    <3> QED
      BY <3>1, <3>2, RowKinds
  <2>3. ~Duplicate(At(cursor.next - 1), fetched)
    BY <2>2, FetchedAt DEF IInv, Executable
  <2> QED
    BY <2>1, <2>3
<1> QED
  BY <1>1, Inductive, PTL

(* However often rows are applied again, when the thread is at the end the *)
(* target is what the source is, if no update changed a key and no first   *)
(* statement was lost after a refused FETCH.                               *)
THEOREM CatchesUp == Safety => []Converges
<1>1. IInv => Converges
  <2> SUFFICES ASSUME IInv, apply_id = Len(sync_sqls), KeysStay, ~lost
               PROVE  target = Replay(sync_sqls)
    BY DEF Converges, AllApplied, CaughtUp
  <2> DEFINE n == Len(sync_sqls)
  <2>1. sync_sqls \in Seq(Row) /\ n \in Nat /\ target \in Db
    BY LenProperties DEF IInv, TypeOK, Row
  <2>2. At(n) = Replay(sync_sqls) /\ Replay(sync_sqls) \in Db
    BY <2>1, SubSeqFull, ReplayIsDb DEF At
  <2>3. NotBefore(target, n)
    BY DEF IInv, NotBehind
  <2>4. ASSUME NEW k \in Key PROVE target[k] = Replay(sync_sqls)[k]
    <3>1. PICK j \in n .. n : target[k] = At(j)[k]
      BY <2>3 DEF NotBefore
    <3>2. j = n
      BY <2>1
    <3> QED
      BY <2>2, <3>1, <3>2
  <2> QED
    BY <2>1, <2>2, <2>4 DEF Db
<1> QED
  BY <1>1, Inductive, PTL
=============================================================================
