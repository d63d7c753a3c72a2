-------------------------------- MODULE Apply --------------------------------
(***************************************************************************)
(* The applying half of the incremental sync: logical_decoding_apply_thread *)
(* of pgsync.c.  It reads the rows of the local table sync_sqls in id      *)
(* order through a cursor and executes each at the target as it stands:    *)
(* "begin;", statements, "commit;".  It remembers in apply_id the last     *)
(* commit row it executed and writes it to db_sync_status now and then; a  *)
(* restart goes on from the written one, so what was applied since is      *)
(* applied again.                                                          *)
(*                                                                         *)
(* The target is one table with a primary key, a function from keys to     *)
(* values or Absent.  A row of sync_sqls has an op, the key it is about    *)
(* and an argument: the value of an insert or an update, the new key of a  *)
(* "move", which is an update of the key.                                  *)
(***************************************************************************)
EXTENDS Integers, Sequences

CONSTANTS
  Key,           \* primary keys
  Value,         \* what a row can hold besides its key
  Absent,        \* the value of a key without a row
  None,          \* the key and the argument of a row that has none
  Ops,           \* the kinds of statements of the workload
  MaxStmt,       \* the most statements of a transaction
  MaxTxn,        \* how many transactions get staged
  PersistEvery,  \* commits between two writes of apply_id: 5 in the code
  ServerMayFail  \* whether the local or the target server may refuse a command

ASSUME OpsAssumption == Ops \subseteq {"insert", "update", "delete", "move"}
ASSUME BoundAssumption ==
  /\ MaxStmt \in Nat /\ MaxTxn \in Nat
  /\ PersistEvery \in Nat \ {0}
ASSUME SwitchAssumption == ServerMayFail \in BOOLEAN
ASSUME AbsentAssumption == Absent \notin Value

VARIABLES
  sync_sqls,      \* the staged rows, by id (written by the receive thread)
  target,         \* the committed rows of the target
  tx,             \* what the open target transaction sees
  apply_id,       \* apply_id of the thread
  status_id,      \* apply_id of db_sync_status
  cursor,         \* the next row to fetch and the last one the cursor sees
  sqltype,        \* the kind of the last statement
  n_commit,       \* commits since apply_id was written
  pc,             \* where the thread is
  time_to_abort,  \* the global flag
  again,          \* some rows may be applied a second time
  lost            \* a statement was left out that only the open transaction had

vars == <<sync_sqls, target, tx, apply_id, status_id, cursor, sqltype, n_commit,
          pc, time_to_abort, again, lost>>

Db == [Key -> Value \union {Absent}]
EmptyDb == [k \in Key |-> Absent]

Sql(op, k, a) == [op |-> op, key |-> k, arg |-> a]
BeginRow == Sql("begin", None, None)
CommitRow == Sql("commit", None, None)
Statement ==
  {r \in [op : Ops, key : Key, arg : Key \union Value \union {None}] :
     CASE r.op \in {"insert", "update"} -> r.arg \in Value
       [] r.op = "delete" -> r.arg = None
       [] r.op = "move" -> r.arg \in Key \ {r.key}}

-----------------------------------------------------------------------------
(* The databases (external).                                               *)

Present(db, k) == db[k] # Absent

(* A statement violates the primary key.                                   *)
Duplicate(db, r) ==
  \/ r.op = "insert" /\ Present(db, r.key)
  \/ r.op = "move" /\ Present(db, r.key) /\ Present(db, r.arg)

(* What a statement does to the rows; one that matches none does nothing.  *)
Effect(db, r) ==
  CASE r.op = "insert" -> [db EXCEPT ![r.key] = r.arg]
    [] r.op = "update" /\ Present(db, r.key) -> [db EXCEPT ![r.key] = r.arg]
    [] r.op = "delete" -> [db EXCEPT ![r.key] = Absent]
    [] r.op = "move" /\ Present(db, r.key) ->
         [db EXCEPT ![r.key] = Absent, ![r.arg] = db[r.key]]
    [] OTHER -> db

(* The rows a sequence of statements leaves when all succeed.              *)
Replay(rows) ==
  LET after[n \in 0 .. Len(rows)] ==
        IF n = 0 THEN EmptyDb ELSE Effect(after[n - 1], rows[n])
  IN  after[Len(rows)]

(* The source executed it on db: the row it names was there, or was not.   *)
Executable(db, r) == ~Duplicate(db, r) /\ (r.op # "insert" => Present(db, r.key))

(* The statements of one source transaction.                               *)
Transaction(db) ==
  {s \in UNION {[1 .. n -> Statement] : n \in 1 .. MaxStmt} :
     \A i \in 1 .. Len(s) :
       LET before[n \in 0 .. i - 1] ==
             IF n = 0 THEN db ELSE Effect(before[n - 1], s[n])
       IN  Executable(before[i - 1], s[i])}

-----------------------------------------------------------------------------
Init ==
  /\ sync_sqls = <<>>
  /\ target = EmptyDb /\ tx = EmptyDb
  /\ apply_id = 0 /\ status_id = 0
  /\ cursor = [next |-> 1, last |-> 0]
  /\ sqltype = "begin"
  /\ n_commit = 0
  /\ pc = "declare"
  /\ time_to_abort = FALSE
  /\ again = FALSE /\ lost = FALSE

IsCommitRow(r) == r.op = "commit"

Staged == Len(SelectSeq(sync_sqls, IsCommitRow))

(* The receive thread commits the rows of one source transaction.          *)
Stage ==
  /\ Staged < MaxTxn
  /\ \E s \in Transaction(Replay(sync_sqls)) :
       sync_sqls' = sync_sqls \o <<BeginRow>> \o s \o <<CommitRow>>
  /\ UNCHANGED <<target, tx, apply_id, status_id, cursor, sqltype, n_commit, pc,
                 time_to_abort, again, lost>>

(* The top of the outer loop: a cursor over the rows after apply_id, as    *)
(* far as they are committed now.                                          *)
Declare ==
  /\ pc = "declare"
  /\ ~time_to_abort
  /\ cursor' = [next |-> apply_id + 1, last |-> Len(sync_sqls)]
  /\ n_commit' = 0
  /\ sqltype' = "begin"
  /\ pc' = "fetch"
  /\ UNCHANGED <<sync_sqls, target, tx, apply_id, status_id, time_to_abort,
                 again, lost>>

(* update_task_status: an UPDATE whose result nobody looks at.             *)
Persist(id) == status_id' = id \/ (ServerMayFail /\ UNCHANGED status_id)

(* Mutant of FetchNothing: apply_id becomes the largest id of the table.   *)
FetchNothingToTheEnd ==
  /\ pc = "fetch"
  /\ ~time_to_abort
  /\ cursor.next > cursor.last
  /\ apply_id' = Len(sync_sqls)
  /\ IF n_commit # 0 THEN Persist(apply_id) ELSE UNCHANGED status_id
  /\ n_commit' = 0
  /\ pc' = "declare"
  /\ UNCHANGED <<sync_sqls, target, tx, cursor, sqltype, time_to_abort,
                 again, lost>>

(* Mutant of FetchNothing: the old cursor is fetched from again.           *)
FetchNothingAgain ==
  /\ pc = "fetch"
  /\ ~time_to_abort
  /\ cursor.next > cursor.last
  /\ IF n_commit # 0 THEN Persist(apply_id) ELSE UNCHANGED status_id
  /\ n_commit' = 0
  /\ UNCHANGED <<sync_sqls, target, tx, apply_id, cursor, sqltype, pc, time_to_abort,
                 again, lost>>

(* No row left: apply_id is written if there were commits since the last   *)
(* write, and the thread sleeps before it declares a new cursor.           *)
FetchNothing ==
  /\ pc = "fetch"
  /\ ~time_to_abort
  /\ cursor.next > cursor.last
  /\ IF n_commit # 0 THEN Persist(apply_id) ELSE UNCHANGED status_id
  /\ n_commit' = 0
  /\ pc' = "declare"
  /\ UNCHANGED <<sync_sqls, target, tx, apply_id, cursor, sqltype, time_to_abort,
                 again, lost>>

(* A refused FETCH does not leave the loop.  Its result is cleared and then *)
(* asked for its rows: it has none (or the freed memory kills the process, *)
(* as in Crash).  So the thread goes on as if the rows had ended, with the *)
(* transaction at the target still open.                                   *)
FetchRefused ==
  /\ ServerMayFail
  /\ pc = "fetch"
  /\ ~time_to_abort
  /\ IF n_commit # 0 THEN Persist(apply_id) ELSE UNCHANGED status_id
  /\ n_commit' = 0
  /\ pc' = "declare"
  /\ again' = (again \/ cursor.next > apply_id + 1)
  /\ UNCHANGED <<sync_sqls, target, tx, apply_id, cursor, sqltype, time_to_abort, lost>>

fetched == sync_sqls[cursor.next]

TypeOf(r) ==
  CASE r.op = "begin" -> "begin"
    [] r.op = "commit" -> "commit"
    [] r.op \notin {"begin", "commit"} /\ sqltype = "begin" -> "first"
    [] OTHER -> "other"

Fetching ==
  /\ pc = "fetch"
  /\ ~time_to_abort
  /\ cursor.next <= cursor.last

Advance == cursor' = [cursor EXCEPT !.next = @ + 1]

(* "begin;" opens a transaction; inside one it is only a warning, so tx    *)
(* goes on.                                                                *)
ExecBegin ==
  /\ Fetching
  /\ fetched.op = "begin"
  /\ sqltype' = "begin"
  /\ Advance
  /\ UNCHANGED <<sync_sqls, target, tx, apply_id, status_id, n_commit, pc,
                 time_to_abort, again, lost>>

ExecStatement ==
  /\ Fetching
  /\ TypeOf(fetched) \in {"first", "other"}
  /\ ~Duplicate(tx, fetched)
  /\ tx' = Effect(tx, fetched)
  /\ sqltype' = TypeOf(fetched)
  /\ Advance
  /\ UNCHANGED <<sync_sqls, target, apply_id, status_id, n_commit, pc, time_to_abort,
                 again, lost>>

(* A duplicate key on the first statement: END, which rolls the failed     *)
(* transaction back, BEGIN, and the statement is left out.  That is right  *)
(* where the target has its row, and a loss where only the transaction had *)
(* it that was just rolled back.                                           *)
SkipDuplicate ==
  /\ Fetching
  /\ TypeOf(fetched) = "first"
  /\ Duplicate(tx, fetched)
  /\ tx' = target
  /\ sqltype' = "begin"
  /\ Advance
  /\ lost' = (lost \/ ~Duplicate(target, fetched))
  /\ UNCHANGED <<sync_sqls, target, apply_id, status_id, n_commit, pc, time_to_abort,
                 again>>

(* Mutant of ExecCommit: the counter goes one too far.                      *)
ExecCommitLate ==
  /\ Fetching
  /\ fetched.op = "commit"
  /\ target' = tx
  /\ apply_id' = cursor.next
  /\ sqltype' = "commit"
  /\ IF n_commit = PersistEvery
     THEN n_commit' = 0 /\ Persist(cursor.next)
     ELSE n_commit' = n_commit + 1 /\ UNCHANGED status_id
  /\ Advance
  /\ UNCHANGED <<sync_sqls, tx, pc, time_to_abort, again, lost>>

(* Mutant of ExecCommit: apply_id moves only when it is written.            *)
ExecCommitUncounted ==
  /\ Fetching
  /\ fetched.op = "commit"
  /\ target' = tx
  /\ sqltype' = "commit"
  /\ IF n_commit + 1 = PersistEvery
     THEN n_commit' = 0 /\ Persist(cursor.next) /\ apply_id' = cursor.next
     ELSE n_commit' = n_commit + 1 /\ UNCHANGED <<status_id, apply_id>>
  /\ Advance
  /\ UNCHANGED <<sync_sqls, tx, pc, time_to_abort, again, lost>>

(* "commit;", then every PersistEvery commits the write of apply_id.       *)
ExecCommit ==
  /\ Fetching
  /\ fetched.op = "commit"
  /\ target' = tx
  /\ apply_id' = cursor.next
  /\ sqltype' = "commit"
  /\ IF n_commit + 1 = PersistEvery
     THEN n_commit' = 0 /\ Persist(cursor.next)
     ELSE n_commit' = n_commit + 1 /\ UNCHANGED status_id
  /\ Advance
  /\ UNCHANGED <<sync_sqls, tx, pc, time_to_abort, again, lost>>

(* goto exit: the connections are closed, which rolls the open transaction *)
(* back, and the process is told to stop.                                  *)
Exit ==
  /\ tx' = target
  /\ time_to_abort' = TRUE
  /\ pc' = "stopped"
  /\ UNCHANGED <<sync_sqls, target, apply_id, status_id, cursor, sqltype, n_commit,
                 again, lost>>

(* A duplicate key anywhere else ends the thread.                          *)
DuplicateExit ==
  /\ Fetching
  /\ TypeOf(fetched) = "other"
  /\ Duplicate(tx, fetched)
  /\ Exit

(* So does any other error of the target, and a BEGIN or a DECLARE (not a  *)
(* FETCH) that the local server refuses.                                   *)
ErrorExit ==
  /\ ServerMayFail
  /\ Fetching \/ (pc = "declare" /\ ~time_to_abort)
  /\ Exit

(* Both loops end when the flag is set.                                    *)
AbortExit ==
  /\ time_to_abort
  /\ pc \in {"declare", "fetch"}
  /\ Exit

(* SIGINT, or the receive thread gave up.                                  *)
Abort ==
  /\ ~time_to_abort /\ pc # "stopped"
  /\ time_to_abort' = TRUE
  /\ UNCHANGED <<sync_sqls, target, tx, apply_id, status_id, cursor, sqltype, n_commit,
                 pc, again, lost>>

(* The process is gone: an empty statement or a broken connection gives an *)
(* error without an SQLSTATE, and atoi(NULL) kills the process; or it is   *)
(* killed.  A COMMIT that was under way may have taken effect.             *)
Crash ==
  /\ pc \in {"declare", "fetch"}
  /\ \/ UNCHANGED target
     \/ Fetching /\ fetched.op = "commit" /\ target' = tx
  /\ tx' = target'
  /\ pc' = "stopped"
  /\ UNCHANGED <<sync_sqls, apply_id, status_id, cursor, sqltype, n_commit,
                 time_to_abort, again, lost>>

(* The process is started again: get_apply_status.                         *)
Restart ==
  /\ pc = "stopped"
  /\ apply_id' = status_id
  /\ n_commit' = 0
  /\ sqltype' = "begin"
  /\ cursor' = [next |-> 1, last |-> 0]
  /\ time_to_abort' = FALSE
  /\ pc' = "declare"
  /\ again' = TRUE
  /\ UNCHANGED <<sync_sqls, target, tx, status_id, lost>>

Run ==
  \/ Declare \/ FetchNothing
  \/ ExecBegin \/ ExecStatement \/ SkipDuplicate \/ ExecCommit
  \/ DuplicateExit \/ AbortExit

Next == Stage \/ Run \/ FetchRefused \/ ErrorExit \/ Abort \/ Crash \/ Restart

Safety == Init /\ [][Next]_vars

-----------------------------------------------------------------------------
(* Every variable has its type.                                            *)
TypeOK ==
  /\ sync_sqls \in Seq(Statement \union {BeginRow, CommitRow})
  /\ target \in Db /\ tx \in Db
  /\ apply_id \in 0 .. Len(sync_sqls)
  /\ status_id \in 0 .. Len(sync_sqls)
  /\ cursor \in [next : Nat \ {0}, last : 0 .. Len(sync_sqls)]
  /\ sqltype \in {"begin", "first", "other", "commit"}
  /\ n_commit \in 0 .. PersistEvery - 1
  /\ pc \in {"declare", "fetch", "stopped"}
  /\ time_to_abort \in BOOLEAN
  /\ again \in BOOLEAN /\ lost \in BOOLEAN

(* The thread has gone through all rows and lives.                         *)
CaughtUp == pc # "stopped" /\ apply_id = Len(sync_sqls)

(* Whenever the thread has gone through all staged rows, in one go or over *)
(* restarts that applied some of them again, the target holds what the     *)
(* source holds, provided that no update changes a key: one that is        *)
(* applied again can move a row that was inserted since.                   *)
KeysStay == \A i \in DOMAIN sync_sqls : sync_sqls[i].op # "move"
AllApplied == CaughtUp /\ KeysStay => target = Replay(sync_sqls)

(* The same, but for a statement that was lost after a refused FETCH.      *)
Converges == ~lost => AllApplied

(* Until the first restart, and the first FETCH that is refused within a   *)
(* transaction, the committed rows are exactly those of the transactions   *)
(* up to apply_id: no statement is left out or applied twice.              *)
TargetAtApplyId ==
  ~again /\ pc # "stopped" =>
    target = Replay(SubSeq(sync_sqls, 1, apply_id))

(* Only a row that is applied a second time meets its own duplicate, which *)
(* leaves a statement out or ends the thread.                              *)
DuplicatesComeBack == Fetching /\ Duplicate(tx, fetched) => again
=============================================================================
