# rds_dbsync in TLA+

rds_dbsync moves a database into PostgreSQL or Greenplum. `pgsql2pgsql` copies a
PostgreSQL source in full and then follows its changes through a logical slot;
`mysql2pgsql` copies a MySQL source in full. This directory holds a model of the
program in TLA+, what the model checker TLC finds out about small instances of
it, and proofs, checked by TLAPS, of what holds for instances of every size.

## 1. Inventory

| Component | Code | State it keeps | Operations | Module |
|---|---|---|---|---|
| task queue | `pgsync.c` 106-137, 418-452; `mysql2pgsql.c` 506-532 | `th_hd.ntask`, `th_hd.l_task`, `t_lock`; each thread's `nlist`, `curr` | lock, read the counter, take the last / the head / nothing, unlock | `TaskQueue` |
| full copy, PostgreSQL | `pgsync.c` `copy_table_data`, waits in `db_sync_main` | rows sent, `complete`, `count`, `all_ok`; the target's tables | connect, dequeue, open the COPY, move a row, end, commit, give up, report | `CopyPool` |
| sessions of a copy | `misc.c` 85-106, 133-340; `pgsync.c` 139-226 | the transactions, snapshots and settings at both servers | begin, import the snapshot, set, copy, roll back, commit | `CopySession` |
| full copy, MySQL | `mysql2pgsql.c` | the same as above with a buffer, the columns' types, `get_ddl_only`, `time_to_abort` | the same, SIGINT, print DDL, a row's text | `MysqlCopy`, `Literals` |
| `db_sync_main` | `pgsync.c` 239-658 | the row of `db_sync_status`, the slot, the snapshot | decide on the status, ensure the slot, open the snapshot, create threads, mark start and end | `DbSync` |
| stream receiver | `utils.c` `exec_logical_decoder`, `sendFeedback`, `init_streaming`; `pgsync.c` 660-798 | `startpos`, `recvpos`, `flushpos`, the open local transaction, `sync_sqls` | connect, receive, keepalive, status packet, stage a row, END, stop | `Receive` |
| apply thread | `pgsync.c` 800-1028 | `apply_id`, `n_commit`, `sqltype`, the cursor, the target's transaction | declare, fetch, execute, skip a duplicate, commit, persist | `Apply` |
| wire format | `ali_decoding.c`, `pg_logicaldecode.c` | `hander->msg` | write and read the messages of begin, row change and commit | `Wire` |
| SQL generation | `utils.c` 118-669, 1684-1824; `misc.c` 133-158 | none | a statement for a decoded change, a literal for a value | `SqlGen`, `Literals` |
| configuration | `ini.c`, `readcfg.cpp` | the file's text, cut in place | load and cut, look a key up | `IniFile` |
| table list | `dbsync-mysql2pgsql.c` 136-277 | the file's text, cut in place; `table_array`, `query_array` | read, cut a line | `TableList` |
| entry points | `main` of `dbsync-mysql2pgsql.c`, `dbsync-pgsql2pgsql.c` | the options and the values of the configuration | options, configuration, checks, list, start | `Startup` |
| buffers, demo | `stringinfo.c`, `pqformat.c`, `demo.cpp` | | | not modelled (section 8) |

### How the parts interact

* `db_sync_main` builds an array of tasks and a list through it, starts one copy
  thread per `nthread`, and, if there is a slot, the receive thread. The copy
  threads share nothing but the list, its counter and the mutex. The main thread
  joins them, writes `full_s_end`, sums up, and only then starts the apply thread.
* The receive thread reads messages from the source, turns each into a statement
  and inserts it into the local table `sync_sqls`, one local transaction per
  source transaction. It tells the source how far it is in status packets.
* The apply thread reads `sync_sqls` by id through a cursor and executes the rows
  at the target as they stand. It writes its position to the local table
  `db_sync_status` every five commits, or when there is nothing to read.
* A copy thread has a session at either server and for each table a transaction in
  both: the source's imports the snapshot that the main thread's transaction keeps and
  is rolled back, the target's is committed.
* `main` reads the configuration and the list of tables, checks what must be there and
  calls `db_sync_main` or `mysql2pgsql_sync_main`, which makes its tasks of the list.
* `time_to_abort`, raised by SIGINT or by either thread on its way out, is looked
  at in the threads' loops.
* What survives a crash is the slot at the source, `db_sync_status` and
  `sync_sqls` in the local database, and the target.

### What is hard about it, and what makes it correct

* **Full copy.** Threads interleave at the queue; each can fail anywhere, and its
  table is put back nowhere. *Each table has one copier; a table appears whole or
  not at all; what is reported complete is there; a failure costs one table and is
  reported; the job ends.*
* **Sessions of a copy.** Nobody looks at whether the transactions were begun, the
  snapshot imported, the settings made. *Where the transactions were begun, tables are
  loaded from one snapshot and in one format all the same, because a server refuses what
  follows in a broken transaction.* Where they were not, as with a Greenplum target,
  nothing holds that together (section 6).
* **`db_sync_main`.** Which of copy and stream a start does depends on two times
  that earlier runs wrote, and each run can die between any two steps. *No row
  falls between the copy and the stream; the stream is not applied before the copy
  is over; `full_s_end` means an end.*
* **Receiver.** Three positions run at different speeds, transactions overlap in
  the WAL so that positions go back, the stream breaks, status packets fail, local
  commands fail. *The source forgets only what is durable; what is asked for after
  a break is everything that is not; rows are staged whole and in order.*
* **Apply thread.** A restart applies up to five transactions again, with a rule
  for duplicate keys that ends and begins a transaction in the middle; so does a FETCH
  that is refused. *The target converges all the same, unless that rule takes back what
  only the open transaction had; nothing staged is skipped.*
* **Row change.** Which tuples a message has depends on operation, identity and
  change; dropped, out-of-line and quoted columns are special on every leg, and so are
  values with quotes and backslashes and numbers that are none. *The statement does at
  the target what the change did at the source, to that row and no other.*
* **Reading the files.** Both texts are cut where they stand, by pointers that run past
  an end or in front of a beginning, and the configuration is then read by counting
  strings. *What is found is what the lines say.*

`PROJECT.json` lists the hazards one by one with their lines and the properties
that would notice.

## 2. Modules

```
            CopyJob (what a copy promises)      StagingLog (what staging promises)
               ^               ^                        ^
 TaskQueue -> CopyPool      MysqlCopy <- Literals    Receive      Apply
                                             |          ^           ^
                                 DbSync      |          +- Pipeline-+
                            (at the grain of |
 CopySession                 CopyJob,        +-> SqlGen <- Wire
 (what a thread's            StagingLog)           |
  servers see)                                  RowChange
                                       Text -> IniFile, TableList -> Startup

 Proofs: CopyPool, CopySession, MysqlCopy, DbSync (with Startup), Apply,
 RowChange and Pipeline (with Receive, which it extends) each have a module ..._proofs;
 what they share is in Induction.
```

`X -> Y`: Y extends X. `CopyPool` and `MysqlCopy` implement `CopyJob`, `Receive`
implements `StagingLog`, each by a refinement mapping at the end of the module.
`Pipeline` extends `Receive` and instantiates `Apply`. The `MC...` modules give
the constants their values.

* **`TaskQueue`**: the list is `l_task` and `ntask`, as two variables, with one
  step per access under the lock; `NextOf` is the `next` of the array. Used by both
  copies, whose dequeues are the same text.
* **`CopyPool`**: `pc[w]` is the place of a thread in `copy_table_data`. `target[t]`
  counts the committed rows of table t, `moved[w]` those of the open COPY.
  `CopyFails` is every `goto exit`. `Report` is the join and the loop over `all_ok`.
  An error of the origin in mid table (`OriginMayFail`) looks like the end of its rows.
* **`CopySession`**: one thread and its two connections, statement by statement. `tx` is
  what the server has for a transaction, `now_set` and `kept` are the settings in force
  and those that a rollback goes back to. `seen[t]` is what the target has of a table:
  the time it was read at, and the settings it was written and read under. `Garbled` is
  the text that the origin is sent for a Greenplum target, which it refuses
  (`BeginGarbled`): the COPY that follows is in no transaction.
* **`MysqlCopy`**: the same as `CopyPool` for `mysql2pgsql_copy_data`, where a row goes
  into a buffer (`row_count` was read, `sent` has left the buffer), SIGINT is looked at
  after a row, and the end of the result and a failed fetch are one case (`EndRows`). A
  row is its values: `fetch_colmum_info` gives the types, `RowText` quotes, `Read` is
  what the target's COPY makes of the text. A value is quoted up to its first NUL
  (`strlen`, `CString` in `Literals`).
* **`DbSync`**: `wal[c]` is the table that commit c added a row to. A copy of a
  table takes the rows before the snapshot it runs under; `copied` and `loads` count
  how often, so that a second copy is visible. `receiving` is whether the receive thread
  lives; `ReceiverEnds` is its silent exit.
* **`Receive`**: a message is named by its transaction and its place in it; `Pos`
  gives its position in the WAL. The walsender is external: it sends committed
  transactions whole and in commit order, leaves out those whose commit record is
  before the starting point, and takes over the flush position of a status packet. A
  reconnect can fail (`ConnectFails`), before or after `IDENTIFY_SYSTEM`.
* **`Apply`**: a row of `sync_sqls` is an operation on a key. `fetched`, `TypeOf` and
  the `Exec...` actions are the body of the inner loop, split by what the target
  answers. `Crash` is also `atoi(NULL)` after an error without an SQLSTATE. A refused
  FETCH does not end the thread (`FetchRefused`). `again` records that rows may be
  applied a second time, `lost` that a statement was left out which the target lacks.
* **`Pipeline`**: both threads over one `sync_sqls` and one `time_to_abort`; a restart
  takes both.
* **`Wire`**: `Encode` is the plugin's three callbacks; `Decode` is the `memset` and
  `bdr_process_remote_action`. A message is a sequence of tagged items, so that a
  reader at the wrong item reads nonsense, as in the code.
* **`SqlGen`**: operators with the names of the C functions. A statement is the set of
  its assignments and of the equations of its WHERE; of its commas there is a count,
  because one too many is an error.
* **`Literals`**: `quote_literal_internal`, `quote_literal_local` and its MySQL
  counterpart on sequences of characters, and beside them how a PostgreSQL parser and
  COPY in csv format read the result (external).
* **`RowChange`**: transactions, message after message, from the source through `Wire`
  and `SqlGen` to the target, over a table whose kind is chosen at the start.
* **`Text`**: sequences of characters cut into lines and trimmed, for the definitions of
  what a line means.
* **`IniFile`**: `data` is the text and `at` the pointer of `split_data`; one step is one
  turn of its loop, which writes NULs into the text. `Lookup` is `ini_get`'s walk over
  the strings that this leaves; `MeantBy` is what the lines say.
* **`TableList`**: one step is one line. `tables` and `queries` are pointers into
  `list`; `reach` is the last place of the text that a line made the code look at;
  `TaskList` is what the pool gets, `ListedBy` what the lines say.
* **`Startup`**: both `main` functions from their options to the start of the work.
* **`..._proofs`**: the inductive invariant of the module, its lemmas and the theorems of
  section 4. Each names its assumptions. **`Induction`**: the least number with a
  property, induction over numbers and finite sets, recursive functions and sums as what
  their equations say, and what the concatenation of two sequences is.

## 3. What each run shows

| Run | Instance | Shows |
|---|---|---|
| `CopyPool` | 3 threads, 3 tables of 2, 0, 2 rows | one copier per table, true reports, failures cost one table each, the job ends, `CopyJob` is implemented |
| `CopySession` | 2 tables, 2 commits, servers before and after the last new setting, with and without a snapshot, Greenplum or not, any statement refused | one snapshot and one format where both BEGINs were accepted, a table is given up only for a fault |
| `MysqlCopy` | 2 threads, 3 tables of 1, 0, 3 rows, SIGINT, with and without `-d`; values with quotes, separators, newlines, nothing, null, a NUL, a date of zeros | what is reported complete is loaded value by value, the job ends, `CopyJob`'s steps are implemented |
| `Receive` | 3 overlapping transactions, 1 break or failed reconnect, 1 restart, local failures | only what is durable is confirmed or skipped, everything gets staged, `StagingLog` is implemented: `sync_sqls` grows by whole transactions in commit order |
| `Apply` | any 2 transactions of up to 2 statements over 2 keys and 2 values, `PersistEvery` 2, crashes and refused commands without bound | convergence in spite of repetition, exactness until the first restart or refused FETCH, duplicates only of what was applied before |
| `DbSync` | 2 tables, 2 commits, 2 starts, crashes anywhere, local server out of reach for the main or the receive thread | no gap, no stream before the copy, no end before the end, all that was staged is applied |
| `Pipeline` | 2 transactions, 1 restart, SIGINT, local failures | the target equals the source, every commit arrives unless a thread stops, an abort ends both threads |
| `RowChange` | 14 kinds of tables of up to 3 attributes, 2 rows, 2 values of each type and null, any sequence of transactions | encoder and decoder agree, the statement does what the change did, to no other row |
| `Startup` | both programs, every file of 3 lines out of 15 kinds, every list of up to 5 characters | the configuration and the list are read as their lines say, the first inside its text, the second at most one place behind and with room in its arrays |

Three runs are expected to find a violation. Each shows that the code does not do
what its documents or messages say:

| Run | What TLC finds |
|---|---|
| `CopyPoolPartial` | an error of the origin in the middle of `COPY TO` passes for its end, and the table is committed and reported complete |
| `PipelineStreamBreaks` | after a broken stream the local transaction stays open, half a transaction is staged in front of the whole one, and the duplicate-key rule then undoes work: the target lacks rows |
| `RowChangeToast` | an update that leaves an out-of-line value alone makes a literal of a null pointer: the process dies, or the value becomes null |

Further configurations, which are not among the runs of `PROJECT.json`, give a trace for
a limit of section 6 (`tlc -config <configuration>.cfg <module>`); TLC finds each of these
violated as well:

| Configuration | Module | Violates | What happens |
|---|---|---|---|
| `CopyPoolCommitFails` | `MCCopyPool` | `CompleteMeansCommitted` | a refused COMMIT is not noticed, and the table is reported complete |
| `CopySessionGreenplum` | `CopySession` | `SnapshotIsRead` | with a Greenplum target `BEGIN` and `SET TRANSACTION SNAPSHOT` are sent without a separator; the text is refused unnoticed, and the table is read outside of a transaction, later than the snapshot that the program announces |
| `MysqlCopyFetchFails` | `MCMysqlCopy` | `CompleteMeansLoaded` | a connection that breaks while rows are fetched passes for the end of the table |
| `MysqlCopyNul` | `MCMysqlCopy` | `ValuesArrive` | a value with a NUL is cut there, and its table reported complete |
| `ReceiveFeedbackFails` | `MCReceive` | `ConfirmedIsStaged` | the message in front of a status packet that cannot be sent is dropped, skipped by the reconnect, and confirmed later |
| `DbSyncReceiverEnds` | `DbSync` | `KeepsUp` | the receive thread ends without telling anyone: the process lives and nothing arrives any more |
| `ApplyFetchRefused` | `MCApply` | `AllApplied` | after a FETCH that is refused within a transaction the thread repeats the transaction inside of itself, and the duplicate-key rule undoes its own first statement, which is lost |

### Bounds, and why they are enough

* Three threads and three tables give every branch of the dequeue (more than one,
  one, none left) a competitor at each lock step; the empty table is the one whose
  copy ends without a row. In `MysqlCopy` a table of three rows has a buffer that is
  empty, part full and full at its end, and SIGINT before and after each of them.
* In `CopySession` the second table is the one that meets what the first left of a
  session. Version 80300 lacks two of the settings that 90400 has. A commit can be before
  and after the copy of either table.
* In `Startup` three lines let one stand behind what another left: every kind of line
  meets every kind in front of it and after it, with and without a newline at the end of
  the file. Five characters are a name, blanks around it, a colon and a second line.
* Three transactions of which the second starts in the WAL before the first commits
  make `recvpos` go back after a commit; one break or one restart at any place is
  what the handling of positions reacts to, and both occur in one run.
* In `Apply`, `PersistEvery` is 2 for the code's 5: what matters is that a commit can
  be repeated and that one can be not. A key and a value can each be the same or
  another one. Crashes are not bounded. Of two statements one can be the first of its
  transaction and one not, which is what the duplicate-key rule tells apart, and a
  refused FETCH can come before, between and after them; the proofs have no such bound.
* `DbSync` has two starts because the second is the one that reads what the first
  left, and two tables because one can be copied and the other not.
* In `RowChange` two rows are enough for a WHERE to find one too many; three
  attributes for one to be dropped in front, in between or at the end, with a key of
  one or two columns. A text has a quote or a backslash in it, a numeric can be NaN, a
  real one that is not exact. Every content of the table is an initial state, and changes follow
  each other as long as the target equals the source.

Bounds of the model are the constants `MaxDrop`, `MaxCrash`, `MaxStart`, `MaxCommit`,
`MaxTxn`, `MaxStmt`, `MaxAtt`, `NTxn`, `NTask`, `NTable`; each is in a guard or a domain of
the module that declares it. `Values`, `Relations`, `ConfigFiles` and `ListFiles` are the
inputs.

### Fairness

* `CopyPool`, `MysqlCopy`: weak fairness of each thread and of the main thread. The
  threads are POSIX threads whose calls to a server return, with a result or an
  error; nothing else is waited for but the mutex, and its holder always lets go.
* `Receive`: weak fairness of the thread's own steps. Breaks, failed reconnects and restarts are
  bounded: a server that can be reached is reached in the end. Keepalives, status packets and
  SIGINT have none.
* `Pipeline`: weak fairness of each of the two threads.
* `Apply`, `CopySession`, `RowChange`, `Startup` state safety only.
* `DbSync`: weak fairness of the main thread, the copy, staging and applying; none of
  commits, crashes and the end of the receive thread. A thread that has ended stages
  nothing (`receiving` is in the guard of `Stage`), so that its fairness asks for nothing
  then.

## 4. What is proved

The theorems hold for every value of the constants that the named `ASSUME`s of the
modules allow: any set of threads, tables, rows, transactions, keys, values, versions of
the servers and bounds.

| Module | Theorem | Says | Under |
|---|---|---|---|
| `CopyPool_proofs` | `Typing` | the type invariant | |
| | `HandedOutOnce` | no table is held by two threads, or again after it is complete | |
| | `FailureCostsOneTable` | after the report, every table that is not complete was given up by a thread, or all threads failed | |
| | `CompleteIsCommitted` | a complete table has its rows at the target | no origin or COMMIT fails unseen |
| | `CleanIsLoaded` | a job without errors loaded every table | the same |
| | `CountedIsLoaded` | the rows the job says it migrated are at the target | finitely many threads, no COMMIT fails unseen |
| | `PoolImplementsJob` | every step of the pool is a step of `CopyJob` or leaves it alone | no origin or COMMIT fails unseen |
| `CopySession_proofs` | `Typing` | the type invariant | |
| | `ReadAtOnce`, `ReadAlike` | `OneSnapshot`, `OneFormat`: what two accepted BEGINs frame was read at the snapshot and in one format | both BEGINs accepted (`Opened`, in the property), which rules out a Greenplum target with a snapshot |
| | `StopsForAReason` | `OnlyFaultsStop`: a table is given up only after a fault | |
| `MysqlCopy_proofs` | `Typing` | the type invariant | |
| | `ReadBack` | what the thread writes of a table, the csv reader reads back row by row and each value up to its first NUL | no backslash in it |
| | `CompleteIsLoaded` | `CompleteMeansLoaded`: a complete table has its values at the target | no fetch or COMMIT fails unseen, no backslash or NUL in it |
| | `ThreadsImplementJob` | every step of the threads is a step of `CopyJob` or leaves it alone | no fetch or COMMIT fails unseen |
| `DbSync_proofs` | `Typing` | the type invariant, with apply behind staging behind the source | |
| | `EndMeansOver`, `StreamWaits` | `EndAfterCopy`, `StreamAfterCopy`: the order of copy and stream over all crashes | |
| | `NothingBetween` | `NoGap`: no row falls between copy and stream | |
| | `StartTyping` | the type invariant of `Startup`: the reader of the configuration stays inside its text, that of the list at most one place behind its own and with room in its arrays, whatever these are | |
| | `TasksFollowLines` | `ListIsLineWise`: the tasks are what the lines say, after every line | |
| | `RoomForNull` | `ListEnds`, a part of that: the arrays have a slot left for their end | |
| `Pipeline_proofs` | `Typing` | the type invariant of `Receive` | |
| | `NothingForgotten`, `NothingSkipped` | `ConfirmedIsStaged`, `ResumeIsStaged` | no status packet fails after a message |
| | `ImplementsLog` | the receiver implements `StagingLog`: what is durable and what is acknowledged grow by whole transactions in commit order. The mapping hides a transaction whose rows a broken stream puts into `sync_sqls` a second time | the same |
| | `SourceReachesTarget` | `TargetEqualsSource`: a target brought up to the source's last commit holds what the source holds, over all restarts | no stream breaks within a process, no key is changed |
| `Apply_proofs` | `Typing` | the type invariant | |
| | `AtApplyId` | `TargetAtApplyId`: the target is what the rows up to `apply_id` make of it | before the first restart, and the first FETCH refused within a transaction (`again`, in the property) |
| | `DuplicatesHaveACause` | `DuplicatesComeBack`: no statement meets its own duplicate | the same |
| | `CatchesUp` | `Converges`: a target that caught up is what applying the log once gives | keys stay, and no statement was lost after a refused FETCH (`KeysStay`, `lost`, in the property) |
| `RowChange_proofs` | `Typing` | the type invariant | |
| | `LiteralIsRead` | the target reads the literal of a value as the text it was | a text in a type of numbers is a number |
| | `MessageUnderstood` | `MessageIsChange`: the decoded message says what its change says, with nothing left of the one before | |
| | `HandledFollows` | `ReplicaFollows`: a change that the statements can express is done at the target as it was at the source | `Handled`, in the property |
| | `KeyedStops` | `StopsRatherThanDiverges`: with a key, what they cannot express ends the thread | exceptions in the property |
| | `NoOtherRow` | `OnlyItsRow`: no statement touches another row than that of its change | exceptions in the property |

An assumption of the last column names a failure that the code does not look at, or a
change that it cannot repeat; with it, the property is false, and section 6 or a run of section 3 says so.

Each module has one inductive invariant, `IInv` (theorem `Inductive`; `Pipeline` has
`PInv`, `RowChange` has `ReplicaInv`, theorem `ChangesKept`), whose parts are named and
have a lemma each, with a case per action. Why they are needed:

* **`CopyPool`**. A thread between lock and unlock owns the mutex (`Mutex`), so what it
  read of `ntask` still holds when it takes (`Fresh`), and `l_task` is the task that
  `ntask` says (`QueueShape`): the code decides by the counter and takes by the pointer,
  and none of the three is inductive without the others. The tables taken are a prefix
  of the array, each complete, held by one thread or given up (`Accounted`, `HeldOnce`),
  and the target has the complete ones and nothing else (`LoadedWhole`, `CopyHasTable`).
  A thread that found the queue empty found it empty for good (`DrainedMeansEmpty`). For
  the count of rows a second invariant is kept beside it: each thread's `count` and
  what it has in hand add up to what landed (`Counted`), a sum over a set of threads.
* **`MysqlCopy`** has the same invariant on the queue; over it stands what a text is to
  the reader: `ReadBack` follows the reader's state through a value, a row, a table.
* **`CopySession`**. Nobody looks at what a statement returns, so the invariant says what
  a server is left with: once a BEGIN was accepted, its transaction is aborted, or it is
  open with everything that was asked for so far (`SettingUp`, `SetUp`, `Imported`). An
  aborted transaction refuses both COPYs, so what was read had it all (`ReadingIsGood`).
  A text that is garbled is never an accepted BEGIN, and without a fault nothing else
  aborts.
* **`DbSync`** follows what a start decided through its program counter: a copy that is
  waited for has every table under way (`CopyUnderWay`), one that is skipped found an end
  (`SkipHasEnd`); the slot is there before the first table is loaded (`SlotFirst`), the
  threads' snapshot is not older (`SnapshotAfterSlot`), so what a load left behind comes
  after the slot (`LoadCoversSlot`).
* **`Receive`**. The thread's positions run ahead of what is durable; the invariant says
  by no more than the transaction whose commit is in hand, and only until its END
  (`PositionsAreStaged`). What was sent before is durable (`SentIsStaged`) because the
  open local transaction ends in the rows of the one that is being sent (`RowsInOrder`).
* **`Startup`**, whose proofs are in `DbSync_proofs` in front of those of the main
  function it starts, in a module that extends both (`Prepared`). Of `split_data`'s
  turns it is shown that none leaves the text or stays where it is (`TurnInside`): what
  `unescape_quoted_value` writes is never longer than the value it reads
  (`UnquotedFits`), and a value ends before its line does (`ValueBeforeEnd`). For the
  list, `ListCut` says that behind the current line the text is the file's, that every
  pointer has its NUL in front of it, so that no later cut changes the string it stands
  for (`StringKeeps`), and that what is pointed to is what the lines so far say; `CutIs`
  compares the scans of a line with what a line means, and `ListedLine` and
  `ListedOnward` what one more line adds to the list.
* **`Apply`**. After a restart rows are applied that the target has seen before, and the
  target need not be what the source ever held. But every key, taken alone, holds what
  it held at the source behind some row from the thread's position on (`NotBehind`), and
  at the end of the log there is one such row only. A FETCH that is refused takes the
  position back as a restart does, with the transaction open; `lost` marks the one case
  that breaks `NotBehind`, a statement skipped for a row that the rollback takes away.
* **`Pipeline`**. The two above do not suffice: what the apply thread assumes of its log
  is what the receive thread must keep up, and after a restart the log has transactions
  twice. `RInv` says that `sync_sqls` is whole transactions, each at most one further than
  the one before it (`RowsAreFramed`), because the open local transaction has the rows of
  one transaction only (`OpenRows`) and the positions never pass what is not staged
  (`PositionsHold`, `SendsOn`). From this follows what `Apply_proofs` needs of a log
  (`FramedForApply`). `NotBehind` then measures by the source: `Place(i)` is where the
  source executed row i of `sync_sqls`, and every key of the target holds what it held at
  the source at the place of some row behind the thread's position or later. A row
  executed moves its key to its place or finds it further on (`ExecutedIsNotBefore`). The
  last row's place is the end of the history, so there the target is the source's.
* **`RowChange`**. The proof goes the way of a change. Writer and reader share nothing but
  the order of what is on the wire: the lemmas say where each item stands in what the
  plugin writes, and what the reader, counting its way from item to item, finds there
  (`IInv`). The statement of such a message is then spelled out (`StatementIs`), and what
  its equations find and set once the target's parser has read its literals, which it
  reads back character by character (`LiteralIsRead`). That gives what the statement does
  to a row (`StatementHas`, `EffectIs`) and, when its WHERE finds that row alone
  (`KeyedEffect`, `HandledSpeaks`), that this is the change. The invariant around it,
  `ReplicaInv`, says that a change under way is the difference of the two tables
  (`Executed`), that the message says it and that the statement is the one spelled out;
  that an idle target equals the source unless it stopped or was excused belongs to it,
  since the next change starts from there. Assumed of the constants: the texts of
  numbers and dates have no quote, neither null nor a pointer is a text
  (`ValuesAssumption`), and a free slot does not look like a row (`AbsentAssumption`).

Induction over data is done where it can be: by the least counterexample (`LeastNat`,
`UpTo`, `SubsetsUp` in `Induction`), with recursive functions taken as what their
equations say (`RunExists`, `SumsExist`), since the library's induction theorems take
operators, which the provers cannot instantiate.

Only model-checked: the liveness properties, which with `ENABLED` are out of the
provers' reach, and so `Job!Spec` of `CopyPool`, of which `PoolImplementsJob` has the
safety half; and `ConfigIsLineWise` of `Startup`, which nothing puts out of reach but
whose proof is not written: it needs an invariant of the splitting of the configuration
in place that relates the half-split buffer to the lines read so far, across section,
comment, key and quoted value. `Startup` checks it for its files.

## 5. Mutants

Each property of a passing run has a mutant in `PROJECT.json`: an operator next to the
one it replaces ("Mutant of ...") with a slip that could be made in that code, as a
lock that is not held, a buffer that is not sent, a position that is reported too
early, a message that is not cleared. With it the run fails.

## 6. Limits of what is claimed

The properties say what the code does; where it falls short of what one would like,
the property has a condition or the run an assumption:

* A refused COMMIT at the target is not noticed (`pgsync.c` 216, `mysql2pgsql.c` 685), and
  an error of the origin in mid table passes for its end (`pgsync.c` 191).
  `CopyPool` runs with `CommitMayFail` and `OriginMayFail` FALSE and `MysqlCopy` with
  `CommitMayFail` FALSE; `CopyPoolCommitFails` and `CopyPoolPartial` have each TRUE.
* A failed `mysql_fetch_row` passes for the end of the table (`mysql2pgsql.c` 609).
  `MysqlCopy` runs with `FetchMayFail` FALSE; `MysqlCopyFetchFails` has it TRUE.
* A status packet that cannot be sent after a message drops the message, but `startpos`
  is past it (`utils.c` 1081, 1642): the transaction is skipped and later confirmed.
  `Receive` runs with `FeedbackMayFail` FALSE; `ReceiveFeedbackFails` has it TRUE.
* `full_s_end` is written although threads gave tables up (`pgsync.c` 480), so the next
  start takes the copy for done. `EndAfterCopy` says no more than that no copy is under
  way: `status.end => \A t \in Table : loads[t] > 0` is violated in `DbSync`.
* With a Greenplum target and a snapshot no table is read at that snapshot.
  `copy_table_data` passes the kind of the target for the origin too (`pgsync.c` 139), and
  `start_copy_origin_tx` then sends `BEGIN` and `SET TRANSACTION SNAPSHOT` as one text
  without a separator (`misc.c` 173-180). The origin refuses it, `setup_connection` is left
  out, the result is dropped, and COPY TO runs outside of a transaction, at the moment it
  starts and under the session's own settings. The tables are complete, but each of
  another moment. `OneSnapshot` and `OneFormat` are about tables whose BEGINs were
  accepted (`Opened`), and `CopySessionGreenplum` shows the rest. `DbSync` lets a copy
  read at either moment (`ReadAt`), which leaves no gap: what is committed later than
  the slot comes with the stream as well.
* Any other BEGIN that is refused is not noticed either, with the same effect.
* A line of the configuration that begins with `=` shifts every key after it
  (`Keyless`); `ConfigIsLineWise` is about files without one.
* A backslash in a MySQL value reaches the target as two and in `E'...'`, because the
  value is quoted for SQL and read as csv. `CompleteMeansLoaded` leaves the tables with
  one out (`HasBackslash`). A date of zeros becomes null, as the code intends, but a
  `TIMESTAMP` of zeros is quoted for the target to refuse: `mysql2pgsql.c` 730 asks for one
  of the two types; the instance has none.
* A value of MySQL with a NUL byte, as BLOB and BIT have, is cut there (`mysql2pgsql.c`
  760), a BIT of zeros to an empty text. `CompleteMeansLoaded` leaves these tables out
  (`HasNul`); `MysqlCopyNul` has one.
* `load_table_list_file` looks one byte past its text when the last line has no colon, an
  empty one behind the last newline included (`dbsync-mysql2pgsql.c` 226, 237).
  `StartupTypeOK` bounds `reach` by that byte. What it holds makes no difference to the
  list; that reading it has no other effect is not claimed.
* `full_s_start` is written after the copy threads started. A crash before it lets the
  next start copy the same tables over. `NoGap` and `EndAfterCopy` hold; that a table
  is copied once is not claimed.
* The snapshot of a new slot is not handed to the copy threads, so a change between the
  slot and a table's copy comes twice. `NoGap` claims that none is missing.
* A transaction that is applied again and meets a duplicate key after its first
  statement ends the thread, and ends it again at each restart. `DuplicatesComeBack` says
  that nothing else does; that a restart gets past it is not claimed.
* A refused FETCH is taken for the end of the rows (`pgsync.c` 887-893), with the
  transaction at the target open. The next cursor starts behind `apply_id`, so that
  the transaction is repeated inside of itself; if its first statement is an insert, the
  duplicate-key rule rolls back what was done and leaves that insert out. `Converges` holds
  without that (`lost`), `ApplyFetchRefused` shows it. `Pipeline` and
  `SourceReachesTarget` are about a local server that refuses no command to the apply
  thread (`ServerMayFail` FALSE).
* Updates that change a key do not converge when they are applied again. `Converges`
  leaves out histories with one (`KeysStay`), the other properties of `Apply` do not.
  `Pipeline` and `SourceReachesTarget` are about workloads without.
* A refused connection, PREPARE, BEGIN or END of the local database ends the receive thread
  without `time_to_abort` (`pgsync.c` 677-690, 750-754, 772-776), and the process goes on
  without it. `EventuallyStaged` and `ArrivesOrStops` allow for that; `CatchesUpOrEnds`
  says that what was staged is applied then, and `DbSyncReceiverEnds` that the process
  need not catch up.
* `Handled` in `RowChange` names the changes that the statements can express. Not among
  them are inserts where the last attribute was dropped, keys whose names need quotes,
  unchanged out-of-line values, null or duplicate rows under FULL, tables without
  identity, tables whose own name needs quotes, `NaN` in a column of numbers, and rows
  looked for by a real that was rounded. Where the table has a key, `StopsRatherThanDiverges` says that they
  stop the thread; under FULL a statement on a row with a null finds nothing, in silence.
  An exception is a key of which some names need quotes and some do not (`MixedKey`):
  its statements look for rows by the others alone and can change or delete other rows,
  so that both `StopsRatherThanDiverges` and `OnlyItsRow` exclude it.
  `StopsRatherThanDiverges` also excludes out-of-line numbers, printed as `(null)`, and
  keys of real, which match no row.
* `count` of a MySQL thread is that of its last table, so that the sum printed is too low.

## 7. Environment that is modelled as external

The source's walsender and slot, the WAL's old and new tuples, the transactions and the
execution of a statement by a PostgreSQL server, its parser and its reader of csv, and the
source's workload. Each definition of this
kind is marked external in the map of `PROJECT.json` and modelled from how the code
uses it.

## 8. Not modelled

* `stringinfo.c`, `pqformat.c`: taken over from PostgreSQL.
* `demo.cpp` and the readable output of `out_put_decode_message`, which only it uses: an
  example.
* The layout of a message: byte order, lengths, the schema's name; the start-up options
  of the plugin.
* The text of statements apart from literals: spacing and keywords; the wording of the
  DDL that `fetch_colmum_info` prints. A MySQL type that it does not know ends the table
  (`NoType`, `Supported`); every type in the instance is known.
* Greenplum's reject limit, messages and timings.

## 9. Plan

Modelled: task queue, PostgreSQL copy, receiver, apply thread, `db_sync_main`, the two
decoder threads together, MySQL copy, row changes with their transactions, types and
values, the sessions of a copy, configuration, table list and entry points. Proved:
section 4. To be proved:

1. **`ConfigIsLineWise`** of `IniFile`: what ini_get finds is what the lines say.
