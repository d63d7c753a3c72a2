------------------------------ MODULE MysqlCopy ------------------------------
(***************************************************************************)
(* The full copy from MySQL of mysql2pgsql.c: mysql2pgsql_copy_data's      *)
(* threads over the queue of TaskQueue, and mysql2pgsql_sync_main's wait   *)
(* for them.  A thread reads the rows of a table one by one, formats them  *)
(* into a buffer, hands the buffer to a COPY when it is full, and commits  *)
(* at the end.  It differs from CopyPool where the code does: a buffer is  *)
(* between the two sides, SIGINT is looked at after every row, the counts  *)
(* are those of the last table, the end of a table and a failed fetch look *)
(* alike, and with -d only the DDL is printed.  The rows have values here, *)
(* as the formatting of a value is the program's own.                      *)
(***************************************************************************)
EXTENDS TaskQueue, Literals

CONSTANTS
  Char,           \* the characters of a text
  Null,           \* the SQL NULL, the null pointer in a row
  Types,          \* by table, MySQL's types of the columns that its query returns
  Rows,           \* by table, the rows that its query returns
  NoDates,        \* what MySQL has for no date, "0000-00-00" and others
  FetchMayFail,   \* whether mysql_fetch_row may fail in the middle of a table
  CommitMayFail   \* whether the COMMIT at the target may be refused

Chars == Seq(Char)

ASSUME RowsAssumption ==
  /\ DOMAIN Types = Task /\ DOMAIN Rows = Task
  /\ \A t \in Task :
       /\ Types[t] \in Seq(STRING) \ {<<>>}
       /\ Rows[t] \in Seq([DOMAIN Types[t] -> {Null} \union Chars])
  /\ NoDates \subseteq Chars
ASSUME CharAssumption == {Quote, Backslash, Nul, "|", "\n", "E"} \subseteq Char
ASSUME SwitchAssumption == FetchMayFail \in BOOLEAN /\ CommitMayFail \in BOOLEAN

VARIABLES
  get_ddl_only,   \* the -d option
  time_to_abort,  \* set by sigint_handler
  row_count,      \* the thread's row_count
  sent,           \* rows of the open COPY that left the thread's buffer
  target,         \* the rows committed at the target, by table
  complete,       \* Task_hd.complete
  tcount,         \* Task_hd.count
  wcount,         \* ThreadArg.count
  all_ok,         \* ThreadArg.all_ok
  reported,       \* the main thread has joined all threads and summed up
  have_err        \* have_err of mysql2pgsql_sync_main

flags == <<get_ddl_only, time_to_abort>>
tableVars == <<row_count, sent, target, complete>>
countVars == <<tcount, wcount, all_ok>>
mainVars == <<reported, have_err>>
vars == <<queueVars, pc, flags, tableVars, countVars, mainVars>>

Init ==
  /\ QueueInit
  /\ get_ddl_only \in BOOLEAN
  /\ time_to_abort = FALSE
  /\ pc = [w \in Worker |-> "connect"]
  /\ row_count = [w \in Worker |-> 0]
  /\ sent = [w \in Worker |-> 0]
  /\ target = [t \in Task |-> <<>>]
  /\ complete = [t \in Task |-> FALSE]
  /\ tcount = [t \in Task |-> 0]
  /\ wcount = [w \in Worker |-> 0]
  /\ all_ok = [w \in Worker |-> FALSE]
  /\ reported = FALSE
  /\ have_err = FALSE

Goto(w, where) == pc' = [pc EXCEPT ![w] = where]

(* connect_to_mysql and pglogical_connect; a failure returns at once.      *)
Connect(w) ==
  /\ pc[w] = "connect"
  /\ Goto(w, "lock") \/ Goto(w, "done")
  /\ UNCHANGED <<queueVars, flags, tableVars, countVars, mainVars>>

TakeTask(w) == Dequeue(w) /\ UNCHANGED <<flags, tableVars, countVars, mainVars>>

NoType == "none"

(* What a column becomes; some types have none, such as enum.              *)
ColumnType(type) ==
  CASE type \in {"varchar", "bit", "blob"} -> "text"
    [] type = "timestamp" -> "timestamptz"
    [] type \in {"date", "time", "datetime", "year"} -> "timestamp"
    [] type \in {"int", "decimal"} -> "numeric"
    [] type = "double" -> "real"
    [] OTHER -> NoType

(* MySQL writes a number, a date or a time with none of the characters that *)
(* mean something in a COPY.                                               *)
Plain(text) == text # <<>> /\ ToSet(text) \intersect {Quote, Nul, "|", "\n"} = {}

ASSUME PlainAssumption ==
  \A t \in Task : \A n \in DOMAIN Rows[t], i \in DOMAIN Types[t] :
    /\ ColumnType(Types[t][i]) \in Raw \union {"timestamp"}
    /\ Rows[t][n][i] # Null
    => Plain(Rows[t][n][i])

fetch_colmum_info(t) == [i \in DOMAIN Types[t] |-> ColumnType(Types[t][i])]

Supported(t) == NoType \notin ToSet(fetch_colmum_info(t))

(* With -d the table's DDL is printed and nothing is copied.               *)
PrintDdl(w) ==
  /\ pc[w] = "begin"
  /\ get_ddl_only
  /\ Supported(curr[w])
  /\ complete' = [complete EXCEPT ![curr[w]] = TRUE]
  /\ Goto(w, "lock")
  /\ UNCHANGED <<queueVars, flags, row_count, sent, target, countVars, mainVars>>

(* The query runs, the types of its columns are supported, and the         *)
(* target's transaction and COPY are open.                                 *)
OpenCopy(w) ==
  /\ pc[w] = "begin"
  /\ ~get_ddl_only
  /\ Supported(curr[w])
  /\ row_count' = [row_count EXCEPT ![w] = 0]
  /\ sent' = [sent EXCEPT ![w] = 0]
  /\ Goto(w, "copy")
  /\ UNCHANGED <<queueVars, flags, target, complete, countVars, mainVars>>

(* A row as it is put in the buffer: the fields, with nothing for a null,  *)
(* and '|' between them.                                                   *)
Field(value, type) ==
  IF value = Null THEN <<>> ELSE quote_literal_local_withoid(value, type, NoDates)

RowText(row, types) ==
  LET text[i \in 0 .. Len(types)] ==
        IF i = 0 THEN <<>>
        ELSE text[i - 1] \o (IF i = 1 THEN <<>> ELSE <<"|">>) \o Field(row[i], types[i])
  IN  text[Len(types)] \o <<"\n">>

(* The text of the first n rows of a table.                                *)
CopyText(t, n) ==
  LET text[i \in 0 .. n] ==
        IF i = 0 THEN <<>>
        ELSE text[i - 1] \o RowText(Rows[t][i], fetch_colmum_info(t))
  IN  text[n]

(* What the target reads from the text of the first n rows.                *)
Read == [t \in Task |-> [n \in 0 .. Len(Rows[t]) |-> ReadCsv(CopyText(t, n), Null)]]

(* A row is read and put in the buffer; how much a row takes decides       *)
(* whether the buffer is full now.                                         *)
ReadRow(w) ==
  /\ row_count[w] < Len(Rows[curr[w]])
  /\ row_count' = [row_count EXCEPT ![w] = @ + 1]
  /\ \/ sent' = [sent EXCEPT ![w] = row_count[w] + 1]
     \/ UNCHANGED sent

FetchRow(w) ==
  /\ pc[w] = "copy"
  /\ ~time_to_abort
  /\ ReadRow(w)
  /\ UNCHANGED <<queueVars, pc, flags, target, complete, countVars, mainVars>>

(* Mutant of AbortRow: break instead of goto exit, so the table is ended.   *)
AbortRowAsEnd(w) ==
  /\ pc[w] = "copy"
  /\ time_to_abort
  /\ ReadRow(w)
  /\ wcount' = [wcount EXCEPT ![w] = row_count[w] + 1]
  /\ tcount' = [tcount EXCEPT ![curr[w]] = row_count[w] + 1]
  /\ Goto(w, "end")
  /\ UNCHANGED <<queueVars, flags, target, complete, all_ok, mainVars>>

(* After the row the flag is seen: the counts are set, and goto exit.      *)
AbortRow(w) ==
  /\ pc[w] = "copy"
  /\ time_to_abort
  /\ ReadRow(w)
  /\ wcount' = [wcount EXCEPT ![w] = row_count[w] + 1]
  /\ tcount' = [tcount EXCEPT ![curr[w]] = row_count[w] + 1]
  /\ Goto(w, "done")
  /\ UNCHANGED <<queueVars, flags, target, complete, all_ok, mainVars>>

(* Mutant of EndRows: what is left in the buffer is not sent.               *)
EndRowsUnsent(w) ==
  /\ pc[w] = "copy"
  /\ FetchMayFail \/ row_count[w] = Len(Rows[curr[w]])
  /\ wcount' = [wcount EXCEPT ![w] = row_count[w]]
  /\ tcount' = [tcount EXCEPT ![curr[w]] = row_count[w]]
  /\ Goto(w, "end")
  /\ UNCHANGED <<queueVars, flags, row_count, sent, target, complete, all_ok, mainVars>>

(* mysql_fetch_row returned NULL, at the last row or because it failed,    *)
(* which is not asked.  The rest of the buffer is sent; the counts are     *)
(* assigned, not added.                                                    *)
EndRows(w) ==
  /\ pc[w] = "copy"
  /\ FetchMayFail \/ row_count[w] = Len(Rows[curr[w]])
  /\ sent' = [sent EXCEPT ![w] = row_count[w]]
  /\ wcount' = [wcount EXCEPT ![w] = row_count[w]]
  /\ tcount' = [tcount EXCEPT ![curr[w]] = row_count[w]]
  /\ Goto(w, "end")
  /\ UNCHANGED <<queueVars, flags, row_count, target, complete, all_ok, mainVars>>

(* The target accepted the end of the COPY.                                *)
EndCopy(w) ==
  /\ pc[w] = "end"
  /\ Goto(w, "commit")
  /\ UNCHANGED <<queueVars, flags, tableVars, countVars, mainVars>>

(* goto exit: closing the connection drops the open transaction.           *)
CopyFails(w) ==
  /\ pc[w] \in {"begin", "copy", "end"}
  /\ Goto(w, "done")
  /\ UNCHANGED <<queueVars, flags, tableVars, countVars, mainVars>>

(* finish_copy_target_tx, whose result is ignored.  What the target read   *)
(* from the COPY becomes visible.                                          *)
Commit(w) ==
  /\ pc[w] = "commit"
  /\ \/ target' = [target EXCEPT ![curr[w]] = @ \o Read[curr[w]][sent[w]]]
     \/ CommitMayFail /\ UNCHANGED target
  /\ complete' = [complete EXCEPT ![curr[w]] = TRUE]
  /\ Goto(w, "lock")
  /\ UNCHANGED <<queueVars, flags, row_count, sent, countVars, mainVars>>

Finish(w) ==
  /\ pc[w] = "drained"
  /\ all_ok' = [all_ok EXCEPT ![w] = TRUE]
  /\ Goto(w, "done")
  /\ UNCHANGED <<queueVars, flags, tableVars, tcount, wcount, mainVars>>

(* SIGINT.                                                                 *)
Abort ==
  /\ ~reported /\ ~time_to_abort
  /\ time_to_abort' = TRUE
  /\ UNCHANGED <<queueVars, pc, get_ddl_only, tableVars, countVars, mainVars>>

(* WaitThreadEnd and the loop over all_ok.                                 *)
Report ==
  /\ ~reported
  /\ \A w \in Worker : pc[w] = "done"
  /\ reported' = TRUE
  /\ have_err' = \E w \in Worker : ~all_ok[w]
  /\ UNCHANGED <<queueVars, pc, flags, tableVars, countVars>>

(* The process has exited.                                                 *)
Ended == reported /\ UNCHANGED vars

Copy(w) ==
  \/ PrintDdl(w) \/ OpenCopy(w) \/ FetchRow(w) \/ AbortRow(w) \/ EndRows(w)
  \/ EndCopy(w) \/ CopyFails(w) \/ Commit(w) \/ Finish(w)

Thread(w) == Connect(w) \/ TakeTask(w) \/ Copy(w)

Next == Abort \/ Report \/ Ended \/ \E w \in Worker : Thread(w)

Safety == Init /\ [][Next]_vars

(* Every thread is scheduled and every call to a server returns; nobody    *)
(* has to press Ctrl-C.                                                    *)
Fairness == WF_vars(Report) /\ \A w \in Worker : WF_vars(Thread(w))

Spec == Safety /\ Fairness

-----------------------------------------------------------------------------
(* Every variable has its type.                                            *)
TypeOK ==
  /\ QueueTypeOK
  /\ pc \in [Worker -> DequeuePc \union {"connect", "begin", "copy", "end", "commit",
                                         "drained", "done"}]
  /\ get_ddl_only \in BOOLEAN /\ time_to_abort \in BOOLEAN
  /\ row_count \in [Worker -> Nat] /\ sent \in [Worker -> Nat]
  /\ \A w \in Worker : sent[w] <= row_count[w]
  /\ target \in [Task -> Seq(Seq({Null} \union Chars))]
  /\ \A t \in Task : Len(target[t]) <= Len(Rows[t])
  /\ complete \in [Task -> BOOLEAN]
  /\ tcount \in [Task -> Nat] /\ wcount \in [Worker -> Nat]
  /\ all_ok \in [Worker -> BOOLEAN]
  /\ reported \in BOOLEAN /\ have_err \in BOOLEAN

(* The rows of a table as they should be at the target: with null for what *)
(* is no date.                                                             *)
Meant ==
  [t \in Task |->
     [n \in DOMAIN Rows[t] |->
        [i \in DOMAIN Types[t] |->
           IF fetch_colmum_info(t)[i] = "timestamp" /\ Rows[t][n][i] \in NoDates
           THEN Null ELSE Rows[t][n][i]]]]

HasValueWith(t, c) ==
  \E n \in DOMAIN Rows[t], i \in DOMAIN Types[t] :
    Rows[t][n][i] # Null /\ c \in ToSet(Rows[t][n][i])

(* A text with a backslash is written as for SQL, E'..\\..', of which the  *)
(* csv format keeps the E and both backslashes.                            *)
HasBackslash(t) == HasValueWith(t, Backslash)

(* A value of BIT or BLOB with a NUL inside of it is written up to there.  *)
HasNul(t) == HasValueWith(t, Nul)

(* The line "rows complete" is true: a table that was copied to its end    *)
(* has all the rows of its query at the target, whatever SIGINT and the    *)
(* buffer did on the way, and every value is what it was: separators,      *)
(* newlines and quotes in it, empty texts and nulls are kept apart (unless *)
(* there is a backslash or a NUL).                                         *)
CompleteMeansLoaded ==
  \A t \in Task :
    complete[t] /\ ~get_ddl_only /\ ~HasBackslash(t) /\ ~HasNul(t) =>
      target[t] = Meant[t]

(* What doc/mysql2gp.md says of the tool, that it migrates the data        *)
(* completely: as CompleteMeansLoaded, and with a NUL in a value as well.  *)
(* The code does not keep this: quote_literal_local_withoid takes strlen   *)
(* of the value and not the length that mysql_fetch_lengths gave.          *)
ValuesArrive ==
  \A t \in Task :
    complete[t] /\ ~get_ddl_only /\ ~HasBackslash(t) => target[t] = Meant[t]

(* SIGINT, errors and empty queues all lead to the end of the job.         *)
Terminates == <>reported

(* The threads load tables as CopyJob does: each whole, once, and a clean  *)
(* verdict means all, so what was given up leaves nothing behind and is    *)
(* reported.  With -d there is no job.                                     *)
Job == INSTANCE CopyJob WITH
         Table <- Task,
         Rows <- [t \in Task |-> Len(Rows[t])],
         target <- [t \in Task |-> Len(target[t])],
         verdict <- IF ~reported \/ get_ddl_only THEN "running"
                    ELSE IF have_err THEN "errors" ELSE "clean"

JobSafety == Job!Safety
=============================================================================
