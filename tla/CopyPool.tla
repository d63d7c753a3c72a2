------------------------------ MODULE CopyPool -------------------------------
(***************************************************************************)
(* The full copy of pgsync.c: the threads of copy_table_data and the end   *)
(* of db_sync_main's wait for them.  A thread opens its two connections,   *)
(* takes tables from the queue until there is none, and copies each one    *)
(* with COPY TO / COPY FROM inside a transaction of its own at the target. *)
(* Any call to a server may fail; a thread that sees a failure gives up    *)
(* its table and ends, and the others go on.                               *)
(*                                                                         *)
(* The rows of a table are counted, not told apart: the snapshot a thread  *)
(* copies from is the subject of DbSync.                                   *)
(***************************************************************************)
EXTENDS TaskQueue, Functions

CONSTANTS
  Rows,            \* the rows each table has in the copied snapshot
  OriginMayFail,   \* whether the COPY TO may break off with an error of the origin
  CommitMayFail    \* whether the COMMIT at the target may be refused

ASSUME RowsAssumption == Rows \in [Task -> Nat]
ASSUME SwitchAssumption == OriginMayFail \in BOOLEAN /\ CommitMayFail \in BOOLEAN

VARIABLES
  moved,      \* rows put in the thread's open transaction at the target
  target,     \* rows committed at the target, by table
  complete,   \* Task_hd.complete
  tcount,     \* Task_hd.count
  wcount,     \* ThreadArg.count
  all_ok,     \* ThreadArg.all_ok
  reported,   \* the main thread has joined all threads and summed up
  have_err    \* have_err of db_sync_main

copyVars == <<moved, target, complete, tcount, wcount, all_ok>>
mainVars == <<reported, have_err>>
vars == <<queueVars, pc, copyVars, mainVars>>

Init ==
  /\ QueueInit
  /\ pc = [w \in Worker |-> "connect"]
  /\ moved = [w \in Worker |-> 0]
  /\ target = [t \in Task |-> 0]
  /\ complete = [t \in Task |-> FALSE]
  /\ tcount = [t \in Task |-> 0]
  /\ wcount = [w \in Worker |-> 0]
  /\ all_ok = [w \in Worker |-> FALSE]
  /\ reported = FALSE
  /\ have_err = FALSE

Goto(w, where) == pc' = [pc EXCEPT ![w] = where]

(* The two pglogical_connect calls; a failure returns before the loop.     *)
Connect(w) ==
  /\ pc[w] = "connect"
  /\ Goto(w, "lock") \/ Goto(w, "done")
  /\ UNCHANGED <<queueVars, copyVars, mainVars>>

TakeTask(w) == Dequeue(w) /\ UNCHANGED <<copyVars, mainVars>>

(* The transactions on both sides are opened (their results are not looked *)
(* at) and both COPY commands are accepted.                                *)
OpenCopy(w) ==
  /\ pc[w] = "begin"
  /\ moved' = [moved EXCEPT ![w] = 0]
  /\ Goto(w, "copy")
  /\ UNCHANGED <<queueVars, target, complete, tcount, wcount, all_ok, mainVars>>

(* Mutant of CopyRow: no transaction, so every row is committed at once.   *)
CopyRowAlone(w) ==
  /\ pc[w] = "copy"
  /\ moved[w] < Rows[curr[w]]
  /\ moved' = [moved EXCEPT ![w] = @ + 1]
  /\ target' = [target EXCEPT ![curr[w]] = @ + 1]
  /\ wcount' = [wcount EXCEPT ![w] = @ + 1]
  /\ tcount' = [tcount EXCEPT ![curr[w]] = @ + 1]
  /\ UNCHANGED <<queueVars, pc, complete, all_ok, mainVars>>

(* PQgetCopyData returned a row and PQputCopyData took it.                 *)
CopyRow(w) ==
  /\ pc[w] = "copy"
  /\ moved[w] < Rows[curr[w]]
  /\ moved' = [moved EXCEPT ![w] = @ + 1]
  /\ wcount' = [wcount EXCEPT ![w] = @ + 1]
  /\ tcount' = [tcount EXCEPT ![curr[w]] = @ + 1]
  /\ UNCHANGED <<queueVars, pc, target, complete, all_ok, mainVars>>

(* Mutant of EndCopy: any answer of PQgetCopyData is taken for the end.     *)
EndCopyEarly(w) ==
  /\ pc[w] = "copy"
  /\ Goto(w, "commit")
  /\ UNCHANGED <<queueVars, copyVars, mainVars>>

(* PQgetCopyData returned -1, and the target acknowledged the whole COPY.  *)
(* -1 is what libpq returns after the last row and also when the origin    *)
(* sent an error in place of it; PQgetResult, which would tell, is not     *)
(* called for the origin.  (A broken connection gives -2: CopyFails.)      *)
EndCopy(w) ==
  /\ pc[w] = "copy"
  /\ OriginMayFail \/ moved[w] = Rows[curr[w]]
  /\ Goto(w, "commit")
  /\ UNCHANGED <<queueVars, copyVars, mainVars>>

(* Mutant of CopyFails: break instead of goto exit, so all_ok is set.       *)
CopyFailsQuietly(w) ==
  /\ pc[w] \in {"begin", "copy"}
  /\ Goto(w, "drained")
  /\ UNCHANGED <<queueVars, copyVars, mainVars>>

(* goto exit: PQfinish drops the open transaction at the target; all_ok    *)
(* stays FALSE and the table is not put back in the queue.                 *)
CopyFails(w) ==
  /\ pc[w] \in {"begin", "copy"}
  /\ Goto(w, "done")
  /\ UNCHANGED <<queueVars, copyVars, mainVars>>

(* finish_copy_target_tx sends COMMIT and only prints what it answers: the *)
(* table is marked complete either way.                                    *)
Commit(w) ==
  /\ pc[w] = "commit"
  /\ \/ target' = [target EXCEPT ![curr[w]] = @ + moved[w]]
     \/ CommitMayFail /\ UNCHANGED target
  /\ complete' = [complete EXCEPT ![curr[w]] = TRUE]
  /\ Goto(w, "lock")
  /\ UNCHANGED <<queueVars, moved, tcount, wcount, all_ok, mainVars>>

(* args->all_ok = true after the loop found the queue empty.               *)
Finish(w) ==
  /\ pc[w] = "drained"
  /\ all_ok' = [all_ok EXCEPT ![w] = TRUE]
  /\ Goto(w, "done")
  /\ UNCHANGED <<queueVars, moved, target, complete, tcount, wcount, mainVars>>

(* WaitThreadEnd, then the loop that looks at every thread's all_ok.       *)
Report ==
  /\ ~reported
  /\ \A w \in Worker : pc[w] = "done"
  /\ reported' = TRUE
  /\ have_err' = \E w \in Worker : ~all_ok[w]
  /\ UNCHANGED <<queueVars, pc, copyVars>>

(* db_sync_main goes on to the decoder threads.                            *)
Ended == reported /\ UNCHANGED vars

Copy(w) ==
  OpenCopy(w) \/ CopyRow(w) \/ EndCopy(w) \/ CopyFails(w) \/ Commit(w) \/ Finish(w)

Thread(w) == Connect(w) \/ TakeTask(w) \/ Copy(w)

Next == Report \/ Ended \/ \E w \in Worker : Thread(w)

Safety == Init /\ [][Next]_vars

(* Every thread is scheduled and every call to a server returns.           *)
Fairness == WF_vars(Report) /\ \A w \in Worker : WF_vars(Thread(w))

Spec == Safety /\ Fairness

-----------------------------------------------------------------------------
(* The sums of the "job migrate row" line: the rows of the threads that    *)
(* ended well, and the rows of all tasks.                                  *)
s_count_of_all == SumFunctionOnSet(wcount, Worker)   \* mutant of s_count
s_count == SumFunctionOnSet(wcount, {w \in Worker : all_ok[w]})
t_count == SumFunction(tcount)

(* A thread holds its table from the dequeue to the COMMIT.                *)
HoldingPc == {"unlock", "begin", "copy", "commit"}
Holds(w, t) == pc[w] \in HoldingPc /\ curr[w] = t

(* A thread that ended at a goto exit, or never got its connections.       *)
GaveUp(w) == pc[w] = "done" /\ ~all_ok[w]

(* Every variable has its type.                                            *)
TypeOK ==
  /\ QueueTypeOK
  /\ pc \in [Worker -> DequeuePc \union
                       {"connect", "begin", "copy", "commit", "drained", "done"}]
  /\ moved \in [Worker -> Nat]
  /\ target \in [Task -> Nat]
  /\ complete \in [Task -> BOOLEAN]
  /\ tcount \in [Task -> Nat]
  /\ wcount \in [Worker -> Nat]
  /\ all_ok \in [Worker -> BOOLEAN]
  /\ reported \in BOOLEAN
  /\ have_err \in BOOLEAN

(* No table is ever in the hands of two threads, nor taken again after it  *)
(* was completed: the dequeue under t_lock hands each one out once.        *)
OneCopier ==
  \A w \in Worker, t \in Task :
    Holds(w, t) => ~complete[t] /\ \A v \in Worker \ {w} : ~Holds(v, t)

(* The line "migrate task ... rows complete" is true: a table marked       *)
(* complete has all its rows committed at the target, exactly once.        *)
CompleteMeansCommitted == \A t \in Task : complete[t] => target[t] = Rows[t]

(* A thread that gives up costs the job the one table it had; only when    *)
(* all give up can tables stay in the queue.  So a job that reports no     *)
(* error has completed every table.                                        *)
OneTablePerFailure ==
  reported =>
    \/ \A w \in Worker : GaveUp(w)
    \/ \A t \in Task : complete[t] \/ \E w \in Worker : GaveUp(w) /\ curr[w] = t

(* The verdict of the main thread: no error means that every table is at   *)
(* the target with all its rows.                                           *)
CleanMeansLoaded ==
  reported /\ ~have_err => \A t \in Task : target[t] = Rows[t]

(* The rows the job says it migrated are rows committed at the target, and *)
(* with no error they are all the rows of the tables.                      *)
CountedRowsLoaded ==
  reported => /\ s_count <= SumFunction(target)
              /\ ~have_err => s_count = t_count

(* The pool implements the job: its steps at the target and its verdict    *)
(* are those CopyJob allows, and the wait for the threads ends with one,   *)
(* whatever fails.                                                         *)
Job == INSTANCE CopyJob WITH
         Table <- Task,
         verdict <- IF ~reported THEN "running"
                    ELSE IF have_err THEN "errors" ELSE "clean"

JobSpec == Job!Spec
=============================================================================
