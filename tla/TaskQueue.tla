------------------------------ MODULE TaskQueue ------------------------------
(***************************************************************************)
(* The queue of tables that the copy threads share.  db_sync_main and      *)
(* mysql2pgsql_sync_main build the same structure (Thread_hd: the array    *)
(* task linked by next, its head l_task and the counter ntask) and both    *)
(* thread bodies, copy_table_data and mysql2pgsql_copy_data, take from it  *)
(* with the same code, under the mutex t_lock.  CopyPool and MysqlCopy     *)
(* extend this module with what a thread does with a table it took.        *)
(***************************************************************************)
EXTENDS Integers

CONSTANTS
  Worker,   \* the threads of Thread_hd.th
  NTask     \* how many tables the catalog query or the table list returned

ASSUME WorkerAssumption == Worker # {} /\ 0 \notin Worker
ASSUME NTaskAssumption == NTask \in Nat

Task == 1 .. NTask
NULL == 0        \* the null Task_hd pointer
Nobody == 0      \* the owner of an unlocked mutex

VARIABLES
  ntask,    \* hd->ntask
  l_task,   \* hd->l_task
  t_lock,   \* the owner of hd->t_lock
  pc,       \* where each thread is
  nlist,    \* the thread's local copy of ntask
  curr      \* the thread's curr

queueVars == <<ntask, l_task, t_lock, nlist, curr>>

(* Where a thread can be while it is in the dequeue.                       *)
DequeuePc == {"lock", "read", "take", "unlock"}

(* The next pointer of a task: the loop links each task to the one after   *)
(* it and leaves the last one NULL.                                        *)
NextOf(t) == IF t < NTask THEN t + 1 ELSE NULL

QueueInit ==
  /\ ntask = NTask
  /\ l_task = IF NTask = 0 THEN NULL ELSE 1
  /\ t_lock = Nobody
  /\ nlist = [w \in Worker |-> 0]
  /\ curr = [w \in Worker |-> NULL]

(* Mutant of Lock: the mutex is not waited for.                            *)
LockNotHeld(w) ==
  /\ pc[w] = "lock"
  /\ t_lock' = w
  /\ pc' = [pc EXCEPT ![w] = "read"]
  /\ UNCHANGED <<ntask, l_task, nlist, curr>>

(* pthread_mutex_lock(&hd->t_lock)                                         *)
Lock(w) ==
  /\ pc[w] = "lock"
  /\ t_lock = Nobody
  /\ t_lock' = w
  /\ pc' = [pc EXCEPT ![w] = "read"]
  /\ UNCHANGED <<ntask, l_task, nlist, curr>>

(* nlist = hd->ntask                                                       *)
ReadCount(w) ==
  /\ pc[w] = "read"
  /\ nlist' = [nlist EXCEPT ![w] = ntask]
  /\ pc' = [pc EXCEPT ![w] = "take"]
  /\ UNCHANGED <<ntask, l_task, t_lock, curr>>

(* Mutant of TakeLast: the branch empties the queue and forgets the table.  *)
TakeLastForgets(w) ==
  /\ nlist[w] = 1
  /\ curr' = [curr EXCEPT ![w] = NULL]
  /\ l_task' = NULL
  /\ ntask' = 0

TakeLast(w) ==
  /\ nlist[w] = 1
  /\ curr' = [curr EXCEPT ![w] = l_task]
  /\ l_task' = NULL
  /\ ntask' = 0

(* Mutant of TakeHead: the branch is also taken on an empty queue.          *)
TakeHeadOfEmpty(w) ==
  /\ nlist[w] # 1
  /\ curr' = [curr EXCEPT ![w] = l_task]
  /\ l_task' = NextOf(l_task)
  /\ ntask' = ntask - 1

TakeHead(w) ==
  /\ nlist[w] > 1
  /\ curr' = [curr EXCEPT ![w] = l_task]
  /\ l_task' = NextOf(l_task)
  /\ ntask' = ntask - 1

TakeNone(w) ==
  /\ nlist[w] = 0
  /\ curr' = [curr EXCEPT ![w] = NULL]
  /\ UNCHANGED <<l_task, ntask>>

(* The three branches on nlist.                                            *)
Take(w) ==
  /\ pc[w] = "take"
  /\ TakeLast(w) \/ TakeHead(w) \/ TakeNone(w)
  /\ pc' = [pc EXCEPT ![w] = "unlock"]
  /\ UNCHANGED <<t_lock, nlist>>

(* Mutant of Unlock: a thread that got nothing asks again.                  *)
UnlockAndRetry(w) ==
  /\ pc[w] = "unlock"
  /\ t_lock' = Nobody
  /\ pc' = [pc EXCEPT ![w] = IF curr[w] = NULL THEN "lock" ELSE "begin"]
  /\ UNCHANGED <<ntask, l_task, nlist, curr>>

(* pthread_mutex_unlock, then the loop ends when there was nothing to take. *)
Unlock(w) ==
  /\ pc[w] = "unlock"
  /\ t_lock' = Nobody
  /\ pc' = [pc EXCEPT ![w] = IF curr[w] = NULL THEN "drained" ELSE "begin"]
  /\ UNCHANGED <<ntask, l_task, nlist, curr>>

Dequeue(w) == Lock(w) \/ ReadCount(w) \/ Take(w) \/ Unlock(w)

QueueTypeOK ==
  /\ ntask \in 0 .. NTask
  /\ l_task \in Task \union {NULL}
  /\ t_lock \in Worker \union {Nobody}
  /\ nlist \in [Worker -> 0 .. NTask]
  /\ curr \in [Worker -> Task \union {NULL}]

(* The head pointer and the counter describe the same suffix of the array, *)
(* although the counter is what decides and the pointer is what is taken.  *)
QueueShape == l_task = IF ntask = 0 THEN NULL ELSE NTask + 1 - ntask
=============================================================================
