--------------------------- MODULE CopyPool_proofs ---------------------------
(***************************************************************************)
(* Proofs about CopyPool, for any threads, any number of tables of any     *)
(* size, and whatever fails.  The inductive invariant IInv says, beyond    *)
(* the types, what the mutex protects (QueueInv), that the tables taken so *)
(* far are a prefix of the task array and each of them is complete, held   *)
(* by one thread, or given up by one (Accounted, HeldOnce), and that the   *)
(* target has the completed tables and nothing else (LoadedWhole).         *)
(***************************************************************************)
EXTENDS CopyPool, Induction, TLAPS

(* The mutex: a thread between lock and unlock owns it, nobody else does.  *)
Mutex == \A w \in Worker : pc[w] \in {"read", "take", "unlock"} <=> t_lock = w

(* What a thread read of ntask under the lock is still true when it takes. *)
Fresh == \A w \in Worker : pc[w] = "take" => nlist[w] = ntask

(* A table is taken once it is before the head of the queue.               *)
Taken(t) == t <= NTask - ntask

(* A held table was taken by one thread only and has nothing at the target. *)
HeldOnce ==
  \A w \in Worker, t \in Task :
    Holds(w, t) => Taken(t) /\ ~complete[t] /\ \A v \in Worker \ {w} : ~Holds(v, t)

(* A thread in the middle of a copy has a table, and its COMMIT has all    *)
(* its rows, unless the origin broke off the COPY TO.                      *)
CopyHasTable ==
  \A w \in Worker :
    /\ pc[w] \in {"begin", "copy", "commit"} => curr[w] \in Task
    /\ pc[w] = "commit" => OriginMayFail \/ moved[w] = Rows[curr[w]]

(* Rows reach the target with completion, and only of taken tables.        *)
LoadedWhole ==
  \A t \in Task :
    /\ ~complete[t] => target[t] = 0
    /\ complete[t] => Taken(t) /\ (OriginMayFail \/ CommitMayFail \/ target[t] = Rows[t])

(* A taken table is complete, held, or the one that a thread gave up.      *)
Answers(w, t) == Holds(w, t) \/ (GaveUp(w) /\ curr[w] = t)

Accounted ==
  \A t \in Task : Taken(t) => complete[t] \/ \E w \in Worker : Answers(w, t)

(* A thread that found no table found the queue empty for good.            *)
DrainedMeansEmpty ==
  \A w \in Worker :
    /\ pc[w] = "unlock" /\ curr[w] = NULL => ntask = 0
    /\ pc[w] = "drained" => ntask = 0
    /\ all_ok[w] => pc[w] = "done" /\ ntask = 0

(* The report is made when all threads are done, from their all_ok.        *)
ReportIsFinal ==
  reported => /\ \A w \in Worker : pc[w] = "done"
              /\ have_err = (\E w \in Worker : ~all_ok[w])

QueueInv == TypeOK /\ QueueShape /\ Mutex /\ Fresh

IInv ==
  /\ QueueInv
  /\ HeldOnce
  /\ CopyHasTable
  /\ LoadedWhole
  /\ Accounted
  /\ DrainedMeansEmpty
  /\ ReportIsFinal

-----------------------------------------------------------------------------
USE WorkerAssumption, NTaskAssumption, RowsAssumption

(* A step is one of the main thread or one action of one thread.           *)
LEMMA NextCases ==
  ASSUME [Next]_vars
  PROVE  \/ Report
         \/ UNCHANGED vars
         \/ \E w \in Worker :
              \/ Connect(w)
              \/ Dequeue(w) /\ UNCHANGED <<copyVars, mainVars>>
              \/ OpenCopy(w) \/ CopyRow(w) \/ EndCopy(w) \/ CopyFails(w)
              \/ Commit(w) \/ Finish(w)
  BY DEF Next, Thread, TakeTask, Copy, Ended

(* Sums stay natural numbers.                                              *)
LEMMA RowSums ==
  ASSUME TypeOK, NEW w \in Worker, curr[w] \in Task
  PROVE  /\ moved[w] + 1 \in Nat
         /\ wcount[w] + 1 \in Nat
         /\ tcount[curr[w]] + 1 \in Nat
         /\ target[curr[w]] + moved[w] \in Nat
<1>1. moved[w] \in Nat /\ wcount[w] \in Nat
  BY DEF TypeOK
<1>2. tcount[curr[w]] \in Nat /\ target[curr[w]] \in Nat
  BY DEF TypeOK
<1> QED
  BY ONLY <1>1, <1>2

(* The head of a queue that is not empty: a table, the first one that was  *)
(* not taken, and the only one that its removal takes.                     *)
LEMMA HeadOfQueue ==
  ASSUME NEW t0, NEW n \in 1 .. NTask, NTask + 1 - n = t0
  PROVE  /\ t0 \in Task /\ ~(t0 <= NTask - n)
         /\ n - 1 \in 0 .. NTask
         /\ NextOf(t0) = IF n - 1 = 0 THEN NULL ELSE NTask + 1 - (n - 1)
         /\ NextOf(t0) \in Task \union {NULL}
         /\ \A t \in Task : t <= NTask - (n - 1) <=> t <= NTask - n \/ t = t0
  BY DEF Task, NextOf, NULL

(* The null pointer is none of the tables.                                 *)
LEMMA NullIsNoTask == \A t \in Task : t # NULL
  BY DEF Task, NULL

(* What a thread gets under the lock: the first table that was not taken,  *)
(* or nothing when the queue is empty.                                     *)
LEMMA TakeResult ==
  ASSUME IInv, NEW w \in Worker, Take(w)
  PROVE  /\ pc' = [pc EXCEPT ![w] = "unlock"] /\ pc'[w] = "unlock"
         /\ UNCHANGED <<t_lock, nlist>>
         /\ ntask' \in 0 .. NTask /\ l_task' \in Task \union {NULL}
         /\ QueueShape'
         /\ \/ /\ ntask = 0 /\ ntask' = 0
               /\ curr' = [curr EXCEPT ![w] = NULL]
               /\ curr'[w] = NULL /\ curr'[w] \notin Task
            \/ /\ ntask # 0
               /\ \E t0 \in Task :
                    /\ curr' = [curr EXCEPT ![w] = t0] /\ curr'[w] = t0 /\ t0 # NULL
                    /\ ~Taken(t0)
                    /\ \A t \in Task : Taken(t)' <=> Taken(t) \/ t = t0
<1>1. /\ nlist[w] = ntask /\ ntask \in 0 .. NTask
      /\ l_task = IF ntask = 0 THEN NULL ELSE NTask + 1 - ntask
  BY DEF IInv, QueueInv, TypeOK, QueueTypeOK, QueueShape, Fresh, Take
<1>2. /\ pc' = [pc EXCEPT ![w] = "unlock"] /\ pc'[w] = "unlock"
      /\ UNCHANGED <<t_lock, nlist>>
  BY DEF Take, IInv, QueueInv, TypeOK
<1>0. curr \in [Worker -> Task \union {NULL}]
  BY DEF IInv, QueueInv, TypeOK, QueueTypeOK
<1>3. CASE TakeNone(w)
  <2>1. ntask = 0 /\ ntask' = 0 /\ l_task' = NULL
        /\ curr' = [curr EXCEPT ![w] = NULL] /\ curr'[w] = NULL
    BY <1>0, <1>1, <1>3 DEF TakeNone
  <2> QED
    BY <1>2, <2>1, NullIsNoTask DEF QueueShape
<1>4. CASE TakeLast(w) \/ TakeHead(w)
  <2>1. nlist[w] = 1 \/ nlist[w] > 1
    BY <1>4 DEF TakeLast, TakeHead
  <2>2. ntask \in 1 .. NTask
    BY ONLY <1>1, <2>1, NTaskAssumption
  <2>3. l_task = NTask + 1 - ntask
    BY ONLY <1>1, <2>2, NTaskAssumption
  <2>4. curr' = [curr EXCEPT ![w] = l_task] /\ curr'[w] = l_task
    BY <1>0, <1>4 DEF TakeLast, TakeHead
  <2>5. /\ l_task \in Task /\ ~(l_task <= NTask - ntask)
        /\ ntask - 1 \in 0 .. NTask
        /\ NextOf(l_task) = IF ntask - 1 = 0 THEN NULL ELSE NTask + 1 - (ntask - 1)
        /\ NextOf(l_task) \in Task \union {NULL}
        /\ \A t \in Task :
             t <= NTask - (ntask - 1) <=> t <= NTask - ntask \/ t = l_task
    BY ONLY <2>2, <2>3, HeadOfQueue
  <2>6. CASE TakeLast(w)
    <3>1. ntask = 1 /\ l_task' = NULL /\ ntask' = 0
      BY <1>1, <2>6 DEF TakeLast
    <3>2. ntask' = ntask - 1
      BY ONLY <3>1
    <3> QED
      BY <1>2, <2>4, <2>5, <3>1, <3>2, NullIsNoTask DEF QueueShape, Taken
  <2>7. CASE TakeHead(w)
    <3>1. l_task' = NextOf(l_task) /\ ntask' = ntask - 1
      BY <2>7 DEF TakeHead
    <3>2. ntask # 0
      BY ONLY <2>2, NTaskAssumption
    <3> QED
      BY <1>2, <2>4, <2>5, <3>1, <3>2, NullIsNoTask DEF QueueShape, Taken
  <2> QED
    BY <1>4, <2>6, <2>7
<1> QED
  BY <1>3, <1>4 DEF Take

(* Types are kept; what a thread took from the queue is a table or NULL.   *)
LEMMA TypingStep ==
  ASSUME IInv, [Next]_vars
  PROVE  TypeOK'
<1> USE DEF TypeOK, QueueTypeOK, DequeuePc, Task, NULL, Nobody,
            queueVars, copyVars, mainVars
<1>0. TypeOK
  BY DEF IInv, QueueInv
<1>1. CASE Report
  BY <1>0, <1>1 DEF Report
<1>2. CASE UNCHANGED vars
  BY <1>0, <1>2 DEF vars
<1>3. ASSUME NEW w \in Worker, Connect(w) PROVE TypeOK'
  BY <1>0, <1>3 DEF Connect, Goto
<1>4. ASSUME NEW w \in Worker, Lock(w), UNCHANGED <<copyVars, mainVars>>
      PROVE  TypeOK'
  BY <1>0, <1>4 DEF Lock
<1>5. ASSUME NEW w \in Worker, ReadCount(w), UNCHANGED <<copyVars, mainVars>>
      PROVE  TypeOK'
  BY <1>0, <1>5 DEF ReadCount
<1>6. ASSUME NEW w \in Worker, Take(w), UNCHANGED <<copyVars, mainVars>>
      PROVE  TypeOK'
  <2>1. ntask' \in 0 .. NTask /\ l_task' \in Task \union {NULL}
    BY <1>6, TakeResult
  <2>2. curr' \in [Worker -> Task \union {NULL}]
    BY ZenonT(60), <1>0, <1>6, TakeResult
  <2>3. pc' = [pc EXCEPT ![w] = "unlock"]
    BY <1>6, TakeResult
  <2> QED
    BY <1>0, <2>1, <2>2, <2>3, <1>6 DEF Take
<1>7. ASSUME NEW w \in Worker, Unlock(w), UNCHANGED <<copyVars, mainVars>>
      PROVE  TypeOK'
  BY <1>0, <1>7 DEF Unlock
<1>8. ASSUME NEW w \in Worker, OpenCopy(w) PROVE TypeOK'
  BY <1>0, <1>8 DEF OpenCopy, Goto
<1>9. ASSUME NEW w \in Worker, CopyRow(w) PROVE TypeOK'
  <2>1. curr[w] \in Task
    BY <1>0, <1>9 DEF CopyRow, IInv, CopyHasTable
  <2>2. moved[w] + 1 \in Nat /\ wcount[w] + 1 \in Nat /\ tcount[curr[w]] + 1 \in Nat
    BY <1>0, <2>1, RowSums
  <2> QED
    BY <1>0, <2>1, <2>2, <1>9 DEF CopyRow
<1>10. ASSUME NEW w \in Worker, EndCopy(w) PROVE TypeOK'
  BY <1>0, <1>10 DEF EndCopy, Goto
<1>11. ASSUME NEW w \in Worker, CopyFails(w) PROVE TypeOK'
  BY <1>0, <1>11 DEF CopyFails, Goto
<1>12. ASSUME NEW w \in Worker, Commit(w) PROVE TypeOK'
  <2>1. curr[w] \in Task
    BY <1>0, <1>12 DEF Commit, IInv, CopyHasTable
  <2>2. target[curr[w]] + moved[w] \in Nat
    BY <1>0, <2>1, RowSums
  <2>3. target' \in [Task -> Nat]
    BY <1>0, <2>1, <2>2, <1>12 DEF Commit
  <2>4. complete' \in [Task -> BOOLEAN]
    BY <1>0, <1>12 DEF Commit
  <2> QED
    BY <1>0, <2>3, <2>4, <1>12 DEF Commit, Goto
<1>13. ASSUME NEW w \in Worker, Finish(w) PROVE TypeOK'
  BY <1>0, <1>13 DEF Finish, Goto
<1> QED
  BY <1>1, <1>2, <1>3, <1>4, <1>5, <1>6, <1>7, <1>8, <1>9, <1>10, <1>11, <1>12, <1>13,
     NextCases DEF Dequeue

(* The lock makes the counter a thread read still the right one when it    *)
(* takes, so the pointer and the counter of the queue move together.       *)
LEMMA QueueStep ==
  ASSUME IInv, [Next]_vars
  PROVE  (QueueShape /\ Mutex /\ Fresh)'
<1> USE DEF IInv, QueueInv, TypeOK, QueueTypeOK, DequeuePc, NULL, Nobody,
            queueVars, copyVars, mainVars, QueueShape, Mutex, Fresh
<1>1. CASE Report
  BY <1>1 DEF Report
<1>2. CASE UNCHANGED vars
  BY <1>2 DEF vars
<1>3. ASSUME NEW w \in Worker, Connect(w) PROVE (QueueShape /\ Mutex /\ Fresh)'
  BY <1>3 DEF Connect, Goto
<1>4. ASSUME NEW w \in Worker, Lock(w), UNCHANGED <<copyVars, mainVars>>
      PROVE  (QueueShape /\ Mutex /\ Fresh)'
  BY <1>4 DEF Lock
<1>5. ASSUME NEW w \in Worker, ReadCount(w), UNCHANGED <<copyVars, mainVars>>
      PROVE  (QueueShape /\ Mutex /\ Fresh)'
  BY <1>5 DEF ReadCount
<1>6. ASSUME NEW w \in Worker, Take(w), UNCHANGED <<copyVars, mainVars>>
      PROVE  (QueueShape /\ Mutex /\ Fresh)'
  BY <1>6, TakeResult DEF Take
<1>7. ASSUME NEW w \in Worker, Unlock(w), UNCHANGED <<copyVars, mainVars>>
      PROVE  (QueueShape /\ Mutex /\ Fresh)'
  BY <1>7 DEF Unlock
<1>8. ASSUME NEW w \in Worker, OpenCopy(w) PROVE (QueueShape /\ Mutex /\ Fresh)'
  BY <1>8 DEF OpenCopy, Goto
<1>9. ASSUME NEW w \in Worker, CopyRow(w) PROVE (QueueShape /\ Mutex /\ Fresh)'
  BY <1>9 DEF CopyRow
<1>10. ASSUME NEW w \in Worker, EndCopy(w) PROVE (QueueShape /\ Mutex /\ Fresh)'
  BY <1>10 DEF EndCopy, Goto
<1>11. ASSUME NEW w \in Worker, CopyFails(w) PROVE (QueueShape /\ Mutex /\ Fresh)'
  BY <1>11 DEF CopyFails, Goto
<1>12. ASSUME NEW w \in Worker, Commit(w) PROVE (QueueShape /\ Mutex /\ Fresh)'
  BY <1>12 DEF Commit, Goto
<1>13. ASSUME NEW w \in Worker, Finish(w) PROVE (QueueShape /\ Mutex /\ Fresh)'
  BY <1>13 DEF Finish, Goto
<1> QED
  BY <1>1, <1>2, <1>3, <1>4, <1>5, <1>6, <1>7, <1>8, <1>9, <1>10, <1>11, <1>12, <1>13,
     NextCases DEF Dequeue

(* A table enters a thread's hands when it is taken, for the first and     *)
(* only time, and leaves them before or when it is marked complete.        *)
LEMMA HeldOnceStep ==
  ASSUME IInv, [Next]_vars
  PROVE  HeldOnce'
<1> USE DEF IInv, QueueInv, TypeOK, QueueTypeOK, DequeuePc, NULL, Nobody,
            queueVars, copyVars, mainVars, HeldOnce, Holds, HoldingPc, Taken
<1>1. CASE Report
  BY <1>1 DEF Report
<1>2. CASE UNCHANGED vars
  BY <1>2 DEF vars
<1>3. ASSUME NEW w \in Worker, Connect(w) PROVE HeldOnce'
  <2>1. \A v \in Worker, t \in Task : Holds(v, t)' => Holds(v, t)
    BY <1>3 DEF Connect, Goto
  <2>2. UNCHANGED <<ntask, complete>>
    BY <1>3 DEF Connect, Goto
  <2> QED
    BY <2>1, <2>2
<1>4. ASSUME NEW w \in Worker, Lock(w), UNCHANGED <<copyVars, mainVars>>
      PROVE  HeldOnce'
  <2>1. \A v \in Worker, t \in Task : Holds(v, t)' => Holds(v, t)
    BY <1>4 DEF Lock
  <2>2. UNCHANGED <<ntask, complete>>
    BY <1>4 DEF Lock
  <2> QED
    BY <2>1, <2>2
<1>5. ASSUME NEW w \in Worker, ReadCount(w), UNCHANGED <<copyVars, mainVars>>
      PROVE  HeldOnce'
  <2>1. \A v \in Worker, t \in Task : Holds(v, t)' => Holds(v, t)
    BY <1>5 DEF ReadCount
  <2>2. UNCHANGED <<ntask, complete>>
    BY <1>5 DEF ReadCount
  <2> QED
    BY <2>1, <2>2
<1>6. ASSUME NEW w \in Worker, Take(w), UNCHANGED <<copyVars, mainVars>>
      PROVE  HeldOnce'
  <2>1. UNCHANGED complete /\ \A v \in Worker \ {w}, t \in Task : Holds(v, t)' => Holds(v, t)
    BY <1>6, TakeResult
  <2>2. CASE ntask = 0
    <3>1. \A t \in Task : ~Holds(w, t)'
      BY <2>2, <1>6, TakeResult
    <3>2. \A t \in Task : Taken(t)' <=> Taken(t)
      BY <2>2, <1>6, TakeResult
    <3> QED
      BY <2>1, <3>1, <3>2
  <2>3. CASE ntask # 0
    <3>1. PICK t0 \in Task :
            /\ curr'[w] = t0 /\ ~Taken(t0)
            /\ \A t \in Task : Taken(t)' <=> Taken(t) \/ t = t0
      BY <2>3, <1>6, TakeResult
    <3>2. \A t \in Task : Holds(w, t)' => t = t0
      BY <3>1
    <3> QED
      BY <2>1, <3>1, <3>2 DEF LoadedWhole
  <2> QED
    BY <2>2, <2>3
<1>7. ASSUME NEW w \in Worker, Unlock(w), UNCHANGED <<copyVars, mainVars>>
      PROVE  HeldOnce'
  <2>1. \A v \in Worker, t \in Task : Holds(v, t)' => Holds(v, t)
    BY <1>7 DEF Unlock
  <2>2. UNCHANGED <<ntask, complete>>
    BY <1>7 DEF Unlock
  <2> QED
    BY <2>1, <2>2
<1>8. ASSUME NEW w \in Worker, OpenCopy(w) PROVE HeldOnce'
  <2>1. \A v \in Worker, t \in Task : Holds(v, t)' => Holds(v, t)
    BY <1>8 DEF OpenCopy, Goto
  <2>2. UNCHANGED <<ntask, complete>>
    BY <1>8 DEF OpenCopy, Goto
  <2> QED
    BY <2>1, <2>2
<1>9. ASSUME NEW w \in Worker, CopyRow(w) PROVE HeldOnce'
  <2>1. \A v \in Worker, t \in Task : Holds(v, t)' => Holds(v, t)
    BY <1>9 DEF CopyRow
  <2>2. UNCHANGED <<ntask, complete>>
    BY <1>9 DEF CopyRow
  <2> QED
    BY <2>1, <2>2
<1>10. ASSUME NEW w \in Worker, EndCopy(w) PROVE HeldOnce'
  <2>1. \A v \in Worker, t \in Task : Holds(v, t)' => Holds(v, t)
    BY <1>10 DEF EndCopy, Goto
  <2>2. UNCHANGED <<ntask, complete>>
    BY <1>10 DEF EndCopy, Goto
  <2> QED
    BY <2>1, <2>2
<1>11. ASSUME NEW w \in Worker, CopyFails(w) PROVE HeldOnce'
  <2>1. \A v \in Worker, t \in Task : Holds(v, t)' => Holds(v, t)
    BY <1>11 DEF CopyFails, Goto
  <2>2. UNCHANGED <<ntask, complete>>
    BY <1>11 DEF CopyFails, Goto
  <2> QED
    BY <2>1, <2>2
<1>12. ASSUME NEW w \in Worker, Commit(w) PROVE HeldOnce'
  <2>1. curr[w] \in Task /\ Holds(w, curr[w]) /\ ~Holds(w, curr[w])'
    BY <1>12 DEF Commit, Goto, CopyHasTable
  <2>2. \A v \in Worker, t \in Task : Holds(v, t)' => Holds(v, t) /\ v # w
    BY <1>12 DEF Commit, Goto
  <2>3. \A t \in Task : t # curr[w] => complete'[t] = complete[t]
    BY <1>12, <2>1 DEF Commit
  <2>4. UNCHANGED ntask
    BY <1>12 DEF Commit
  <2> QED
    BY <2>1, <2>2, <2>3, <2>4
<1>13. ASSUME NEW w \in Worker, Finish(w) PROVE HeldOnce'
  <2>1. \A v \in Worker, t \in Task : Holds(v, t)' => Holds(v, t)
    BY <1>13 DEF Finish, Goto
  <2>2. UNCHANGED <<ntask, complete>>
    BY <1>13 DEF Finish, Goto
  <2> QED
    BY <2>1, <2>2
<1> QED
  BY <1>1, <1>2, <1>3, <1>4, <1>5, <1>6, <1>7, <1>8, <1>9, <1>10, <1>11, <1>12, <1>13,
     NextCases DEF Dequeue

(* Between the dequeue and the COMMIT a thread has a table.                *)
LEMMA CopyHasTableStep ==
  ASSUME IInv, [Next]_vars
  PROVE  CopyHasTable'
<1> USE DEF IInv, QueueInv, TypeOK, QueueTypeOK, DequeuePc, NULL, Nobody,
            queueVars, copyVars, mainVars, CopyHasTable
<1>1. CASE Report
  BY <1>1 DEF Report
<1>2. CASE UNCHANGED vars
  BY <1>2 DEF vars
<1>3. ASSUME NEW w \in Worker, Connect(w) PROVE CopyHasTable'
  BY <1>3 DEF Connect, Goto
<1>4. ASSUME NEW w \in Worker, Lock(w), UNCHANGED <<copyVars, mainVars>>
      PROVE  CopyHasTable'
  BY <1>4 DEF Lock
<1>5. ASSUME NEW w \in Worker, ReadCount(w), UNCHANGED <<copyVars, mainVars>>
      PROVE  CopyHasTable'
  BY <1>5 DEF ReadCount
<1>6. ASSUME NEW w \in Worker, Take(w), UNCHANGED <<copyVars, mainVars>>
      PROVE  CopyHasTable'
  BY <1>6 DEF Take, TakeLast, TakeHead, TakeNone, NextOf
<1>7. ASSUME NEW w \in Worker, Unlock(w), UNCHANGED <<copyVars, mainVars>>
      PROVE  CopyHasTable'
  BY <1>7 DEF Unlock
<1>8. ASSUME NEW w \in Worker, OpenCopy(w) PROVE CopyHasTable'
  BY <1>8 DEF OpenCopy, Goto
<1>9. ASSUME NEW w \in Worker, CopyRow(w) PROVE CopyHasTable'
  BY <1>9 DEF CopyRow
<1>10. ASSUME NEW w \in Worker, EndCopy(w) PROVE CopyHasTable'
  BY <1>10 DEF EndCopy, Goto
<1>11. ASSUME NEW w \in Worker, CopyFails(w) PROVE CopyHasTable'
  BY <1>11 DEF CopyFails, Goto
<1>12. ASSUME NEW w \in Worker, Commit(w) PROVE CopyHasTable'
  BY <1>12 DEF Commit, Goto
<1>13. ASSUME NEW w \in Worker, Finish(w) PROVE CopyHasTable'
  BY <1>13 DEF Finish, Goto
<1> QED
  BY <1>1, <1>2, <1>3, <1>4, <1>5, <1>6, <1>7, <1>8, <1>9, <1>10, <1>11, <1>12, <1>13,
     NextCases DEF Dequeue

(* Only the COMMIT changes what is at the target, and it marks the table.  *)
LEMMA LoadedWholeStep ==
  ASSUME IInv, [Next]_vars
  PROVE  LoadedWhole'
<1> USE DEF IInv, QueueInv, TypeOK, QueueTypeOK, DequeuePc, NULL, Nobody,
            queueVars, copyVars, mainVars, LoadedWhole, Taken, CopyHasTable
<1>1. CASE Report
  BY <1>1 DEF Report
<1>2. CASE UNCHANGED vars
  BY <1>2 DEF vars
<1>3. ASSUME NEW w \in Worker, Connect(w) PROVE LoadedWhole'
  BY <1>3 DEF Connect, Goto
<1>4. ASSUME NEW w \in Worker, Lock(w), UNCHANGED <<copyVars, mainVars>>
      PROVE  LoadedWhole'
  BY <1>4 DEF Lock
<1>5. ASSUME NEW w \in Worker, ReadCount(w), UNCHANGED <<copyVars, mainVars>>
      PROVE  LoadedWhole'
  BY <1>5 DEF ReadCount
<1>6. ASSUME NEW w \in Worker, Take(w), UNCHANGED <<copyVars, mainVars>>
      PROVE  LoadedWhole'
  <2>1. \A t \in Task : Taken(t) => Taken(t)'
    BY <1>6, TakeResult
  <2> QED
    BY <2>1, <1>6
<1>7. ASSUME NEW w \in Worker, Unlock(w), UNCHANGED <<copyVars, mainVars>>
      PROVE  LoadedWhole'
  BY <1>7 DEF Unlock
<1>8. ASSUME NEW w \in Worker, OpenCopy(w) PROVE LoadedWhole'
  BY <1>8 DEF OpenCopy, Goto
<1>9. ASSUME NEW w \in Worker, CopyRow(w) PROVE LoadedWhole'
  BY <1>9 DEF CopyRow
<1>10. ASSUME NEW w \in Worker, EndCopy(w) PROVE LoadedWhole'
  BY <1>10 DEF EndCopy, Goto
<1>11. ASSUME NEW w \in Worker, CopyFails(w) PROVE LoadedWhole'
  BY <1>11 DEF CopyFails, Goto
<1>12. ASSUME NEW w \in Worker, Commit(w) PROVE LoadedWhole'
  <2>1. curr[w] \in Task /\ (OriginMayFail \/ moved[w] = Rows[curr[w]]) /\ Holds(w, curr[w])
    BY <1>12 DEF Commit, Holds, HoldingPc
  <2>2. Taken(curr[w]) /\ ~complete[curr[w]] /\ target[curr[w]] = 0
    BY <2>1 DEF HeldOnce
  <2>3. ASSUME NEW t \in Task, t # curr[w]
        PROVE  complete'[t] = complete[t] /\ target'[t] = target[t]
    BY <1>12, <2>1, <2>3 DEF Commit
  <2>4. /\ complete'[curr[w]]
        /\ OriginMayFail \/ CommitMayFail \/ target'[curr[w]] = Rows[curr[w]]
    BY <1>12, <2>1, <2>2 DEF Commit
  <2>5. UNCHANGED ntask
    BY <1>12 DEF Commit
  <2> QED
    BY <2>2, <2>3, <2>4, <2>5
<1>13. ASSUME NEW w \in Worker, Finish(w) PROVE LoadedWhole'
  BY <1>13 DEF Finish, Goto
<1> QED
  BY <1>1, <1>2, <1>3, <1>4, <1>5, <1>6, <1>7, <1>8, <1>9, <1>10, <1>11, <1>12, <1>13,
     NextCases DEF Dequeue

(* The queue never fills again, so an empty one stays empty.               *)
LEMMA DrainedStep ==
  ASSUME IInv, [Next]_vars
  PROVE  DrainedMeansEmpty'
<1> USE DEF IInv, QueueInv, TypeOK, QueueTypeOK, DequeuePc, NULL, Nobody,
            queueVars, copyVars, mainVars, DrainedMeansEmpty, QueueShape, Fresh
<1>1. CASE Report
  BY <1>1 DEF Report
<1>2. CASE UNCHANGED vars
  BY <1>2 DEF vars
<1>3. ASSUME NEW w \in Worker, Connect(w) PROVE DrainedMeansEmpty'
  BY <1>3 DEF Connect, Goto
<1>4. ASSUME NEW w \in Worker, Lock(w), UNCHANGED <<copyVars, mainVars>>
      PROVE  DrainedMeansEmpty'
  BY <1>4 DEF Lock
<1>5. ASSUME NEW w \in Worker, ReadCount(w), UNCHANGED <<copyVars, mainVars>>
      PROVE  DrainedMeansEmpty'
  BY <1>5 DEF ReadCount
<1>6. ASSUME NEW w \in Worker, Take(w), UNCHANGED <<copyVars, mainVars>>
      PROVE  DrainedMeansEmpty'
  <2>1. CASE ntask = 0
    <3>1. ntask' = 0
      BY <2>1, <1>6, TakeResult
    <3>2. \A v \in Worker : all_ok'[v] => pc'[v] = "done"
      BY <1>6 DEF Take
    <3> QED
      BY <3>1, <3>2
  <2>2. CASE ntask # 0
    <3>1. curr'[w] # NULL
      BY <2>2, <1>6, TakeResult
    <3>2. \A v \in Worker : pc'[v] # "drained" /\ ~all_ok'[v] /\ (pc'[v] = "unlock" => v = w)
      BY <2>2, <1>6, TakeResult DEF Take, Mutex
    <3> QED
      BY <3>1, <3>2
  <2> QED
    BY <2>1, <2>2
<1>7. ASSUME NEW w \in Worker, Unlock(w), UNCHANGED <<copyVars, mainVars>>
      PROVE  DrainedMeansEmpty'
  BY <1>7 DEF Unlock
<1>8. ASSUME NEW w \in Worker, OpenCopy(w) PROVE DrainedMeansEmpty'
  BY <1>8 DEF OpenCopy, Goto
<1>9. ASSUME NEW w \in Worker, CopyRow(w) PROVE DrainedMeansEmpty'
  BY <1>9 DEF CopyRow
<1>10. ASSUME NEW w \in Worker, EndCopy(w) PROVE DrainedMeansEmpty'
  BY <1>10 DEF EndCopy, Goto
<1>11. ASSUME NEW w \in Worker, CopyFails(w) PROVE DrainedMeansEmpty'
  BY <1>11 DEF CopyFails, Goto
<1>12. ASSUME NEW w \in Worker, Commit(w) PROVE DrainedMeansEmpty'
  BY <1>12 DEF Commit, Goto
<1>13. ASSUME NEW w \in Worker, Finish(w) PROVE DrainedMeansEmpty'
  BY <1>13 DEF Finish, Goto
<1> QED
  BY <1>1, <1>2, <1>3, <1>4, <1>5, <1>6, <1>7, <1>8, <1>9, <1>10, <1>11, <1>12, <1>13,
     NextCases DEF Dequeue

(* After the report the threads are done and nothing is decided anew.      *)
LEMMA ReportStep ==
  ASSUME IInv, [Next]_vars
  PROVE  ReportIsFinal'
<1> USE DEF IInv, QueueInv, TypeOK, QueueTypeOK, DequeuePc, NULL, Nobody,
            queueVars, copyVars, mainVars, ReportIsFinal
<1>1. CASE Report
  BY <1>1 DEF Report
<1>2. CASE UNCHANGED vars
  BY <1>2 DEF vars
<1>3. ASSUME NEW w \in Worker, Connect(w) PROVE ReportIsFinal'
  BY <1>3 DEF Connect, Goto
<1>4. ASSUME NEW w \in Worker, Lock(w), UNCHANGED <<copyVars, mainVars>>
      PROVE  ReportIsFinal'
  BY <1>4 DEF Lock
<1>5. ASSUME NEW w \in Worker, ReadCount(w), UNCHANGED <<copyVars, mainVars>>
      PROVE  ReportIsFinal'
  BY <1>5 DEF ReadCount
<1>6. ASSUME NEW w \in Worker, Take(w), UNCHANGED <<copyVars, mainVars>>
      PROVE  ReportIsFinal'
  BY <1>6 DEF Take, TakeLast, TakeHead, TakeNone, NextOf
<1>7. ASSUME NEW w \in Worker, Unlock(w), UNCHANGED <<copyVars, mainVars>>
      PROVE  ReportIsFinal'
  BY <1>7 DEF Unlock
<1>8. ASSUME NEW w \in Worker, OpenCopy(w) PROVE ReportIsFinal'
  BY <1>8 DEF OpenCopy, Goto
<1>9. ASSUME NEW w \in Worker, CopyRow(w) PROVE ReportIsFinal'
  BY <1>9 DEF CopyRow
<1>10. ASSUME NEW w \in Worker, EndCopy(w) PROVE ReportIsFinal'
  BY <1>10 DEF EndCopy, Goto
<1>11. ASSUME NEW w \in Worker, CopyFails(w) PROVE ReportIsFinal'
  BY <1>11 DEF CopyFails, Goto
<1>12. ASSUME NEW w \in Worker, Commit(w) PROVE ReportIsFinal'
  BY <1>12 DEF Commit, Goto
<1>13. ASSUME NEW w \in Worker, Finish(w) PROVE ReportIsFinal'
  BY <1>13 DEF Finish, Goto
<1> QED
  BY <1>1, <1>2, <1>3, <1>4, <1>5, <1>6, <1>7, <1>8, <1>9, <1>10, <1>11, <1>12, <1>13,
     NextCases DEF Dequeue

(* A taken table does not get lost: whoever holds it completes it or       *)
(* gives it up.                                                            *)
LEMMA AccountedStep ==
  ASSUME IInv, [Next]_vars
  PROVE  Accounted'
<1> USE DEF IInv, QueueInv, TypeOK, QueueTypeOK, DequeuePc, NULL, Nobody,
            queueVars, copyVars, mainVars, Accounted, Answers, Holds, HoldingPc, GaveUp, Taken
<1>1. CASE Report
  BY <1>1 DEF Report
<1>2. CASE UNCHANGED vars
  BY <1>2 DEF vars
<1>3. ASSUME NEW w \in Worker, Connect(w) PROVE Accounted'
  <2>1. \A v \in Worker, t \in Task : Answers(v, t) => Answers(v, t)' \/ complete'[t]
    BY <1>3 DEF Connect, Goto
  <2>2. UNCHANGED ntask /\ \A t \in Task : complete[t] => complete'[t]
    BY <1>3 DEF Connect, Goto, CopyHasTable
  <2> QED
    BY <2>1, <2>2
<1>4. ASSUME NEW w \in Worker, Lock(w), UNCHANGED <<copyVars, mainVars>>
      PROVE  Accounted'
  <2>1. \A v \in Worker, t \in Task : Answers(v, t) => Answers(v, t)' \/ complete'[t]
    BY <1>4 DEF Lock
  <2>2. UNCHANGED ntask /\ \A t \in Task : complete[t] => complete'[t]
    BY <1>4 DEF Lock, CopyHasTable
  <2> QED
    BY <2>1, <2>2
<1>5. ASSUME NEW w \in Worker, ReadCount(w), UNCHANGED <<copyVars, mainVars>>
      PROVE  Accounted'
  <2>1. \A v \in Worker, t \in Task : Answers(v, t) => Answers(v, t)' \/ complete'[t]
    BY <1>5 DEF ReadCount
  <2>2. UNCHANGED ntask /\ \A t \in Task : complete[t] => complete'[t]
    BY <1>5 DEF ReadCount, CopyHasTable
  <2> QED
    BY <2>1, <2>2
<1>6. ASSUME NEW w \in Worker, Take(w), UNCHANGED <<copyVars, mainVars>>
      PROVE  Accounted'
  <2>0. UNCHANGED complete /\ \A t \in Task : ~Answers(w, t)
    BY <1>6 DEF Take
  <2>1. \A v \in Worker, t \in Task : Answers(v, t) => Answers(v, t)'
    <3>1. SUFFICES ASSUME NEW v \in Worker, v # w, NEW t \in Task, Answers(v, t)
                   PROVE  Answers(v, t)'
      BY <2>0
    <3>2. pc'[v] = pc[v] /\ curr'[v] = curr[v] /\ all_ok'[v] = all_ok[v]
      BY <1>6, <3>1 DEF Take, TakeLast, TakeHead, TakeNone
    <3> QED
      BY <3>1, <3>2
  <2>2. CASE ntask = 0
    BY <2>0, <2>1, <2>2, <1>6, TakeResult
  <2>3. CASE ntask # 0
    <3>1. PICK t0 \in Task :
            /\ curr'[w] = t0
            /\ \A t \in Task : Taken(t)' <=> Taken(t) \/ t = t0
      BY <2>3, <1>6, TakeResult
    <3>2. Answers(w, t0)'
      BY <3>1, <1>6, TakeResult
    <3> QED
      BY <2>0, <2>1, <3>1, <3>2
  <2> QED
    BY <2>2, <2>3
<1>7. ASSUME NEW w \in Worker, Unlock(w), UNCHANGED <<copyVars, mainVars>>
      PROVE  Accounted'
  <2>1. \A v \in Worker, t \in Task : Answers(v, t) => Answers(v, t)' \/ complete'[t]
    BY <1>7 DEF Unlock, Task
  <2>2. UNCHANGED ntask /\ \A t \in Task : complete[t] => complete'[t]
    BY <1>7 DEF Unlock, CopyHasTable
  <2> QED
    BY <2>1, <2>2
<1>8. ASSUME NEW w \in Worker, OpenCopy(w) PROVE Accounted'
  <2>1. \A v \in Worker, t \in Task : Answers(v, t) => Answers(v, t)' \/ complete'[t]
    BY <1>8 DEF OpenCopy, Goto
  <2>2. UNCHANGED ntask /\ \A t \in Task : complete[t] => complete'[t]
    BY <1>8 DEF OpenCopy, Goto, CopyHasTable
  <2> QED
    BY <2>1, <2>2
<1>9. ASSUME NEW w \in Worker, CopyRow(w) PROVE Accounted'
  <2>1. \A v \in Worker, t \in Task : Answers(v, t) => Answers(v, t)' \/ complete'[t]
    BY <1>9 DEF CopyRow
  <2>2. UNCHANGED ntask /\ \A t \in Task : complete[t] => complete'[t]
    BY <1>9 DEF CopyRow, CopyHasTable
  <2> QED
    BY <2>1, <2>2
<1>10. ASSUME NEW w \in Worker, EndCopy(w) PROVE Accounted'
  <2>1. \A v \in Worker, t \in Task : Answers(v, t) => Answers(v, t)' \/ complete'[t]
    BY <1>10 DEF EndCopy, Goto
  <2>2. UNCHANGED ntask /\ \A t \in Task : complete[t] => complete'[t]
    BY <1>10 DEF EndCopy, Goto, CopyHasTable
  <2> QED
    BY <2>1, <2>2
<1>11. ASSUME NEW w \in Worker, CopyFails(w) PROVE Accounted'
  <2>1. \A v \in Worker, t \in Task : Answers(v, t) => Answers(v, t)' \/ complete'[t]
    BY <1>11 DEF CopyFails, Goto, DrainedMeansEmpty
  <2>2. UNCHANGED ntask /\ \A t \in Task : complete[t] => complete'[t]
    BY <1>11 DEF CopyFails, Goto, CopyHasTable
  <2> QED
    BY <2>1, <2>2
<1>12. ASSUME NEW w \in Worker, Commit(w) PROVE Accounted'
  <2>1. \A v \in Worker, t \in Task : Answers(v, t) => Answers(v, t)' \/ complete'[t]
    BY <1>12 DEF Commit, Goto
  <2>2. UNCHANGED ntask /\ \A t \in Task : complete[t] => complete'[t]
    BY <1>12 DEF Commit, Goto, CopyHasTable
  <2> QED
    BY <2>1, <2>2
<1>13. ASSUME NEW w \in Worker, Finish(w) PROVE Accounted'
  <2>1. \A v \in Worker, t \in Task : Answers(v, t) => Answers(v, t)' \/ complete'[t]
    BY <1>13 DEF Finish, Goto
  <2>2. UNCHANGED ntask /\ \A t \in Task : complete[t] => complete'[t]
    BY <1>13 DEF Finish, Goto, CopyHasTable
  <2> QED
    BY <2>1, <2>2
<1> QED
  BY <1>1, <1>2, <1>3, <1>4, <1>5, <1>6, <1>7, <1>8, <1>9, <1>10, <1>11, <1>12, <1>13,
     NextCases DEF Dequeue

-----------------------------------------------------------------------------
(* The invariant holds at the start and every step keeps it.               *)
LEMMA InitIInv == Init => IInv
<1> SUFFICES ASSUME Init PROVE IInv
  OBVIOUS
<1> USE DEF Init, QueueInit
<1>0. TypeOK
  <2>1. ntask \in 0 .. NTask /\ 0 \in 0 .. NTask /\ l_task \in Task \union {NULL}
    BY DEF Task, NULL
  <2> QED
    BY <2>1 DEF TypeOK, QueueTypeOK, DequeuePc
<1>1. QueueInv
  BY <1>0 DEF QueueInv, QueueShape, Mutex, Fresh, NULL, Nobody
<1>2. \A t \in Task : ~Taken(t)
  BY DEF Taken, Task
<1>3. HeldOnce /\ CopyHasTable /\ LoadedWhole /\ Accounted
  BY <1>2 DEF HeldOnce, Holds, HoldingPc, CopyHasTable, LoadedWhole, Accounted
<1>4. DrainedMeansEmpty /\ ReportIsFinal
  BY DEF DrainedMeansEmpty, ReportIsFinal
<1> QED
  BY <1>1, <1>3, <1>4 DEF IInv

(* Each conjunct of the invariant by its own lemma.                        *)
LEMMA StepIInv == IInv /\ [Next]_vars => IInv'
<1> SUFFICES ASSUME IInv, [Next]_vars PROVE IInv'
  OBVIOUS
<1> QED
  BY TypingStep, QueueStep, HeldOnceStep, CopyHasTableStep, LoadedWholeStep,
     AccountedStep, DrainedStep, ReportStep DEF IInv, QueueInv

(* The inductive invariant of the pool.                                    *)
THEOREM Inductive == Safety => []IInv
  BY InitIInv, StepIInv, PTL DEF Safety

(* Every variable keeps its type, whatever the threads and servers do.     *)
THEOREM Typing == Safety => []TypeOK
<1>1. IInv => TypeOK
  BY DEF IInv, QueueInv
<1> QED
  BY <1>1, Inductive, PTL

(* No table is copied by two threads, nor copied again after it was        *)
(* completed: the dequeue of copy_table_data hands each one out once.      *)
THEOREM HandedOutOnce == Safety => []OneCopier
<1>1. IInv => OneCopier
  BY DEF IInv, HeldOnce, OneCopier
<1> QED
  BY <1>1, Inductive, PTL

(* When the main thread has summed up, the tables that are not complete    *)
(* were each given up by a thread, unless all threads gave up.             *)
LEMMA ReportedTables == IInv => OneTablePerFailure
<1> SUFFICES ASSUME IInv, reported, NEW v \in Worker, ~GaveUp(v), NEW t \in Task, ~complete[t]
             PROVE  \E w \in Worker : GaveUp(w) /\ curr[w] = t
  BY DEF OneTablePerFailure
<1>1. \A w \in Worker : pc[w] = "done"
  BY DEF IInv, ReportIsFinal
<1>2. ntask = 0
  BY <1>1 DEF GaveUp, IInv, DrainedMeansEmpty
<1>3. Taken(t)
  BY <1>2 DEF Taken, Task
<1>4. PICK w \in Worker : Answers(w, t)
  BY <1>3 DEF IInv, Accounted
<1> QED
  BY <1>1, <1>4 DEF Answers, Holds, HoldingPc

(* A failing thread loses the job one table, the one it held, as long as   *)
(* another thread drains the queue.                                        *)
THEOREM FailureCostsOneTable == Safety => []OneTablePerFailure
  BY ReportedTables, Inductive, PTL

(* With an origin that sends all rows and a target whose COMMIT does what  *)
(* COPY promised, a table marked complete has exactly its rows there.      *)
THEOREM CompleteIsCommitted ==
  ASSUME ~OriginMayFail, ~CommitMayFail
  PROVE  Safety => []CompleteMeansCommitted
<1>1. IInv => CompleteMeansCommitted
  BY DEF IInv, LoadedWhole, CompleteMeansCommitted
<1> QED
  BY <1>1, Inductive, PTL

(* Nobody gave up when there is no error, so every table is complete.      *)
LEMMA CleanTables ==
  ASSUME IInv, ~OriginMayFail, ~CommitMayFail, reported, ~have_err
  PROVE  \A t \in Task : target[t] = Rows[t]
<1>1. \A w \in Worker : ~GaveUp(w)
  BY DEF IInv, ReportIsFinal, GaveUp
<1>2. \A t \in Task : complete[t]
  BY <1>1, ReportedTables DEF OneTablePerFailure
<1> QED
  BY <1>2 DEF IInv, LoadedWhole

(* The verdict of the main thread: without an error every table is at the  *)
(* target with all its rows.                                               *)
THEOREM CleanIsLoaded ==
  ASSUME ~OriginMayFail, ~CommitMayFail
  PROVE  Safety => []CleanMeansLoaded
<1>1. IInv => CleanMeansLoaded
  BY CleanTables DEF CleanMeansLoaded
<1> QED
  BY <1>1, Inductive, PTL

-----------------------------------------------------------------------------
(* The COMMIT of a thread is the Load of its table: nothing of the table   *)
(* was at the target, and the transaction has all its rows.                *)
LEMMA CommitIsLoad ==
  ASSUME IInv, ~OriginMayFail, ~CommitMayFail, NEW w \in Worker, Commit(w)
  PROVE  Job!Load(curr[w])
<1>1. /\ curr[w] \in Task /\ moved[w] = Rows[curr[w]] /\ Holds(w, curr[w])
  BY DEF Commit, IInv, CopyHasTable, Holds, HoldingPc
<1>2. target[curr[w]] = 0
  BY <1>1 DEF IInv, HeldOnce, LoadedWhole
<1>3. ~reported /\ UNCHANGED <<reported, have_err>>
  BY DEF Commit, IInv, ReportIsFinal, mainVars
<1>4. target[curr[w]] + moved[w] = Rows[curr[w]]
  BY <1>1, <1>2
<1>5. target' = [target EXCEPT ![curr[w]] = Rows[curr[w]]]
  BY <1>4 DEF Commit
<1> QED
  BY <1>2, <1>3, <1>5 DEF Job!Load

(* Every step of the pool is a step of the job or changes nothing of it.   *)
LEMMA StepJob ==
  ASSUME IInv, IInv', ~OriginMayFail, ~CommitMayFail, [Next]_vars
  PROVE  [Job!Next]_(Job!vars)
<1>1. CASE UNCHANGED <<target, reported, have_err>>
  BY <1>1 DEF Job!vars
<1>2. CASE Report
  <2>1. ~reported /\ reported' /\ UNCHANGED target
    BY <1>2 DEF Report, copyVars
  <2>2. CASE have_err'
    BY <2>1, <2>2 DEF Job!Next, Job!Finish, Job!FinishWithErrors
  <2>3. CASE ~have_err'
    <3>1. \A w \in Worker : all_ok[w]
      BY <1>2, <2>3 DEF Report
    <3>2. /\ UNCHANGED <<complete, pc, all_ok, curr>>
          /\ \A t \in Task : complete'[t]
      <4>1. \A w \in Worker : ~GaveUp(w)
        BY <3>1 DEF GaveUp
      <4>2. OneTablePerFailure'
        BY ReportedTables, PTL
      <4> QED
        BY <1>2, <2>1, <4>1, <4>2 DEF Report, OneTablePerFailure, GaveUp, copyVars, queueVars
    <3>3. target = [t \in Task |-> Rows[t]]
      BY <2>1, <3>2 DEF IInv, LoadedWhole, QueueInv, TypeOK
    <3> QED
      BY <2>1, <2>3, <3>3 DEF Job!Next, Job!Finish, Job!FinishClean
  <2> QED
    BY <2>2, <2>3
<1>3. ASSUME NEW w \in Worker, Commit(w)
      PROVE  Job!Next
  <2>1. curr[w] \in Task
    BY <1>3 DEF Commit, IInv, CopyHasTable
  <2> QED
    BY <1>3, <2>1, CommitIsLoad DEF Job!Next
<1>4. ASSUME NEW w \in Worker, Thread(w), ~Commit(w)
      PROVE  UNCHANGED <<target, reported, have_err>>
  BY <1>4 DEF Thread, Connect, TakeTask, Copy, OpenCopy, CopyRow, EndCopy, CopyFails,
              Finish, copyVars, mainVars
<1>5. CASE UNCHANGED vars
  BY <1>1, <1>5 DEF vars, copyVars, mainVars
<1> QED
  BY <1>1, <1>2, <1>3, <1>4, <1>5 DEF Next, Ended

(* The pool implements the job, as far as safety goes: tables reach the    *)
(* target whole and once, and the verdict is clean only when all are there. *)
THEOREM PoolImplementsJob ==
  ASSUME ~OriginMayFail, ~CommitMayFail
  PROVE  Safety => Job!Safety
<1>1. Init => Job!Init
  BY DEF Init, Job!Init
<1>2. IInv /\ IInv' /\ [Next]_vars => [Job!Next]_(Job!vars)
  BY StepJob
<1> QED
  BY <1>1, <1>2, Inductive, PTL DEF Safety, Job!Safety
-----------------------------------------------------------------------------
(* Rows that a thread has counted and not committed yet.                   *)
InHand(w) == IF pc[w] \in {"copy", "commit"} THEN moved[w] ELSE 0

(* The rows at the target are those that landed from each thread, which    *)
(* are all that it counted but for what it has in hand, unless it gave up. *)
LandedRows(landed) ==
  /\ SumFunctionOnSet(landed, Worker) = SumFunctionOnSet(target, Task)
  /\ \A w \in Worker : ~GaveUp(w) => wcount[w] = landed[w] + InHand(w)

Counted ==
  /\ \E landed \in [Worker -> Nat] : LandedRows(landed)
  /\ SumFunctionOnSet(wcount, Worker) = SumFunctionOnSet(tcount, Task)

LEMMA TasksAreFinite == IsFiniteSet(Task)
  BY FS_Interval DEF Task

(* Nothing has been counted at the start.                                  *)
LEMMA InitCounted ==
  ASSUME IsFiniteSet(Worker), Init
  PROVE  Counted
<1>1. /\ wcount \in [Worker -> Nat] /\ tcount \in [Task -> Int] /\ target \in [Task -> Int]
  BY DEF Init
<1>2. SumFunctionOnSet(wcount, Worker) = 0 /\ SumFunctionOnSet(tcount, Task) = 0
      /\ SumFunctionOnSet(target, Task) = 0
  <2>1. SumFunctionOnSet(wcount, Worker) = 0
    BY SumOfNothing DEF Init
  <2>2. SumFunctionOnSet(tcount, Task) = 0 /\ SumFunctionOnSet(target, Task) = 0
    BY <1>1, TasksAreFinite, SumOfNothing DEF Init
  <2> QED
    BY <2>1, <2>2
<1>3. LandedRows(wcount) /\ wcount \in [Worker -> Nat]
  BY <1>1, <1>2 DEF LandedRows, Init, InHand
<1> QED
  BY <1>1, <1>2, <1>3 DEF Counted

(* A row that is copied is counted for its thread and for its table.       *)
LEMMA CountStep ==
  ASSUME IsFiniteSet(Worker), IInv, [Next]_vars,
         SumFunctionOnSet(wcount, Worker) = SumFunctionOnSet(tcount, Task)
  PROVE  SumFunctionOnSet(wcount', Worker) = SumFunctionOnSet(tcount', Task)
<1>1. CASE UNCHANGED <<wcount, tcount>>
  BY <1>1
<1>2. ASSUME NEW w \in Worker, CopyRow(w)
      PROVE  SumFunctionOnSet(wcount', Worker) = SumFunctionOnSet(tcount', Task)
  <2>1. /\ wcount \in [Worker -> Int] /\ wcount' \in [Worker -> Int]
        /\ tcount \in [Task -> Int] /\ tcount' \in [Task -> Int]
        /\ curr[w] \in Task /\ IsFiniteSet(Task)
    <3>1. TypeOK /\ TypeOK'
      BY TypingStep DEF IInv, QueueInv
    <3>2. curr[w] \in Task
      BY <1>2 DEF IInv, CopyHasTable, CopyRow
    <3> QED
      BY <3>1, <3>2, TasksAreFinite DEF TypeOK
  <2>2. /\ wcount'[w] = wcount[w] + 1 /\ \A v \in Worker \ {w} : wcount'[v] = wcount[v]
        /\ tcount'[curr[w]] = tcount[curr[w]] + 1
        /\ \A t \in Task \ {curr[w]} : tcount'[t] = tcount[t]
    BY <1>2, <2>1 DEF CopyRow
  <2>3. SumFunctionOnSet(wcount', Worker) = SumFunctionOnSet(wcount, Worker) + 1
    BY <2>1, <2>2, SumAdds
  <2>4. SumFunctionOnSet(tcount', Task) = SumFunctionOnSet(tcount, Task) + 1
    BY SMTT(60), <2>1, <2>2, SumAdds
  <2> QED
    BY <2>3, <2>4
<1> QED
  BY <1>1, <1>2, NextCases
     DEF Report, vars, copyVars, mainVars, Connect, OpenCopy, EndCopy, CopyFails, Commit, Finish

(* What a thread has in hand lands with its COMMIT.                        *)
LEMMA LandedStep ==
  ASSUME IsFiniteSet(Worker), ~CommitMayFail, IInv, [Next]_vars,
         NEW landed \in [Worker -> Nat], LandedRows(landed)
  PROVE  \E after \in [Worker -> Nat] : LandedRows(after)'
<1>1. TypeOK /\ TypeOK'
  BY TypingStep DEF IInv, QueueInv
<1>2. ASSUME UNCHANGED target,
             \A v \in Worker : ~GaveUp(v)' => /\ ~GaveUp(v)
                                              /\ wcount'[v] - InHand(v)' = wcount[v] - InHand(v)
      PROVE  LandedRows(landed)'
  <2>1. \A v \in Worker : /\ wcount[v] \in Nat /\ wcount'[v] \in Nat /\ landed[v] \in Nat
                          /\ InHand(v) \in Nat /\ InHand(v)' \in Nat
    BY <1>1 DEF TypeOK, InHand
  <2>2. ASSUME NEW v \in Worker, ~GaveUp(v)' PROVE wcount'[v] = landed[v] + InHand(v)'
    <3>1. wcount[v] = landed[v] + InHand(v) /\ wcount'[v] - InHand(v)' = wcount[v] - InHand(v)
      BY <1>2, <2>2 DEF LandedRows
    <3> QED
      BY <2>1, <3>1
  <2> QED
    BY <1>2, <2>2 DEF LandedRows
<1>3. ASSUME NEW w \in Worker, Commit(w)
      PROVE  \E after \in [Worker -> Nat] : LandedRows(after)'
  <2> DEFINE after == [landed EXCEPT ![w] = @ + moved[w]]
  <2>1. /\ curr[w] \in Task /\ moved[w] \in Nat /\ landed[w] + moved[w] \in Nat
        /\ IsFiniteSet(Task) /\ target \in [Task -> Int] /\ target' \in [Task -> Int]
    <3>1. curr[w] \in Task
      BY <1>3 DEF IInv, CopyHasTable, Commit
    <3>2. moved[w] \in Nat /\ landed[w] \in Nat
      BY <1>1 DEF TypeOK
    <3> QED
      BY <1>1, <3>1, <3>2, TasksAreFinite DEF TypeOK
  <2>2. /\ after \in [Worker -> Nat] /\ after[w] = landed[w] + moved[w]
        /\ \A v \in Worker \ {w} : after[v] = landed[v]
    BY <2>1
  <2> HIDE DEF after
  <2>3. SumFunctionOnSet(after, Worker) = SumFunctionOnSet(landed, Worker) + moved[w]
    BY <2>1, <2>2, SumAdds
  <2>4. SumFunctionOnSet(target', Task) = SumFunctionOnSet(target, Task) + moved[w]
    <3>1. /\ target'[curr[w]] = target[curr[w]] + moved[w]
          /\ \A t \in Task \ {curr[w]} : target'[t] = target[t]
      BY <1>3, <2>1 DEF Commit
    <3> QED
      BY SMTT(60), <2>1, <3>1, SumAdds
  <2>5. ASSUME NEW v \in Worker, ~GaveUp(v)' PROVE wcount'[v] = after[v] + InHand(v)'
    <3>1. /\ UNCHANGED <<moved, wcount, all_ok>> /\ pc[w] = "commit" /\ pc'[w] = "lock"
          /\ \A u \in Worker \ {w} : pc'[u] = pc[u]
      BY <1>1, <1>3 DEF Commit, Goto, TypeOK
    <3>2. ~GaveUp(v)
      BY <2>5, <3>1 DEF GaveUp
    <3>3. wcount[v] = landed[v] + InHand(v)
      BY <3>2 DEF LandedRows
    <3> QED
      BY <2>1, <2>2, <3>1, <3>3 DEF InHand
  <2> QED
    BY <2>2, <2>3, <2>4, <2>5 DEF LandedRows
<1>4. ASSUME NEW w \in Worker, Thread(w), ~Commit(w)
      PROVE  LandedRows(landed)'
  <2>1. UNCHANGED target
    BY <1>4 DEF Thread, Connect, TakeTask, Copy, OpenCopy, CopyRow, EndCopy, CopyFails,
                Finish, copyVars
  <2>2. ASSUME NEW v \in Worker \ {w}
        PROVE  UNCHANGED <<pc[v], all_ok[v], moved[v], wcount[v]>>
    <3>1. CASE Connect(w) \/ TakeTask(w)
      BY <1>1, <3>1 DEF TypeOK, Connect, TakeTask, Dequeue, Lock, ReadCount, Take, Unlock, Goto,
                        copyVars
    <3>2. CASE OpenCopy(w) \/ CopyRow(w)
      BY <1>1, <3>2 DEF TypeOK, OpenCopy, CopyRow, Goto, copyVars
    <3>3. CASE EndCopy(w) \/ CopyFails(w) \/ Finish(w)
      BY <1>1, <3>3 DEF TypeOK, EndCopy, CopyFails, Finish, Goto, copyVars
    <3> QED
      BY <1>4, <3>1, <3>2, <3>3 DEF Thread, Copy
  <2>3. ~GaveUp(w)' => /\ ~GaveUp(w)
                       /\ wcount'[w] - InHand(w)' = wcount[w] - InHand(w)
    <3>0. /\ wcount[w] \in Nat /\ moved[w] \in Nat
          /\ all_ok[w] => pc[w] = "done"
      BY <1>1 DEF TypeOK, IInv, DrainedMeansEmpty
    <3>1. CASE Connect(w) \/ TakeTask(w)
      BY <1>1, <3>0, <3>1 DEF TypeOK, Connect, TakeTask, Dequeue, Lock, ReadCount, Take, Unlock,
                              Goto, copyVars, GaveUp, InHand
    <3>2. CASE OpenCopy(w)
      BY <1>1, <3>0, <3>2 DEF TypeOK, OpenCopy, Goto, GaveUp, InHand
    <3>3. CASE CopyRow(w)
      BY <1>1, <3>0, <3>3 DEF TypeOK, CopyRow, GaveUp, InHand
    <3>4. CASE EndCopy(w)
      BY <1>1, <3>0, <3>4 DEF TypeOK, EndCopy, Goto, copyVars, GaveUp, InHand
    <3>5. CASE CopyFails(w)
      BY <1>1, <3>0, <3>5 DEF TypeOK, CopyFails, Goto, copyVars, GaveUp
    <3>6. CASE Finish(w)
      BY <1>1, <3>0, <3>6 DEF TypeOK, Finish, Goto, GaveUp, InHand
    <3> QED
      BY <1>4, <3>1, <3>2, <3>3, <3>4, <3>5, <3>6 DEF Thread, Copy
  <2>4. ASSUME NEW v \in Worker \ {w}
        PROVE  (GaveUp(v)' <=> GaveUp(v)) /\ UNCHANGED <<wcount[v], InHand(v)>>
    BY <2>2 DEF GaveUp, InHand
  <2> QED
    BY <1>2, <2>1, <2>3, <2>4
<1>5. CASE UNCHANGED <<target, pc, all_ok, moved, wcount>>
  BY <1>2, <1>5 DEF GaveUp, InHand
<1> QED
  BY <1>3, <1>4, <1>5 DEF Next, Report, Ended, vars, copyVars

(* The rows of the threads that ended well are among those that landed, so *)
(* that the sum printed is never more than what is at the target; without  *)
(* an error all threads ended well, and the two sums are the same.         *)
LEMMA ReportedCounts ==
  ASSUME IsFiniteSet(Worker), IInv, Counted, reported
  PROVE  s_count <= SumFunction(target) /\ (~have_err => s_count = t_count)
<1> DEFINE good == {w \in Worker : all_ok[w]}
<1>1. /\ wcount \in [Worker -> Int] /\ SumFunction(target) = SumFunctionOnSet(target, Task)
      /\ t_count = SumFunctionOnSet(tcount, Task)
  BY DEF IInv, QueueInv, TypeOK, SumFunction, t_count
<1>2. PICK landed \in [Worker -> Nat] : LandedRows(landed)
  BY DEF Counted
<1>3. \A w \in good : wcount[w] <= landed[w]
  <2> SUFFICES ASSUME NEW w \in good PROVE wcount[w] <= landed[w]
    OBVIOUS
  <2>1. pc[w] = "done" /\ ~GaveUp(w) /\ InHand(w) = 0
    BY DEF IInv, ReportIsFinal, GaveUp, InHand
  <2> QED
    BY <1>2, <2>1 DEF LandedRows
<1>4. s_count <= SumFunctionOnSet(landed, Worker)
  <2>1. /\ landed \in [Worker -> Int] /\ good \in SUBSET Worker
        /\ \A w \in Worker : 0 <= landed[w]
    OBVIOUS
  <2>2. SumFunctionOnSet(wcount, good) <= SumFunctionOnSet(landed, Worker)
    BY <1>1, <1>3, <2>1, SumGrows
  <2> QED
    BY <2>2 DEF s_count
<1>5. ASSUME ~have_err PROVE s_count = t_count
  <2>1. good = Worker
    BY <1>5 DEF IInv, ReportIsFinal
  <2> QED
    BY <1>1, <2>1 DEF Counted, s_count
<1> QED
  BY <1>1, <1>2, <1>4, <1>5 DEF LandedRows

(* The line "job migrate row" is true: the threads that ended well counted *)
(* no row that is not at the target, and without an error they counted the *)
(* rows of all tables.  For that the origin may fail as it likes, since a  *)
(* row that does not come is not counted.                                  *)
THEOREM CountedIsLoaded ==
  ASSUME IsFiniteSet(Worker), ~CommitMayFail
  PROVE  Safety => []CountedRowsLoaded
<1>1. IInv /\ Counted => CountedRowsLoaded
  BY ReportedCounts DEF CountedRowsLoaded
<1>2. Init => Counted
  BY InitCounted
<1>3. IInv /\ Counted /\ [Next]_vars => Counted'
  <2> SUFFICES ASSUME IInv, Counted, [Next]_vars PROVE Counted'
    OBVIOUS
  <2>1. SumFunctionOnSet(wcount', Worker) = SumFunctionOnSet(tcount', Task)
    BY CountStep DEF Counted
  <2>2. \E after \in [Worker -> Nat] : LandedRows(after)'
    BY LandedStep DEF Counted
  <2> QED
    BY <2>1, <2>2 DEF Counted
<1> QED
  BY <1>1, <1>2, <1>3, InitIInv, StepIInv, PTL DEF Safety
=============================================================================
