-------------------------------- MODULE DbSync -------------------------------
(***************************************************************************)
(* db_sync_main of pgsync.c: what a start of pgsql2pgsql decides from the  *)
(* row it keeps in db_sync_status, how it hands over from the full copy to *)
(* the stream of the logical slot, and what survives when it dies.         *)
(*                                                                         *)
(* The source's history is a sequence of commits, each adding one row to   *)
(* one table.  The full copy is at the grain of CopyJob, which CopyPool    *)
(* implements: a table is loaded whole or given up.  Staging and applying  *)
(* are at the grain of StagingLog: commit by commit, in order.             *)
(***************************************************************************)
EXTENDS Integers, Sequences

CONSTANTS
  Table,        \* the tables of the source
  MaxCommit,    \* how many commits the source makes
  MaxStart,     \* how often the process is started
  LocalMayFail  \* whether the local database may be out of reach

ASSUME BoundAssumption == MaxCommit \in Nat /\ MaxStart \in Nat
ASSUME SwitchAssumption == LocalMayFail \in BOOLEAN

NoPos == -1   \* no slot, or no snapshot

VARIABLES
  wal,      \* the table each commit of the source added a row to
  slot,     \* the position the slot was created at
  status,   \* full_s_start and full_s_end of db_sync_status
  staged,   \* commits up to here are in sync_sqls
  applied,  \* commits up to here were applied from sync_sqls
  copied,   \* copied[c]: how often full copies put the row of commit c at the target
  loads,    \* loads[t]: how often full copies loaded table t
  gaveUp,   \* tables a copy thread gave up, in any run
  pc,       \* where db_sync_main is
  replication_sync, need_full_sync, \* its variables
  exports,     \* the source can export a snapshot
  local_ok,    \* local_conn is not NULL
  snapshot,    \* the position of snapshot, or NoPos
  th_snapshot, \* th_hd.snapshot
  receiving,   \* the receive thread is alive
  load,        \* what this run did with each table
  starts       \* how often the process was started

source == <<wal, replication_sync, exports>>
targetVars == <<applied, copied, loads>>
mainVars == <<need_full_sync, local_ok, snapshot, th_snapshot, receiving>>
vars == <<source, slot, status, staged, targetVars, gaveUp, pc, mainVars, load, starts>>

Commit == 1 .. MaxCommit

Init ==
  /\ wal = <<>>
  /\ replication_sync \in BOOLEAN  \* a 9.4 or later source that is no Greenplum
  /\ exports \in BOOLEAN           \* a 9.2 or later source
  /\ replication_sync => exports
  /\ slot = NoPos
  /\ status = [start |-> FALSE, end |-> FALSE]
  /\ staged = NoPos /\ applied = NoPos
  /\ copied = [c \in Commit |-> 0]
  /\ loads = [t \in Table |-> 0]
  /\ gaveUp = {}
  /\ pc = "off"
  /\ need_full_sync = FALSE /\ local_ok = FALSE
  /\ snapshot = NoPos /\ th_snapshot = NoPos
  /\ receiving = FALSE
  /\ load = [t \in Table |-> "none"]
  /\ starts = 0

(* The source commits (external).                                          *)
SourceCommit ==
  /\ Len(wal) < MaxCommit
  /\ \E t \in Table : wal' = Append(wal, t)
  /\ UNCHANGED <<replication_sync, exports, slot, status, staged, targetVars, gaveUp,
                 pc, mainVars, load, starts>>

-----------------------------------------------------------------------------
(* db_sync_main.                                                           *)

(* A new process, with both servers reachable.                             *)
Start ==
  /\ pc \in {"off", "ended"}
  /\ starts < MaxStart
  /\ starts' = starts + 1
  /\ need_full_sync' = FALSE /\ local_ok' = FALSE
  /\ snapshot' = NoPos /\ th_snapshot' = NoPos
  /\ load' = [t \in Table |-> "none"]
  /\ pc' = "status"
  /\ UNCHANGED <<source, slot, status, staged, targetVars, gaveUp, receiving>>

(* No local connection: a full sync is due, whatever was done before.      *)
NoLocal ==
  /\ LocalMayFail
  /\ pc = "status"
  /\ need_full_sync' = TRUE
  /\ pc' = "slot"
  /\ UNCHANGED <<source, slot, status, staged, targetVars, gaveUp, local_ok,
                 snapshot, th_snapshot, receiving, load, starts>>

(* Mutant of ReadStatus: a start without an end passes for an end.         *)
ReadStatusStarted ==
  /\ pc = "status"
  /\ local_ok' = TRUE
  /\ need_full_sync' = ~status.start
  /\ pc' = "slot"
  /\ UNCHANGED <<source, slot, status, staged, targetVars, gaveUp, snapshot,
                 th_snapshot, receiving, load, starts>>

(* get_task_status and the three branches on it.  A query that fails       *)
(* leaves both times NULL, as if nothing had been done.                    *)
ReadStatus ==
  /\ pc = "status"
  /\ local_ok' = TRUE
  /\ \/ /\ need_full_sync' = (~status.start /\ ~status.end)
        /\ pc' = IF status.start /\ ~status.end THEN "ended" ELSE "slot"
     \/ LocalMayFail /\ need_full_sync' = TRUE /\ pc' = "slot"
  /\ UNCHANGED <<source, slot, status, staged, targetVars, gaveUp, snapshot,
                 th_snapshot, receiving, load, starts>>

SlotExists == slot # NoPos

(* CREATE_REPLICATION_SLOT: the stream starts where the snapshot ends.     *)
CreateSlot ==
  LET here == Len(wal)
  IN  slot' = here /\ staged' = here /\ applied' = here /\ snapshot' = here

(* The slot is created where it is missing, and exports its snapshot; an   *)
(* existing one goes on from where it was.                                 *)
EnsureSlot ==
  /\ pc = "slot"
  /\ IF replication_sync /\ ~SlotExists THEN CreateSlot
     ELSE UNCHANGED <<slot, staged, applied, snapshot>>
  /\ pc' = IF need_full_sync THEN "snapshot" ELSE "decoder"
  /\ UNCHANGED <<source, status, copied, loads, gaveUp, need_full_sync, local_ok,
                 th_snapshot, receiving, load, starts>>

(* The main connection opens its transaction, on the slot's snapshot or on *)
(* one it then exports, if the source can; only the latter is handed to    *)
(* the threads.                                                            *)
OpenSnapshot ==
  /\ pc = "snapshot"
  /\ IF snapshot = NoPos /\ exports
     THEN snapshot' = Len(wal) /\ th_snapshot' = snapshot'
     ELSE UNCHANGED <<snapshot, th_snapshot>>
  /\ pc' = "spawn"
  /\ UNCHANGED <<source, slot, status, staged, targetVars, gaveUp, need_full_sync,
                 local_ok, receiving, load, starts>>

(* The task list is built and the copy threads are created.                *)
SpawnCopy ==
  /\ pc = "spawn"
  /\ load' = [t \in Table |-> "todo"]
  /\ pc' = "mark_start"
  /\ UNCHANGED <<source, slot, status, staged, targetVars, gaveUp, mainVars, starts>>

(* update_task_status: an UPDATE whose result nobody looks at.             *)
Mark(field) ==
  \/ local_ok /\ status' = [status EXCEPT ![field] = TRUE]
  \/ (LocalMayFail \/ ~local_ok) /\ UNCHANGED status

MarkStart ==
  /\ pc = "mark_start"
  /\ Mark("start")
  /\ pc' = "decoder"
  /\ UNCHANGED <<source, slot, staged, targetVars, gaveUp, mainVars, load, starts>>

(* Mutant of SpawnReceive: nobody waits for the copy.                      *)
SpawnReceiveOnly ==
  /\ pc = "decoder"
  /\ receiving' = replication_sync
  /\ pc' = "stream"
  /\ UNCHANGED <<source, slot, status, staged, targetVars, gaveUp, need_full_sync,
                 local_ok, snapshot, th_snapshot, load, starts>>

(* The receive thread is created, if there is a slot, before the wait for  *)
(* the copy.                                                               *)
SpawnReceive ==
  /\ pc = "decoder"
  /\ receiving' = replication_sync
  /\ pc' = IF need_full_sync THEN "wait" ELSE "stream"
  /\ UNCHANGED <<source, slot, status, staged, targetVars, gaveUp, need_full_sync,
                 local_ok, snapshot, th_snapshot, load, starts>>

(* Mutant of WaitCopy: the threads are not joined.                         *)
WaitNot ==
  /\ pc = "wait"
  /\ pc' = "mark_end"
  /\ UNCHANGED <<source, slot, status, staged, targetVars, gaveUp, mainVars, load, starts>>

(* Mutant of WaitCopy: a failed table is waited for.                       *)
WaitForAll ==
  /\ pc = "wait"
  /\ \A t \in Table : load[t] = "done"
  /\ pc' = "mark_end"
  /\ UNCHANGED <<source, slot, status, staged, targetVars, gaveUp, mainVars, load, starts>>

(* WaitThreadEnd: every table was loaded or given up.                      *)
WaitCopy ==
  /\ pc = "wait"
  /\ \A t \in Table : load[t] # "todo"
  /\ pc' = "mark_end"
  /\ UNCHANGED <<source, slot, status, staged, targetVars, gaveUp, mainVars, load, starts>>

(* full_s_end is written, and only then have_err is computed.              *)
MarkEnd ==
  /\ pc = "mark_end"
  /\ Mark("end")
  /\ pc' = "stream"
  /\ UNCHANGED <<source, slot, staged, targetVars, gaveUp, mainVars, load, starts>>

(* The apply thread is created, or there is nothing more to do.            *)
SpawnApply ==
  /\ pc = "stream"
  /\ pc' = IF replication_sync THEN "running" ELSE "ended"
  /\ UNCHANGED <<source, slot, status, staged, targetVars, gaveUp, mainVars, load, starts>>

Main ==
  \/ Start \/ NoLocal \/ ReadStatus \/ EnsureSlot \/ OpenSnapshot \/ SpawnCopy
  \/ MarkStart \/ SpawnReceive \/ WaitCopy \/ MarkEnd \/ SpawnApply

-----------------------------------------------------------------------------
(* The threads.                                                            *)

(* What a copy thread reads of a table: th_hd.snapshot or, when that is    *)
(* NULL or the BEGIN that imports it was refused, the moment it starts.    *)
ReadAt == {Len(wal)} \union ({th_snapshot} \ {NoPos})

(* A copy thread commits a table.                                          *)
LoadTable(t) ==
  /\ load[t] = "todo"
  /\ \E upto \in ReadAt :
       copied' = [c \in Commit |->
         IF c <= upto /\ wal[c] = t THEN copied[c] + 1 ELSE copied[c]]
  /\ loads' = [loads EXCEPT ![t] = @ + 1]
  /\ load' = [load EXCEPT ![t] = "done"]
  /\ UNCHANGED <<source, slot, status, staged, applied, gaveUp, pc, mainVars, starts>>

GiveUpTable(t) ==
  /\ load[t] = "todo"
  /\ load' = [load EXCEPT ![t] = "lost"]
  /\ gaveUp' = gaveUp \union {t}
  /\ UNCHANGED <<source, slot, status, staged, targetVars, pc, mainVars, starts>>

Stage ==
  /\ receiving
  /\ staged < Len(wal)
  /\ staged' = staged + 1
  /\ UNCHANGED <<source, slot, status, targetVars, gaveUp, pc, mainVars, load, starts>>

(* The local database refuses the receive thread's connection, its PREPARE *)
(* or the BEGIN or the END of a transaction: the thread ends and tells     *)
(* nobody.                                                                 *)
ReceiverEnds ==
  /\ LocalMayFail
  /\ receiving
  /\ receiving' = FALSE
  /\ UNCHANGED <<source, slot, status, staged, targetVars, gaveUp, pc, need_full_sync,
                 local_ok, snapshot, th_snapshot, load, starts>>

(* Mutant of Apply: the thread does not stop at what is staged.            *)
ApplyUnstaged ==
  /\ pc = "running"
  /\ applied < Len(wal)
  /\ applied' = applied + 1
  /\ UNCHANGED <<source, slot, status, staged, copied, loads, gaveUp, pc, mainVars,
                 load, starts>>

Apply ==
  /\ pc = "running"
  /\ applied < staged
  /\ applied' = applied + 1
  /\ UNCHANGED <<source, slot, status, staged, copied, loads, gaveUp, pc, mainVars,
                 load, starts>>

(* The process dies with all its threads; open transactions are undone.    *)
Crash ==
  /\ pc \notin {"off", "ended"}
  /\ load' = [t \in Table |-> "none"]
  /\ receiving' = FALSE
  /\ pc' = "off"
  /\ UNCHANGED <<source, slot, status, staged, targetVars, gaveUp, need_full_sync,
                 local_ok, snapshot, th_snapshot, starts>>

Copy == \E t \in Table : LoadTable(t) \/ GiveUpTable(t)

(* The process is down for good, or waits for the stream.                  *)
Waiting == pc \in {"off", "ended", "running"} /\ UNCHANGED vars

Next ==
  \/ SourceCommit \/ Main \/ Copy \/ Stage \/ Apply \/ ReceiverEnds
  \/ Crash \/ Waiting

Safety == Init /\ [][Next]_vars

(* All threads are scheduled and their calls return; a receive thread that *)
(* has ended stages nothing.                                               *)
Spec ==
  /\ Safety
  /\ WF_vars(Main) /\ WF_vars(Copy) /\ WF_vars(Stage) /\ WF_vars(Apply)

-----------------------------------------------------------------------------
(* Every variable has its type.                                            *)
TypeOK ==
  /\ wal \in Seq(Table) /\ Len(wal) <= MaxCommit
  /\ {slot, staged, applied, snapshot, th_snapshot} \subseteq {NoPos} \union (0 .. MaxCommit)
  /\ slot <= applied /\ applied <= staged /\ staged <= Len(wal)
  /\ status \in [start : BOOLEAN, end : BOOLEAN]
  /\ copied \in [Commit -> Nat]
  /\ loads \in [Table -> Nat]
  /\ gaveUp \subseteq Table
  /\ pc \in {"off", "status", "slot", "snapshot", "spawn", "mark_start", "decoder",
             "wait", "mark_end", "stream", "running", "ended"}
  /\ {replication_sync, exports, need_full_sync, local_ok, receiving} \subseteq BOOLEAN
  /\ load \in [Table -> {"none", "todo", "done", "lost"}]
  /\ starts \in 0 .. MaxStart

(* full_s_end is written only when the copy of every table is over, in     *)
(* this run or in one before it: a crash in the middle never counts as an  *)
(* end.                                                                    *)
EndAfterCopy ==
  status.end => \A t \in Table : loads[t] > 0 \/ t \in gaveUp

(* Nothing falls between the copy and the stream: when the stream is       *)
(* applied, every row of a table that was not given up is at the target or *)
(* still to come from the slot.                                            *)
NoGap ==
  pc = "running" =>
    \A c \in 1 .. Len(wal) : copied[c] > 0 \/ c > slot \/ wal[c] \in gaveUp

(* No change is applied to a table before its copy is over.                *)
StreamAfterCopy ==
  applied > slot => \A t \in Table : loads[t] > 0 \/ t \in gaveUp

(* A process that lives keeps its target up with the source, or ends: it   *)
(* refuses to go on, or there is no stream and the copy is over.           *)
KeepsUp ==
  []<>(pc \in {"off", "ended"} \/ (pc = "running" /\ applied = Len(wal)))

(* It does, as long as its receive thread lives; when that has ended       *)
(* without telling anyone, all it staged is applied and the process stays. *)
CatchesUpOrEnds ==
  []<>(\/ pc \in {"off", "ended"}
       \/ pc = "running" /\ applied = (IF receiving THEN Len(wal) ELSE staged))
=============================================================================
