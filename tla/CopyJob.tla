------------------------------- MODULE CopyJob -------------------------------
(***************************************************************************)
(* What a full copy promises, whatever its threads do: each table appears  *)
(* at the target whole and once, and the job says it went clean only when  *)
(* every table is there.                                                   *)
(***************************************************************************)
EXTENDS Naturals

CONSTANTS
  Table,   \* the tables to copy
  Rows     \* how many rows each one has at the source

VARIABLES
  target,    \* the committed rows of each table at the target
  verdict    \* "running", then "clean" or "errors"

vars == <<target, verdict>>

Init ==
  /\ target = [t \in Table |-> 0]
  /\ verdict = "running"

(* One table is committed at the target, all its rows at once.             *)
Load(t) ==
  /\ verdict = "running"
  /\ target[t] = 0
  /\ target' = [target EXCEPT ![t] = Rows[t]]
  /\ UNCHANGED verdict

FinishClean ==
  /\ verdict = "running"
  /\ target = [t \in Table |-> Rows[t]]
  /\ verdict' = "clean"
  /\ UNCHANGED target

FinishWithErrors ==
  /\ verdict = "running"
  /\ verdict' = "errors"
  /\ UNCHANGED target

Finish == FinishClean \/ FinishWithErrors

Next == Finish \/ \E t \in Table : Load(t)

Safety == Init /\ [][Next]_vars

(* The job ends; which way is not promised.                                *)
Spec == Safety /\ WF_vars(Finish)
=============================================================================
