----------------------------- MODULE StagingLog ------------------------------
(***************************************************************************)
(* What staging promises to the source and to the apply thread, whatever   *)
(* breaks in between: transactions become durable one by one in commit     *)
(* order, and the source may forget only those that are durable.  It does  *)
(* not promise to remember: what was acknowledged may be asked for again.  *)
(***************************************************************************)
EXTENDS Naturals

CONSTANT NTxn   \* how many transactions the source commits

VARIABLES
  committed,   \* transactions committed at the source
  staged,      \* transactions durable at the receiver
  acked        \* transactions the source will not send again

vars == <<committed, staged, acked>>

Init == committed = 0 /\ staged = 0 /\ acked = 0

Commit ==
  /\ committed < NTxn
  /\ committed' = committed + 1
  /\ UNCHANGED <<staged, acked>>

Stage ==
  /\ staged < committed
  /\ staged' = staged + 1
  /\ UNCHANGED <<committed, acked>>

Acknowledge ==
  /\ acked' \in 0 .. staged
  /\ UNCHANGED <<committed, staged>>

Next == Commit \/ Stage \/ Acknowledge

Spec == Init /\ [][Next]_vars
=============================================================================
