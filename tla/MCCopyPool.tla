------------------------------ MODULE MCCopyPool -----------------------------
(* Small instances of CopyPool: two tables with rows and an empty one.     *)
EXTENDS CopyPool

MCRows == [t \in Task |-> IF t = 2 THEN 0 ELSE 2]
=============================================================================
