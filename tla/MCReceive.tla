------------------------------ MODULE MCReceive ------------------------------
(* A WAL of three transactions.  The second writes before the first        *)
(* commits, so positions go back when its begin follows the first commit:  *)
(*   1 change of 1 | 2 change of 2 | 3 commit of 1 | 4 change of 2         *)
(*   5 commit of 2 | 6 change of 3 | 7 commit of 3                         *)
EXTENDS Receive

MCPos == <<<<1, 1, 4>>, <<2, 2, 4, 6>>, <<6, 6, 8>>>>
MCCommitLsn == <<3, 5, 7>>

(* The first two only.                                                     *)
MCPos2 == SubSeq(MCPos, 1, 2)
MCCommitLsn2 == SubSeq(MCCommitLsn, 1, 2)
=============================================================================
