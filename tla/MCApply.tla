------------------------------- MODULE MCApply -------------------------------
(* Two keys and two values are enough for a statement to find its row      *)
(* present, absent or changed by a transaction that is applied again.      *)
EXTENDS Apply, TLC

MCSymmetry == Permutations(Key) \union Permutations(Value)
=============================================================================
