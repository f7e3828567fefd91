------------------------------ MODULE MCNocStake ------------------------------
(***************************************************************************)
(* Amounts for the module NocStake: one token is one unit, a lock lasts a  *)
(* block or two instead of months.                                         *)
(***************************************************************************)
EXTENDS NocStake, TLC

OneTier   == <<[lock |-> 1, power |-> 3]>>
Pawns     == {[pawn |-> 10, total |-> 3], [pawn |-> 20, total |-> 100]}

Symmetry  == Permutations(Voter) \cup Permutations(BP)

===============================================================================
