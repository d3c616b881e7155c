------------------------------ MODULE MCKvPool ------------------------------
(* Three holders of which any may be a sequence or a donor. *)
EXTENDS KvPool, TLC

CONSTANTS h1, h2, h3

MCHolders == {h1, h2, h3}
HolderSymmetry == Permutations(MCHolders)
=============================================================================
