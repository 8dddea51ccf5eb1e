--------------------------- MODULE MCChainConfig ---------------------------
(* Constants for model-checking ChainConfig. *)
EXTENDS ChainConfig, TLC

CONSTANTS c1, c2, none

MCTexts == {c1, c2, none}
MCCanon == [t \in MCTexts |-> t]

Symmetry == Permutations(Admins) \cup Permutations({c1, c2})
=============================================================================
