----------------------------- MODULE MCSigning -----------------------------
(* Constants for model-checking Signing. *)
EXTENDS Signing, TLC

CONSTANTS c1, c2, none, d1, contract

MCTexts  == {c1, c2, none}
MCCanon  == [t \in MCTexts |-> t]
MCTypeOf == [d \in Docs |-> contract]

(* Two steps, the second named, and no chain at all. *)
OpenThenNamed == 1 :> none @@ 2 :> c2
OneNamed      == 1 :> c1

MCInitialChains == {OpenThenNamed}
MCEditedPolicies == {{"dan"}, {"dan", "eid"}}
MCEditedChains  == {OneNamed}

Symmetry ==
    Permutations(Requests) \cup Permutations(SessionIds) \cup Permutations(Docs)
=============================================================================
