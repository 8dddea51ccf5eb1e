-------------------------- MODULE MCDocumentLedger --------------------------
(* Constants for model-checking DocumentLedger and ApprovalTrail. *)
EXTENDS ApprovalTrail, TLC

CONSTANTS c1, c2, c3, c4, \* citizens
          c1Spelt,        \* c1's number in lower case
          short,          \* a text no provider would accept as a number
          none,           \* the empty text
          d1, contract

MCTexts     == {c1, c2, c3, c4, c1Spelt, short, none}
MCPlausible == {c1, c2, c3, c4, c1Spelt}
MCCanon     == [t \in MCTexts |-> IF t = c1Spelt THEN c1 ELSE t]
MCTypeOf    == [d \in {d1} |-> contract]

(* No chain; a citizen spelt two ways, before another; a step naming nobody
   before a named one; a chain numbered by hand from 2; an open step between
   two named ones. *)
MCInitialChains ==
    { [k \in {} |-> none],
      1 :> c1Spelt @@ 2 :> c1 @@ 3 :> c2,
      1 :> short @@ 2 :> c2,
      2 :> c1 @@ 3 :> c2,
      1 :> c1 @@ 2 :> none @@ 3 :> c2 }
=============================================================================
