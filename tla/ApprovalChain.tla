--------------------------- MODULE ApprovalChain ---------------------------
(***************************************************************************)
(* The approval chain of the documents app, as pure operators: how a stored *)
(* chain becomes the chain a document carries, where a document stands in   *)
(* its chain, and whom its next step admits.                                *)
(*                                                                          *)
(* A chain is a function from step numbers (step_order) to what the step    *)
(* names; a ledger is the set of signatures a document holds, each with the *)
(* step it fills and the citizen it came from.  Nothing here reads a clock  *)
(* or a database: the modules that do are DocumentLedger (one transaction   *)
(* per step) and Signing (one SQL statement per step).                      *)
(***************************************************************************)
EXTENDS Integers, FiniteSets

CONSTANTS
    Texts,          \* what can be typed where a registration number is asked for
    Canon,          \* Canon[t]: t trimmed and upper-cased
    Plausible,      \* the texts long enough, and short enough, to be a number
    Open,           \* the empty text: a step anybody who may sign can take
    MaxChainSteps   \* the longest chain a tenant may configure

ASSUME ChainAssumption ==
    /\ MaxChainSteps \in Nat \ {0}
    /\ Canon \in [Texts -> Texts]
    /\ \A t \in Texts : Canon[Canon[t]] = Canon[t]
    /\ Plausible \subseteq Texts
    /\ Open \in Texts \ Plausible

(* A citizen is known by a registration number in the one shape numbers are
   compared in. *)
normaliseRegNumber(t) == Canon[t]
plausibleRegNumber(t) == t \in Plausible
Citizens == {t \in Plausible : normaliseRegNumber(t) = t}

StepNumbers  == 1..MaxChainSteps
StoredChains == UNION {[S -> Texts] : S \in SUBSET StepNumbers}
Chains       == UNION {[S -> Citizens \cup {Open}] : S \in SUBSET StepNumbers}
Signatures   == [step : Nat, signer : Citizens]
-----------------------------------------------------------------------------
(* The number a stored step names, and whether that naming binds: it must be
   a number a citizen can present, and the first step to name that citizen. *)
Named(stored, k) == normaliseRegNumber(stored[k])

Binds(stored, k) ==
    /\ plausibleRegNumber(Named(stored, k))
    /\ \A j \in DOMAIN stored : j < k => Named(stored, j) # Named(stored, k)

(* Faults planted to see that the properties notice: every name kept as it is
   spelt; a citizen named twice kept twice. *)
fillableChainAnyText(stored) == [k \in DOMAIN stored |-> Named(stored, k)]

fillableChainTwice(stored) ==
    [k \in DOMAIN stored |->
        IF plausibleRegNumber(Named(stored, k)) THEN Named(stored, k) ELSE Open]

(* fillableChain: every step nobody could fill is left open. *)
fillableChain(stored) ==
    [k \in DOMAIN stored |-> IF Binds(stored, k) THEN Named(stored, k) ELSE Open]

(* What ReplaceWorkflow agrees to save: steps numbered 1..n, each open or
   naming a plausible citizen, no citizen twice. *)
SaveableChains ==
    {ch \in UNION {[1..n -> Citizens \cup {Open}] : n \in 0..MaxChainSteps} :
        \A j, k \in DOMAIN ch : ch[j] = ch[k] /\ j # k => ch[k] = Open}

(* stepsCanRequireNamedSigners: the chains under which a policy may insist on
   named signers. *)
stepsCanRequireNamedSigners(ch) ==
    /\ DOMAIN ch # {}
    /\ \A k \in DOMAIN ch : ch[k] # Open
    /\ \A j, k \in DOMAIN ch : j # k => ch[j] # ch[k]
-----------------------------------------------------------------------------
FilledSteps(sigs)  == {g.step : g \in sigs}
Signers(sigs)      == {g.signer : g \in sigs}
Unfilled(ch, sigs) == DOMAIN ch \ FilledSteps(sigs)

(* Signatures that fill no step: numbered past the end of the chain. *)
Parked(ch, sigs)   == {g \in sigs : g.step \notin DOMAIN ch}

(* nextApprovalStep: the LOWEST step no signature has filled. *)
IsNext(ch, sigs, k) ==
    /\ k \in Unfilled(ch, sigs)
    /\ \A j \in Unfilled(ch, sigs) : k <= j

(* The citizens a later unfilled step names, held back from an open one. *)
Reserved(ch, sigs, k) == {ch[j] : j \in Unfilled(ch, sigs) \ {k}} \ {Open}

(* Planted fault: an open step takes anybody, later steps notwithstanding. *)
checkSignerUnreserved(ch, sigs, c) ==
    \A k \in DOMAIN ch : IsNext(ch, sigs, k) => ch[k] \in {Open, c}

(* checkSigner against the position above: a named step takes the citizen it
   names, an open one anybody no later step is waiting for, and a document
   with nothing left to fill anybody. *)
checkSigner(ch, sigs, c) ==
    \A k \in DOMAIN ch : IsNext(ch, sigs, k) =>
        \/ ch[k] = c
        \/ ch[k] = Open /\ c \notin Reserved(ch, sigs, k)

(* Planted fault: signatures numbered by counting them. *)
RecordedOnCount(ch, sigs, k) == k = Cardinality(sigs) + 1

(* The step number a signature made now is recorded on: the next step or,
   when none is left, one past the highest number in use. *)
RecordedOn(ch, sigs, k) ==
    \/ IsNext(ch, sigs, k)
    \/ /\ Unfilled(ch, sigs) = {}
       /\ \A j \in FilledSteps(sigs) \cup DOMAIN ch : j < k
       /\ k = 1 \/ k - 1 \in FilledSteps(sigs) \cup DOMAIN ch

(* Planted faults: one signature more than was asked for; as many signatures as
   steps, wherever they are. *)
CompleteOneMore(ch, sigs, required) ==
    Unfilled(ch, sigs) = {} /\ Cardinality(sigs) > required

CompleteByCount(ch, sigs, required) ==
    sigs # {} /\ Cardinality(sigs) >= Cardinality(DOMAIN ch)

(* Every step filled, and as many signatures as the document asked for. *)
Complete(ch, sigs, required) ==
    /\ Unfilled(ch, sigs) = {}
    /\ Cardinality(sigs) >= required

AtLeastOne(n) == IF n >= 1 THEN n ELSE 1
=============================================================================
