--------------------------- MODULE DocumentLedger ---------------------------
(***************************************************************************)
(* What the documents app promises about a document, its approval chain and *)
(* its signature ledger, with every operation as ONE indivisible step.      *)
(* Signing.tla is the same system at the granularity of its SQL statements  *)
(* and is checked to implement this module.                                 *)
(***************************************************************************)
EXTENDS ApprovalChain

CONSTANTS
    Docs,           \* document identifiers
    DocTypes,       \* document classifications
    TypeOf,         \* TypeOf[d]: the classification of document d
    InitialChains,  \* the chains that may be stored when the release starts
    MaxInherited,   \* the most signatures a document brings through the migration
    NoCopy          \* no submission under way

ASSUME LedgerAssumption ==
    /\ TypeOf \in [Docs -> DocTypes]
    /\ InitialChains \subseteq StoredChains
    /\ MaxInherited \in Nat
    /\ NoCopy \notin Chains

VARIABLES
    status,     \* document_records.status; ABSENT while there is no row
    chain,      \* document_approval_steps: the chain pinned to a document
    required,   \* document_records.required_signatures
    sigs,       \* document_signatures: the ledger
    typeChain,  \* document_workflow_steps: the chain configured for a type
    copy        \* the chain a submission under way has read for its document

vars == <<status, chain, required, sigs, typeChain, copy>>

Statuses == {"ABSENT", "DRAFT", "PENDING_APPROVAL", "APPROVED", "REJECTED"}

NoChain == [k \in {} |-> Open]

TypeOK ==
    /\ status \in [Docs -> Statuses]
    /\ chain \in [Docs -> Chains]
    /\ required \in [Docs -> Nat]
    /\ sigs \in [Docs -> SUBSET Signatures]
    /\ \A d \in Docs : IsFiniteSet(sigs[d])
    /\ typeChain \in [DocTypes -> StoredChains]
    /\ copy \in [Docs -> Chains \cup {NoCopy}]
-----------------------------------------------------------------------------
(* Where migration 00017 puts the signatures a waiting document already held:
   on the step that names the signer; else on the lowest open steps; else
   numbered consecutively past the highest step. *)
Placed(ch, led) ==
    LET open   == {k \in DOMAIN ch : ch[k] = Open}
        parked == {g.step : g \in Parked(ch, led)}
    IN  /\ \A g, h \in led : g # h => g.step # h.step /\ g.signer # h.signer
        /\ \A g \in led : \A k \in DOMAIN ch :
              ch[k] = g.signer \/ (k = g.step /\ ch[k] # Open) =>
                  k = g.step /\ ch[k] = g.signer
        /\ \A k \in open \cap FilledSteps(led) : \A j \in open :
              j < k => j \in FilledSteps(led)
        /\ parked # {} => open \subseteq FilledSteps(led)
        /\ \E h \in {0} \cup DOMAIN ch :
              /\ \A k \in DOMAIN ch : k <= h
              /\ parked = (h + 1)..(h + Cardinality(parked))

(* What it pins as the requirement: the chain plus what is parked.  (Its third
   term, the length of the type's chain, is that of the chain it just copied.) *)
Requirement(ch, led) ==
    AtLeastOne(Cardinality(DOMAIN ch) + Cardinality(Parked(ch, led)))

(* The ledgers a document may bring through the migration: at most one
   signature per citizen, of at most MaxInherited citizens (a bound for TLC). *)
InheritedLedgers ==
    {{[step |-> at[c], signer |-> c] : c \in DOMAIN at} :
        at \in UNION {[C -> 1..(MaxChainSteps + MaxInherited)] :
                        C \in {D \in SUBSET Citizens :
                                 IsFiniteSet(D) /\ Cardinality(D) <= MaxInherited}}}

(* A document when the release starts: a row nobody has routed, no row, or a
   waiting document the migration has given a chain.  One that was complete by
   then the migration has approved, and nothing more happens to it. *)
Inherited(st, ch, req, led) ==
    IF st = "PENDING_APPROVAL"
    THEN Placed(ch, led) /\ ~ Complete(ch, led, req)
    ELSE ch = NoChain /\ led = {}

Init ==
    /\ typeChain \in [DocTypes -> InitialChains]
    /\ status \in [Docs -> {"ABSENT", "DRAFT", "PENDING_APPROVAL"}]
    /\ chain \in [Docs -> {fillableChain(ch) : ch \in InitialChains} \cup {NoChain}]
    /\ sigs \in [Docs -> InheritedLedgers]
    /\ required = [d \in Docs |-> Requirement(chain[d], sigs[d])]
    /\ \A d \in Docs : Inherited(status[d], chain[d], required[d], sigs[d])
    /\ copy = [d \in Docs |-> NoCopy]
-----------------------------------------------------------------------------
(* CreateDocument (no row yet) and RouteDocument (a draft) read the type's
   chain, and the document starts waiting with its own copy of it when they
   commit.  The chain may be replaced in between, and a submission that fails
   leaves the document as it was. *)
Unrouted(d) == status[d] \in {"ABSENT", "DRAFT"}

CopyChain(d) ==
    /\ Unrouted(d)
    /\ copy[d] = NoCopy
    /\ copy' = [copy EXCEPT ![d] = fillableChain(typeChain[TypeOf[d]])]
    /\ UNCHANGED <<status, chain, required, sigs, typeChain>>

Abandon(d) ==
    /\ copy[d] # NoCopy
    /\ copy' = [copy EXCEPT ![d] = NoCopy]
    /\ UNCHANGED <<status, chain, required, sigs, typeChain>>

Submit(d) ==
    /\ Unrouted(d)
    /\ copy[d] # NoCopy
    /\ status' = [status EXCEPT ![d] = "PENDING_APPROVAL"]
    /\ chain' = [chain EXCEPT ![d] = copy[d]]
    /\ required' = [required EXCEPT ![d] = AtLeastOne(Cardinality(DOMAIN copy[d]))]
    /\ copy' = [copy EXCEPT ![d] = NoCopy]
    /\ UNCHANGED <<sigs, typeChain>>

(* A citizen's approval lands on the document: on the step it was checked
   against, or past the end when nothing is left to fill. *)
Sign(d, c) ==
    /\ status[d] = "PENDING_APPROVAL"
    /\ c \notin Signers(sigs[d])
    /\ checkSigner(chain[d], sigs[d], c)
    /\ \E k \in 1..(MaxChainSteps + Cardinality(sigs[d]) + 1) :
         /\ RecordedOn(chain[d], sigs[d], k)
         /\ sigs' = [sigs EXCEPT ![d] = @ \cup {[step |-> k, signer |-> c]}]
    /\ status' = [status EXCEPT ![d] =
                    IF Complete(chain[d], sigs'[d], required[d])
                    THEN "APPROVED" ELSE @]
    /\ UNCHANGED <<chain, required, typeChain, copy>>

Reject(d) ==
    /\ status[d] = "PENDING_APPROVAL"
    /\ status' = [status EXCEPT ![d] = "REJECTED"]
    /\ UNCHANGED <<chain, required, sigs, typeChain, copy>>

(* ReplaceWorkflow: the type's chain is swapped as a whole.  It reaches no
   document that is already waiting. *)
ReplaceWorkflow(t, ch) ==
    /\ typeChain' = [typeChain EXCEPT ![t] = ch]
    /\ UNCHANGED <<status, chain, required, sigs, copy>>

Next ==
    \/ \E d \in Docs : CopyChain(d) \/ Abandon(d) \/ Submit(d)
    \/ \E d \in Docs, c \in Citizens : Sign(d, c)
    \/ \E d \in Docs : Reject(d)
    \/ \E t \in DocTypes, ch \in SaveableChains : ReplaceWorkflow(t, ch)

Spec == Init /\ [][Next]_vars
-----------------------------------------------------------------------------
Pending(d) == status[d] = "PENDING_APPROVAL"

(* An approval is credited to one citizen, and a step that names a citizen is
   filled by that citizen and no other.  recordSignature numbers a signature
   from the chain it reads under the lock; migration 00017 numbered the older
   ones; both write into the same ledger. *)
StepsHonoured ==
    \A d \in Docs :
        /\ \A g, h \in sigs[d] :
             g.step = h.step \/ g.signer = h.signer => g = h
        /\ \A g \in sigs[d] : g.step \in DOMAIN chain[d] =>
             chain[d][g.step] \in {Open, g.signer}

(* A citizen signs a document once, so a citizen whose own step is still
   unfilled must not have signed elsewhere on it, and no two unfilled steps may
   be owed to one citizen.  checkSigner holds later signers back to keep it so. *)
NamedSignersFree ==
    \A d \in Docs : \A k \in Unfilled(chain[d], sigs[d]) :
        chain[d][k] # Open =>
            /\ chain[d][k] \notin Signers(sigs[d])
            /\ \A j \in Unfilled(chain[d], sigs[d]) : chain[d][j] = chain[d][k] => j = k

(* A document still waiting owes at least one approval: it is never left with
   every step filled and nothing to do but be rejected.  The requirement is
   pinned at submission (or by the migration) and compared at each signature. *)
OwesAnApproval ==
    \A d \in Docs : Pending(d) =>
        \/ Unfilled(chain[d], sigs[d]) # {}
        \/ chain[d] = NoChain /\ sigs[d] = {}

(* An approved document carries the approval of every step of its own chain and
   at least as many signatures as it asked for, whatever became of its type's
   chain since. *)
ApprovedIsComplete ==
    \A d \in Docs : status[d] = "APPROVED" =>
        /\ \A k \in DOMAIN chain[d] : \E g \in sigs[d] :
             g.step = k /\ chain[d][k] \in {Open, g.signer}
        /\ Cardinality(sigs[d]) >= required[d]
        /\ required[d] >= Cardinality(DOMAIN chain[d])

(* Whatever chain a tenant configured or the migration repaired, somebody can
   always take a waiting document a step further: a citizen who has not signed
   it and whom its next step admits, and a step number for the signature.
   Checked with more citizens than a chain and an inherited ledger can use. *)
SomebodyCanSign ==
    \A d \in Docs : Pending(d) => \E c \in Citizens :
        /\ c \notin Signers(sigs[d])
        /\ checkSigner(chain[d], sigs[d], c)
        /\ \E k \in 1..(MaxChainSteps + Cardinality(sigs[d]) + 1) :
             RecordedOn(chain[d], sigs[d], k)

=============================================================================
