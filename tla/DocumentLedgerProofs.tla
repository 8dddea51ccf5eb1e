------------------------ MODULE DocumentLedgerProofs ------------------------
(***************************************************************************)
(* Proofs about DocumentLedger, for any citizens, documents, types and      *)
(* lengths of chain: a document's steps are filled by whom they name, the   *)
(* citizens its chain still needs are free to sign, a waiting document      *)
(* owes an approval, and an approved one has them all.                      *)
(*                                                                          *)
(* None of these is inductive by itself.  That a citizen a later step names *)
(* is kept free needs chains that name nobody twice, which fillableChain    *)
(* sees to; that the last signature completes a document, and no earlier    *)
(* one, needs the requirement counted in the ledger's own terms: one per    *)
(* step and one per signature parked past the end of the chain.             *)
(*                                                                          *)
(* The last part is about ApprovalTrail, what the console shows of it.  The *)
(* ledger's invariant is enough for the trail; the badge also needs that    *)
(* every document asks for one signature at least.                          *)
(***************************************************************************)
EXTENDS ApprovalTrail, ApprovalChainProofs

(* A document in good order, as a fact about its row, its chain and its ledger:
     - its chain names nobody twice;
     - before it is routed it has no chain and no signatures;
     - its ledger credits each step to the citizen it names, and leaves the
       citizens still named free;
     - while it waits it asks for one signature per step and per signature
       parked past the end, and has not got them;
     - approved, it has what it asked for, which covers its chain. *)
InOrder(st, ch, req, led) ==
    /\ NamesOnce(ch)
    /\ st \in {"ABSENT", "DRAFT"} => ch = NoChain /\ led = {}
    /\ Honours(ch, led)
    /\ NamesFree(ch, led)
    /\ st = "PENDING_APPROVAL" =>
         req = Requirement(ch, led) /\ ~ Complete(ch, led, req)
    /\ st = "APPROVED" =>
         Complete(ch, led, req) /\ req >= Cardinality(DOMAIN ch)

(* So is the chain a submission has read. *)
CopiesNameOnce == \A d \in Docs : copy[d] # NoCopy => NamesOnce(copy[d])

IInv ==
    /\ TypeOK
    /\ CopiesNameOnce
    /\ \A d \in Docs : InOrder(status[d], chain[d], required[d], sigs[d])
-----------------------------------------------------------------------------
(* No chain is a chain. *)
LEMMA NoChainIsChain == NoChain \in Chains /\ NamesOnce(NoChain) /\ DOMAIN NoChain = {}
  BY DEF NoChain, Chains, NamesOnce

(* A chain without steps is no chain. *)
LEMMA EmptyChainIsNoChain ==
  ASSUME NEW ch \in Chains, DOMAIN ch = {}
  PROVE  ch = NoChain
<1>1. PICK S \in SUBSET StepNumbers : ch \in [S -> Citizens \cup {Open}]
  BY DEF Chains
<1>2. ch = [k \in DOMAIN ch |-> ch[k]]
  BY <1>1
<1> QED
  BY <1>2 DEF NoChain

(* The requirement is a positive number that covers the chain. *)
LEMMA RequirementCovers ==
  ASSUME NEW ch \in Chains, NEW led \in SUBSET Signatures, IsFiniteSet(led)
  PROVE  /\ Requirement(ch, led) \in Nat
         /\ Requirement(ch, led) >= Cardinality(DOMAIN ch)
<1>1. Parked(ch, led) \in SUBSET led
  BY DEF Parked
<1>2. Cardinality(Parked(ch, led)) \in Nat
  BY <1>1, FS_Subset, FS_CardinalityType
<1> QED
  BY <1>2, ChainIsFinite DEF Requirement, AtLeastOne

(* The ledgers the migration may bring are finite sets of signatures. *)
LEMMA InheritedLedgersType ==
  ASSUME NEW led \in InheritedLedgers
  PROVE  led \in SUBSET Signatures /\ IsFiniteSet(led)
<1>1. PICK C \in SUBSET Citizens :
         /\ IsFiniteSet(C)
         /\ \E at \in [C -> 1..(MaxChainSteps + MaxInherited)] :
              led = {[step |-> at[c], signer |-> c] : c \in C}
  BY DEF InheritedLedgers
<1> PICK at \in [C -> 1..(MaxChainSteps + MaxInherited)] :
         led = {[step |-> at[c], signer |-> c] : c \in C}
  BY <1>1
<1> DEFINE f == [c \in C |-> [step |-> at[c], signer |-> c]]
<1>2. led \in SUBSET Signatures
  <2>1. \A c \in C : at[c] \in Nat /\ c \in Citizens
    BY ChainAssumption, LedgerAssumption
  <2> QED
    BY <1>1, <2>1 DEF Signatures
<1>3. f \in Surjection(C, led)
  <2>1. f \in [C -> led]
    BY <1>1
  <2>2. \A g \in led : \E c \in C : f[c] = g
    BY <1>1
  <2> QED
    BY <2>1, <2>2 DEF Surjection
<1> QED
  BY <1>1, <1>2, <1>3, FS_Surjection

(* A waiting document with every step filled has no chain and no signatures:
   with either, it would have been approved by its last signature. *)
LEMMA NothingFilledForNothing ==
  ASSUME NEW ch \in Chains, NEW led \in SUBSET Signatures, IsFiniteSet(led),
         NEW req, InOrder("PENDING_APPROVAL", ch, req, led), Unfilled(ch, led) = {}
  PROVE  ch = NoChain /\ led = {}
<1>1. Honours(ch, led) /\ req = Requirement(ch, led) /\ ~ Complete(ch, led, req)
  BY DEF InOrder
<1>2. Cardinality(led) \in Nat
  BY FS_CardinalityType
<1>3. Cardinality(led) = Cardinality(DOMAIN ch) + Cardinality(Parked(ch, led))
  BY <1>1, FilledChainCount
<1>4. req = AtLeastOne(Cardinality(led))
  BY <1>1, <1>3 DEF Requirement
<1>5. ~ (Cardinality(led) >= req)
  BY <1>1 DEF Complete
<1>6. Cardinality(led) = 0
  BY <1>2, <1>4, <1>5 DEF AtLeastOne
<1>7. led = {}
  BY <1>6, FS_EmptySet
<1>8. DOMAIN ch = {}
  BY <1>7 DEF Unfilled, FilledSteps
<1> QED
  BY <1>7, <1>8, EmptyChainIsNoChain

(* A document nobody has routed is in order. *)
LEMMA UnroutedInOrder ==
  ASSUME NEW st \in {"ABSENT", "DRAFT"}, NEW req
  PROVE  InOrder(st, NoChain, req, {})
<1>1. Honours(NoChain, {}) /\ NamesFree(NoChain, {})
  BY NoChainIsChain DEF Honours, NamesFree, Unfilled
<1> QED
  BY <1>1, NoChainIsChain DEF InOrder

(* A document just submitted is in order: it has no signatures, and asks for as
   many as its chain has steps, or for one. *)
LEMMA SubmittedInOrder ==
  ASSUME NEW ch \in Chains, NamesOnce(ch)
  PROVE  InOrder("PENDING_APPROVAL", ch, AtLeastOne(Cardinality(DOMAIN ch)), {})
<1>1. Honours(ch, {}) /\ NamesFree(ch, {})
  BY DEF Honours, NamesFree, Signers
<1>2. Cardinality(Parked(ch, {})) = 0
  <2>1. Parked(ch, {}) = {}
    BY DEF Parked
  <2> QED
    BY <2>1, FS_EmptySet
<1>3. Requirement(ch, {}) = AtLeastOne(Cardinality(DOMAIN ch))
  BY <1>2, ChainIsFinite DEF Requirement
<1>4. ~ Complete(ch, {}, AtLeastOne(Cardinality(DOMAIN ch)))
  BY FS_EmptySet, ChainIsFinite DEF Complete, AtLeastOne
<1> QED
  BY <1>1, <1>3, <1>4 DEF InOrder

(* A waiting document the migration has placed is in order. *)
LEMMA InheritedInOrder ==
  ASSUME NEW ch \in Chains, NamesOnce(ch), NEW led \in SUBSET Signatures,
         Placed(ch, led), ~ Complete(ch, led, Requirement(ch, led))
  PROVE  InOrder("PENDING_APPROVAL", ch, Requirement(ch, led), led)
<1>1. \A g, h \in led : g # h => g.step # h.step /\ g.signer # h.signer
  BY DEF Placed
<1>2. \A g \in led : \A k \in DOMAIN ch :
         ch[k] = g.signer \/ (k = g.step /\ ch[k] # Open) => k = g.step /\ ch[k] = g.signer
  BY DEF Placed
<1>3. Honours(ch, led)
  BY <1>1, <1>2 DEF Honours
<1>4. NamesFree(ch, led)
  BY <1>2 DEF NamesFree, Unfilled, FilledSteps, Signers
<1> QED
  BY <1>3, <1>4 DEF InOrder

(* Signing keeps a document in order, and approves it exactly when it has what
   it asked for. *)
LEMMA SignedInOrder ==
  ASSUME NEW ch \in Chains, NEW led \in SUBSET Signatures, IsFiniteSet(led),
         NEW req \in Nat, InOrder("PENDING_APPROVAL", ch, req, led),
         NEW c \in Citizens, c \notin Signers(led), checkSigner(ch, led, c),
         NEW k \in Nat, RecordedOn(ch, led, k),
         NEW led2, led2 = led \cup {[step |-> k, signer |-> c]}
  PROVE  InOrder(IF Complete(ch, led2, req) THEN "APPROVED" ELSE "PENDING_APPROVAL",
                 ch, req, led2)
<1> DEFINE new == [step |-> k, signer |-> c]
<1>1. NamesOnce(ch) /\ Honours(ch, led2) /\ NamesFree(ch, led2)
  BY SigningHonours, SigningKeepsNamesFree DEF InOrder
<1>2. req >= Cardinality(DOMAIN ch)
  BY RequirementCovers DEF InOrder
<1>3. ASSUME ~ Complete(ch, led2, req) PROVE req = Requirement(ch, led2)
  <2>1. CASE IsNext(ch, led, k)
    <3>1. new.step = k /\ k \in DOMAIN ch
      BY <2>1 DEF IsNext, Unfilled
    <3>2. Parked(ch, led2) = Parked(ch, led)
      BY <3>1 DEF Parked
    <3> QED
      BY <3>2 DEF InOrder, Requirement
  <2>2. CASE Unfilled(ch, led) = {}
    <3>1. ch = NoChain /\ led = {} /\ req = Requirement(ch, led)
      BY <2>2, NothingFilledForNothing DEF InOrder
    <3>2. /\ Cardinality(DOMAIN ch) = 0
          /\ Cardinality(Parked(ch, led)) = 0
          /\ Cardinality(led2) = 1
      <4>1. DOMAIN ch = {} /\ Parked(ch, led) = {} /\ led2 = {new}
        BY <3>1, NoChainIsChain DEF Parked
      <4>2. Cardinality({new}) = 1
        BY FS_Singleton
      <4> QED
        BY <4>1, <4>2, FS_EmptySet
    <3>3. req = 1
      BY <3>1, <3>2 DEF Requirement, AtLeastOne
    <3>4. Complete(ch, led2, req)
      BY <3>1, <3>2, <3>3, NoChainIsChain DEF Complete, Unfilled
    <3> QED
      BY <1>3, <3>4
  <2> QED
    BY <2>1, <2>2 DEF RecordedOn
<1>4. CASE Complete(ch, led2, req)
  BY <1>1, <1>2, <1>4 DEF InOrder
<1>5. CASE ~ Complete(ch, led2, req)
  BY <1>1, <1>3, <1>5 DEF InOrder
<1> QED
  BY <1>4, <1>5
-----------------------------------------------------------------------------
(* What the release starts with is in order. *)
LEMMA InitIInv == Init => IInv
<1> SUFFICES ASSUME Init PROVE IInv
  OBVIOUS
<1>1. ASSUME NEW ch \in {fillableChain(s) : s \in InitialChains} \cup {NoChain}
      PROVE  ch \in Chains /\ NamesOnce(ch)
  BY <1>1, FillableChainNamesOnce, NoChainIsChain, LedgerAssumption
<1>2. \A d \in Docs : chain[d] \in Chains /\ NamesOnce(chain[d])
  BY <1>1 DEF Init
<1>3. \A d \in Docs : sigs[d] \in SUBSET Signatures /\ IsFiniteSet(sigs[d])
  BY InheritedLedgersType DEF Init
<1>4. TypeOK
  <2>1. chain \in [Docs -> Chains] /\ sigs \in [Docs -> SUBSET Signatures]
    BY <1>2, <1>3 DEF Init
  <2>2. required \in [Docs -> Nat]
    BY <1>2, <1>3, RequirementCovers DEF Init
  <2>3. typeChain \in [DocTypes -> StoredChains]
    BY LedgerAssumption DEF Init
  <2>4. status \in [Docs -> Statuses] /\ copy \in [Docs -> Chains \cup {NoCopy}]
    BY DEF Init, Statuses
  <2> QED
    BY <1>3, <2>1, <2>2, <2>3, <2>4 DEF TypeOK
<1>5. CopiesNameOnce
  BY DEF Init, CopiesNameOnce
<1>6. ASSUME NEW d \in Docs PROVE InOrder(status[d], chain[d], required[d], sigs[d])
  <2>1. /\ Inherited(status[d], chain[d], required[d], sigs[d])
        /\ required[d] = Requirement(chain[d], sigs[d])
        /\ status[d] \in {"ABSENT", "DRAFT", "PENDING_APPROVAL"}
    BY DEF Init
  <2>2. CASE status[d] = "PENDING_APPROVAL"
    BY <1>2, <1>3, <2>1, <2>2, InheritedInOrder DEF Inherited
  <2>3. CASE status[d] \in {"ABSENT", "DRAFT"}
    BY <2>1, <2>3, UnroutedInOrder DEF Inherited
  <2> QED
    BY <2>1, <2>2, <2>3
<1> QED
  BY <1>4, <1>5, <1>6 DEF IInv

(* Every operation keeps every document in order. *)
LEMMA NextIInv == IInv /\ [Next]_vars => IInv'
<1> SUFFICES ASSUME IInv, [Next]_vars PROVE IInv'
  OBVIOUS
<1>1. ASSUME NEW d \in Docs, CopyChain(d) PROVE IInv'
  <2> DEFINE ch == fillableChain(typeChain[TypeOf[d]])
  <2>1. ch \in Chains /\ NamesOnce(ch)
    <3>1. typeChain[TypeOf[d]] \in StoredChains
      BY LedgerAssumption DEF IInv, TypeOK
    <3> QED
      BY <3>1, FillableChainNamesOnce
  <2> HIDE DEF ch
  <2>2. copy' = [copy EXCEPT ![d] = ch]
    BY <1>1 DEF CopyChain, ch
  <2>3. TypeOK'
    BY <1>1, <2>1, <2>2 DEF IInv, TypeOK, CopyChain
  <2>4. CopiesNameOnce'
    BY <2>1, <2>2 DEF IInv, TypeOK, CopiesNameOnce
  <2> QED
    BY <1>1, <2>3, <2>4 DEF IInv, CopyChain
<1>2. ASSUME NEW d \in Docs, Abandon(d) PROVE IInv'
  <2>1. TypeOK' /\ CopiesNameOnce'
    BY <1>2 DEF IInv, TypeOK, CopiesNameOnce, Abandon
  <2> QED
    BY <1>2, <2>1 DEF IInv, Abandon
<1>3. ASSUME NEW d \in Docs, Submit(d) PROVE IInv'
  <2>1. copy[d] \in Chains /\ NamesOnce(copy[d]) /\ sigs[d] = {}
    BY <1>3 DEF IInv, TypeOK, CopiesNameOnce, InOrder, Unrouted, Submit
  <2>2. AtLeastOne(Cardinality(DOMAIN copy[d])) \in Nat
    BY <2>1, ChainIsFinite DEF AtLeastOne
  <2>3. TypeOK' /\ CopiesNameOnce'
    BY <1>3, <2>1, <2>2 DEF IInv, TypeOK, CopiesNameOnce, Submit, Statuses
  <2>4. InOrder(status'[d], chain'[d], required'[d], sigs'[d])
    BY <1>3, <2>1, SubmittedInOrder DEF IInv, TypeOK, Submit
  <2>5. ASSUME NEW e \in Docs \ {d} PROVE InOrder(status'[e], chain'[e], required'[e], sigs'[e])
    BY <1>3 DEF IInv, TypeOK, Submit
  <2> QED
    BY <2>3, <2>4, <2>5 DEF IInv
<1>4. ASSUME NEW d \in Docs, NEW c \in Citizens, Sign(d, c) PROVE IInv'
  <2>1. PICK k \in 1..(MaxChainSteps + Cardinality(sigs[d]) + 1) :
          /\ RecordedOn(chain[d], sigs[d], k)
          /\ sigs' = [sigs EXCEPT ![d] = @ \cup {[step |-> k, signer |-> c]}]
    BY <1>4 DEF Sign
  <2>2. /\ chain[d] \in Chains /\ sigs[d] \in SUBSET Signatures /\ IsFiniteSet(sigs[d])
        /\ required[d] \in Nat
    BY DEF IInv, TypeOK
  <2>3. k \in Nat
    BY <2>2, FS_CardinalityType, ChainAssumption
  <2>4. sigs'[d] = sigs[d] \cup {[step |-> k, signer |-> c]}
    BY <2>1 DEF IInv, TypeOK
  <2>5. /\ status[d] = "PENDING_APPROVAL" /\ c \notin Signers(sigs[d])
        /\ checkSigner(chain[d], sigs[d], c)
        /\ chain' = chain /\ required' = required /\ copy' = copy /\ typeChain' = typeChain
    BY <1>4 DEF Sign
  <2>6. status' = [status EXCEPT ![d] =
                     IF Complete(chain[d], sigs'[d], required[d])
                     THEN "APPROVED" ELSE "PENDING_APPROVAL"]
    BY <1>4 DEF Sign
  <2>7. InOrder(status'[d], chain'[d], required'[d], sigs'[d])
    <3>1. InOrder("PENDING_APPROVAL", chain[d], required[d], sigs[d])
      BY <2>5 DEF IInv
    <3>2. InOrder(IF Complete(chain[d], sigs'[d], required[d])
                  THEN "APPROVED" ELSE "PENDING_APPROVAL",
                  chain[d], required[d], sigs'[d])
      BY <2>1, <2>2, <2>3, <2>4, <2>5, <3>1, SignedInOrder
    <3>3. status'[d] = IF Complete(chain[d], sigs'[d], required[d])
                       THEN "APPROVED" ELSE "PENDING_APPROVAL"
      BY <2>6 DEF IInv, TypeOK
    <3> QED
      BY <2>5, <3>2, <3>3
  <2>8. ASSUME NEW e \in Docs \ {d} PROVE InOrder(status'[e], chain'[e], required'[e], sigs'[e])
    <3>1. status'[e] = status[e] /\ sigs'[e] = sigs[e]
      BY <2>1, <2>6 DEF IInv, TypeOK
    <3> QED
      BY <2>5, <3>1 DEF IInv
  <2>9. TypeOK' /\ CopiesNameOnce'
    <3>1. [step |-> k, signer |-> c] \in Signatures
      BY <2>3 DEF Signatures
    <3>2. IsFiniteSet(sigs'[d])
      <4>1. IsFiniteSet(sigs[d] \cup {[step |-> k, signer |-> c]})
        BY <2>2, FS_AddElement
      <4> QED
        BY <2>4, <4>1
    <3>3. sigs' \in [Docs -> SUBSET Signatures] /\ \A e \in Docs : IsFiniteSet(sigs'[e])
      BY <2>1, <3>1, <3>2 DEF IInv, TypeOK
    <3>4. status' \in [Docs -> Statuses]
      BY <2>6 DEF IInv, TypeOK, Statuses
    <3> QED
      BY <2>5, <3>3, <3>4 DEF IInv, TypeOK, CopiesNameOnce
  <2> QED
    BY <2>7, <2>8, <2>9 DEF IInv
<1>5. ASSUME NEW d \in Docs, Reject(d) PROVE IInv'
  <2>1. TypeOK' /\ CopiesNameOnce'
    BY <1>5 DEF IInv, TypeOK, CopiesNameOnce, Reject, Statuses
  <2>2. \A e \in Docs : InOrder(status'[e], chain'[e], required'[e], sigs'[e])
    BY <1>5 DEF IInv, TypeOK, Reject, InOrder
  <2> QED
    BY <2>1, <2>2 DEF IInv
<1>6. ASSUME NEW t \in DocTypes, NEW ch \in SaveableChains, ReplaceWorkflow(t, ch) PROVE IInv'
  <2>1. ch \in StoredChains
    BY SaveableIsStored
  <2>2. TypeOK' /\ CopiesNameOnce'
    BY <1>6, <2>1 DEF IInv, TypeOK, CopiesNameOnce, ReplaceWorkflow
  <2> QED
    BY <1>6, <2>2 DEF IInv, ReplaceWorkflow
<1>7. CASE UNCHANGED vars
  BY <1>7 DEF IInv, vars, TypeOK, CopiesNameOnce
<1> QED
  BY <1>1, <1>2, <1>3, <1>4, <1>5, <1>6, <1>7 DEF Next

(* Every document is in order in every reachable state. *)
THEOREM Invariance == Spec => []IInv
<1> QED
  BY InitIInv, NextIInv, PTL DEF Spec
-----------------------------------------------------------------------------
(* The tables keep their types. *)
THEOREM TypeCorrect == Spec => []TypeOK
<1>1. IInv => TypeOK
  BY DEF IInv
<1> QED
  BY <1>1, Invariance, PTL

(* Each approval is credited to one citizen and each named step to the citizen it
   names, whoever signs in whatever order and whatever the migration placed. *)
THEOREM StepsAlwaysHonoured == Spec => []StepsHonoured
<1>1. IInv => StepsHonoured
  BY DEF IInv, InOrder, Honours, StepsHonoured
<1> QED
  BY <1>1, Invariance, PTL

(* The citizens a waiting document's chain still names have their signature
   left to give. *)
THEOREM NamedSignersStayFree == Spec => []NamedSignersFree
<1>1. IInv => NamedSignersFree
  BY DEF IInv, InOrder, NamesFree, NamesOnce, Unfilled, NamedSignersFree
<1> QED
  BY <1>1, Invariance, PTL

(* No document is left waiting with its chain filled: the signature that fills
   the last step also approves it. *)
THEOREM WaitingOwesAnApproval == Spec => []OwesAnApproval
<1>1. IInv => OwesAnApproval
  BY NothingFilledForNothing DEF IInv, TypeOK, Pending, OwesAnApproval
<1> QED
  BY <1>1, Invariance, PTL

(* An approved document has the approval of every step of the chain it was given,
   by whom the step names, and all the signatures it asked for. *)
THEOREM ApprovedMeansComplete == Spec => []ApprovedIsComplete
<1>1. ASSUME IInv, NEW d \in Docs, status[d] = "APPROVED"
      PROVE  /\ \A k \in DOMAIN chain[d] : \E g \in sigs[d] :
                   g.step = k /\ chain[d][k] \in {Open, g.signer}
             /\ Cardinality(sigs[d]) >= required[d]
             /\ required[d] >= Cardinality(DOMAIN chain[d])
  <2>1. /\ Honours(chain[d], sigs[d])
        /\ Complete(chain[d], sigs[d], required[d])
        /\ required[d] >= Cardinality(DOMAIN chain[d])
    BY <1>1 DEF IInv, InOrder
  <2>2. ASSUME NEW k \in DOMAIN chain[d]
        PROVE  \E g \in sigs[d] : g.step = k /\ chain[d][k] \in {Open, g.signer}
    <3>1. PICK g \in sigs[d] : g.step = k
      BY <2>1 DEF Complete, Unfilled, FilledSteps
    <3> QED
      BY <2>1, <3>1 DEF Honours
  <2> QED
    BY <2>1, <2>2 DEF Complete
<1>2. IInv => ApprovedIsComplete
  BY <1>1 DEF ApprovedIsComplete
<1> QED
  BY <1>2, Invariance, PTL

(* A citizen who has not signed and whom the next step admits is found while there is
   always another citizen: the step's own if it names one, else one who has neither
   signed nor is named by a later step. *)
LEMMA NextSigner ==
  ASSUME NEW ch \in Chains, NEW led \in SUBSET Signatures, IsFiniteSet(led), NamesFree(ch, led),
         ~ IsFiniteSet(Citizens), NEW k \in DOMAIN ch, IsNext(ch, led, k)
  PROVE  \E c \in Citizens : c \notin Signers(led) /\ checkSigner(ch, led, c)
<1>1. \A j \in DOMAIN ch : IsNext(ch, led, j) => j = k
  BY ChainIsFinite DEF IsNext, Unfilled
<1>2. ASSUME NEW c, ch[k] = c \/ (ch[k] = Open /\ c \notin Reserved(ch, led, k))
      PROVE  checkSigner(ch, led, c)
  BY <1>1, <1>2 DEF checkSigner
<1>3. CASE ch[k] # Open
  <2>1. ch[k] \in Citizens
    BY <1>3 DEF Chains
  <2>2. ch[k] \notin Signers(led)
    BY <1>3 DEF NamesFree, IsNext
  <2>3. checkSigner(ch, led, ch[k])
    BY <1>2
  <2> QED
    BY <2>1, <2>2, <2>3
<1>4. CASE ch[k] = Open
  <2> DEFINE others == Unfilled(ch, led) \ {k}
             taken  == Signers(led) \cup Reserved(ch, led, k)
  <2>1. IsFiniteSet(Signers(led))
    <3> DEFINE f == [g \in led |-> g.signer]
    <3>1. f \in Surjection(led, Signers(led))
      BY DEF Surjection, Signers
    <3> QED
      BY <3>1, FS_Surjection
  <2>2. IsFiniteSet(others)
    BY ChainIsFinite, FS_Subset DEF Unfilled
  <2>3. IsFiniteSet({ch[j] : j \in others})
    <3> DEFINE f == [j \in others |-> ch[j]]
    <3>1. f \in Surjection(others, {ch[j] : j \in others})
      BY DEF Surjection
    <3> QED
      BY <2>2, <3>1, FS_Surjection
  <2>4. IsFiniteSet(Reserved(ch, led, k))
    BY <2>3, FS_Subset DEF Reserved
  <2>5. IsFiniteSet(taken)
    BY <2>1, <2>4, FS_Union
  <2>6. PICK c \in Citizens : c \notin taken
    <3>1. ~ (Citizens \subseteq taken)
      BY <2>5, FS_Subset
    <3> QED
      BY <3>1
  <2> QED
    BY <1>2, <1>4, <2>6
<1> QED
  BY <1>3, <1>4

(* While there is always another citizen, a waiting document can always be taken a step
   further: its chain, as repaired and as filled so far, shuts nobody out for good. *)
THEOREM SomebodyCanAlwaysSign ==
  ASSUME ~ IsFiniteSet(Citizens)
  PROVE  Spec => []SomebodyCanSign
<1>1. ASSUME IInv, NEW d \in Docs, Pending(d)
      PROVE  \E c \in Citizens :
                /\ c \notin Signers(sigs[d])
                /\ checkSigner(chain[d], sigs[d], c)
                /\ \E k \in 1..(MaxChainSteps + Cardinality(sigs[d]) + 1) :
                     RecordedOn(chain[d], sigs[d], k)
  <2> DEFINE ch == chain[d]  led == sigs[d]
  <2>1. /\ ch \in Chains /\ led \in SUBSET Signatures /\ IsFiniteSet(led)
        /\ InOrder("PENDING_APPROVAL", ch, required[d], led)
    BY <1>1 DEF IInv, TypeOK, Pending
  <2>2. NamesFree(ch, led)
    BY <2>1 DEF InOrder
  <2>3. Cardinality(led) \in Nat /\ MaxChainSteps \in Nat
    BY <2>1, FS_CardinalityType, ChainAssumption
  <2>4. CASE Unfilled(ch, led) # {}
    <3>1. PICK k \in DOMAIN ch : IsNext(ch, led, k)
      BY <2>1, <2>4, LowestUnfilled
    <3>2. k \in 1..(MaxChainSteps + Cardinality(led) + 1)
      BY <2>1, <2>3, ChainIsFinite DEF StepNumbers
    <3>3. RecordedOn(ch, led, k)
      BY <3>1 DEF RecordedOn
    <3>4. \E c \in Citizens : c \notin Signers(led) /\ checkSigner(ch, led, c)
      BY <2>1, <2>2, <3>1, NextSigner
    <3> QED
      BY <3>2, <3>3, <3>4
  <2>5. CASE Unfilled(ch, led) = {}
    <3>1. ch = NoChain /\ led = {}
      BY <2>1, <2>5, NothingFilledForNothing
    <3>2. Citizens # {}
      BY FS_EmptySet
    <3>3. \A c \in Citizens : c \notin Signers(led) /\ checkSigner(ch, led, c)
      BY <3>1, NoChainIsChain DEF Signers, checkSigner
    <3>4. RecordedOn(ch, led, 1)
      BY <2>5, <3>1, NoChainIsChain DEF RecordedOn, FilledSteps
    <3>5. 1 \in 1..(MaxChainSteps + Cardinality(led) + 1)
      BY <2>3
    <3> QED
      BY <3>2, <3>3, <3>4, <3>5
  <2> QED
    BY <2>4, <2>5
<1>2. IInv => SomebodyCanSign
  BY <1>1 DEF SomebodyCanSign
<1> QED
  BY <1>2, Invariance, PTL
-----------------------------------------------------------------------------
(* Every document asks for one signature at least. *)
AsksForOne == \A d \in Docs : required[d] \in Nat /\ required[d] >= 1

(* What AtLeastOne is for. *)
LEMMA AtLeastOneIsOne ==
  ASSUME NEW n \in Nat
  PROVE  AtLeastOne(n) \in Nat /\ AtLeastOne(n) >= 1
  BY DEF AtLeastOne

(* The requirement is set once, by the migration or when the document is routed. *)
THEOREM EveryDocumentAsksForOne == Spec => []AsksForOne
<1>1. Init /\ IInv => AsksForOne
  <2> SUFFICES ASSUME Init, IInv, NEW d \in Docs
               PROVE  required[d] \in Nat /\ required[d] >= 1
    BY DEF AsksForOne
  <2>1. chain[d] \in Chains /\ sigs[d] \in SUBSET Signatures /\ IsFiniteSet(sigs[d])
    BY DEF IInv, TypeOK
  <2>2. Parked(chain[d], sigs[d]) \in SUBSET sigs[d]
    BY DEF Parked
  <2>3. /\ Cardinality(DOMAIN chain[d]) \in Nat
        /\ Cardinality(Parked(chain[d], sigs[d])) \in Nat
    BY <2>1, <2>2, ChainIsFinite, FS_Subset, FS_CardinalityType
  <2> QED
    BY <2>3, AtLeastOneIsOne DEF Init, Requirement
<1>2. AsksForOne /\ IInv /\ [Next]_vars => AsksForOne'
  <2> SUFFICES ASSUME AsksForOne, IInv, [Next]_vars PROVE AsksForOne'
    OBVIOUS
  <2>1. ASSUME NEW d \in Docs, Submit(d) PROVE AsksForOne'
    <3>1. copy[d] \in Chains
      BY <2>1 DEF IInv, TypeOK, Submit
    <3>2. AtLeastOne(Cardinality(DOMAIN copy[d])) \in Nat /\ AtLeastOne(Cardinality(DOMAIN copy[d])) >= 1
      BY <3>1, ChainIsFinite, AtLeastOneIsOne
    <3> QED
      BY <2>1, <3>2 DEF AsksForOne, IInv, TypeOK, Submit
  <2>2. ASSUME NEW d \in Docs, CopyChain(d) \/ Abandon(d) \/ Reject(d) PROVE AsksForOne'
    BY <2>2 DEF AsksForOne, CopyChain, Abandon, Reject
  <2>3. ASSUME NEW d \in Docs, NEW c \in Citizens, Sign(d, c) PROVE AsksForOne'
    BY <2>3 DEF AsksForOne, Sign
  <2>4. ASSUME NEW t \in DocTypes, NEW ch \in SaveableChains, ReplaceWorkflow(t, ch) PROVE AsksForOne'
    BY <2>4 DEF AsksForOne, ReplaceWorkflow
  <2>5. ASSUME UNCHANGED vars PROVE AsksForOne'
    BY <2>5 DEF AsksForOne, vars
  <2> QED
    BY <2>1, <2>2, <2>3, <2>4, <2>5 DEF Next
<1> QED
  BY <1>1, <1>2, Invariance, PTL DEF Spec
-----------------------------------------------------------------------------
(* A step's row is empty exactly when no signature filled the step. *)
LEMMA EmptyRow ==
  ASSUME NEW ch, NEW led, NEW k
  PROVE  [step |-> k, shows |-> {}] \in chainRows(ch, led) <=> k \in Unfilled(ch, led)
<1>1. ASSUME NEW j \in DOMAIN ch,
             [step |-> k, shows |-> {}] =
               [step |-> j, shows |-> IF j \in FilledSteps(led) THEN {TakenBy(led, j)} ELSE {}]
      PROVE  k \in Unfilled(ch, led)
  <2>1. k = j /\ j \notin FilledSteps(led)
    BY <1>1
  <2> QED
    BY <2>1 DEF Unfilled
<1>2. ASSUME k \in Unfilled(ch, led)
      PROVE  [step |-> k, shows |-> {}] \in chainRows(ch, led)
  BY <1>2 DEF Unfilled, chainRows
<1> QED
  BY <1>1, <1>2 DEF chainRows

(* The row the trail calls awaited is the next step. *)
LEMMA AwaitedIsNext ==
  ASSUME NEW doc, doc.status = "PENDING_APPROVAL", NEW ch, NEW led, NEW k
  PROVE  isNext(doc, ch, led, k) <=> IsNext(ch, led, k)
<1>1. ASSUME NEW row \in chainRows(ch, led), row.shows = {}
      PROVE  row.step \in Unfilled(ch, led)
  <2>1. PICK j \in DOMAIN ch :
           row = [step |-> j, shows |-> IF j \in FilledSteps(led) THEN {TakenBy(led, j)} ELSE {}]
    BY DEF chainRows
  <2>2. row.step = j /\ j \notin FilledSteps(led)
    BY <1>1, <2>1
  <2> QED
    BY <2>2 DEF Unfilled
<1>2. ASSUME NEW j \in Unfilled(ch, led)
      PROVE  \E row \in chainRows(ch, led) : row.shows = {} /\ row.step = j
  <2>1. [step |-> j, shows |-> {}] \in chainRows(ch, led)
    BY EmptyRow
  <2> QED
    BY <2>1
<1> QED
  BY <1>1, <1>2, EmptyRow DEF isNext, IsNext

(* A row shows the signature that was recorded on its step, and no other. *)
LEMMA RowShowsItsStep ==
  ASSUME NEW ch, NEW led, NEW row \in chainRows(ch, led), NEW g \in row.shows
  PROVE  row.step \in DOMAIN ch /\ g \in led /\ g.step = row.step
<1>1. PICK k \in DOMAIN ch :
         row = [step |-> k, shows |-> IF k \in FilledSteps(led) THEN {TakenBy(led, k)} ELSE {}]
  BY DEF chainRows
<1>2. row.step = k /\ k \in FilledSteps(led) /\ g = TakenBy(led, k)
  BY <1>1
<1>3. \E h \in led : h.step = k
  BY <1>2 DEF FilledSteps
<1>4. TakenBy(led, k) \in led /\ TakenBy(led, k).step = k
  BY <1>3 DEF TakenBy
<1> QED
  BY <1>2, <1>4

(* What is left over filled no step. *)
LEMMA ExtraIsParked ==
  ASSUME NEW ch, NEW led, \A g, h \in led : g.step = h.step => g = h
  PROVE  extraRows(ch, led) = Parked(ch, led)
<1>1. ASSUME NEW g \in led, g.step \in DOMAIN ch
      PROVE  g \in placed(ch, led)
  <2> DEFINE row == [step  |-> g.step,
                     shows |-> IF g.step \in FilledSteps(led) THEN {TakenBy(led, g.step)} ELSE {}]
  <2>1. g.step \in FilledSteps(led)
    BY DEF FilledSteps
  <2>2. TakenBy(led, g.step) \in led /\ TakenBy(led, g.step).step = g.step
    BY DEF TakenBy
  <2>3. TakenBy(led, g.step) = g
    BY <2>2
  <2>4. row \in chainRows(ch, led)
    BY <1>1 DEF chainRows
  <2>5. row.shows = {g}
    BY <2>1, <2>3
  <2> QED
    BY <2>4, <2>5 DEF placed
<1>2. ASSUME NEW g \in placed(ch, led) PROVE g.step \in DOMAIN ch
  BY RowShowsItsStep DEF placed
<1> QED
  BY <1>1, <1>2 DEF extraRows, Parked
-----------------------------------------------------------------------------
(* The trail calls awaited the step the next signature is recorded on, and there is
   one whenever a step is unfilled; a signature stands beside a step only if it filled
   it, and outside the chain only if it filled none. *)
THEOREM TrailIsTrue == Spec => []TrailTellsTheChain
<1>1. ASSUME IInv, NEW d \in Docs
      PROVE  LET ch == chain[d]  led == sigs[d]  doc == DocumentRecord(d) IN
               /\ Pending(d) => \A k \in DOMAIN ch :
                    isNext(doc, ch, led, k) <=> k \notin FilledSteps(led) /\ RecordedOn(ch, led, k)
               /\ Pending(d) /\ Unfilled(ch, led) # {} => \E k \in DOMAIN ch : isNext(doc, ch, led, k)
               /\ \A row \in chainRows(ch, led) : \A g \in row.shows : ch[row.step] \in {Open, g.signer}
               /\ extraRows(ch, led) = Parked(ch, led)
               /\ ~SignatureHistoryButton(doc) => DOMAIN ch = {} /\ led = {}
  <2> DEFINE ch == chain[d]  led == sigs[d]  doc == DocumentRecord(d)
  <2>1. /\ ch \in Chains /\ led \in SUBSET Signatures /\ IsFiniteSet(led)
        /\ Honours(ch, led)
    BY <1>1 DEF IInv, TypeOK, InOrder
  <2>2. doc.status = status[d]
    BY DEF DocumentRecord
  <2>3. ASSUME Pending(d), NEW k \in DOMAIN ch
        PROVE  isNext(doc, ch, led, k) <=> k \notin FilledSteps(led) /\ RecordedOn(ch, led, k)
    <3>1. isNext(doc, ch, led, k) <=> IsNext(ch, led, k)
      BY <2>2, <2>3, AwaitedIsNext DEF Pending
    <3>2. IsNext(ch, led, k) => k \notin FilledSteps(led) /\ RecordedOn(ch, led, k)
      BY DEF IsNext, Unfilled, RecordedOn
    <3>3. k \notin FilledSteps(led) /\ RecordedOn(ch, led, k) => IsNext(ch, led, k)
      BY DEF Unfilled, RecordedOn
    <3> QED
      BY <3>1, <3>2, <3>3
  <2>4. ASSUME Pending(d), Unfilled(ch, led) # {}
        PROVE  \E k \in DOMAIN ch : isNext(doc, ch, led, k)
    BY <2>1, <2>2, <2>4, LowestUnfilled, AwaitedIsNext DEF Pending
  <2>5. ASSUME NEW row \in chainRows(ch, led), NEW g \in row.shows
        PROVE  ch[row.step] \in {Open, g.signer}
    BY <2>1, RowShowsItsStep DEF Honours
  <2>6. extraRows(ch, led) = Parked(ch, led)
    BY <2>1, ExtraIsParked DEF Honours
  <2>7. ASSUME ~SignatureHistoryButton(doc) PROVE DOMAIN ch = {} /\ led = {}
    <3>1. Cardinality(led) = 0 /\ Cardinality(Unfilled(ch, led)) = 0
      BY <2>7 DEF SignatureHistoryButton, DocumentRecord
    <3>2. IsFiniteSet(Unfilled(ch, led))
      BY <2>1, ChainIsFinite, FS_Subset DEF Unfilled
    <3>3. led = {} /\ Unfilled(ch, led) = {}
      BY <2>1, <3>1, <3>2, FS_EmptySet
    <3> QED
      BY <3>3 DEF Unfilled, FilledSteps
  <2> QED
    BY <2>3, <2>4, <2>5, <2>6, <2>7
<1>2. IInv => TrailTellsTheChain
  BY <1>1 DEF TrailTellsTheChain
<1> QED
  BY <1>2, Invariance, PTL

(* The badge of a document's progress and its status tell the same story. *)
THEOREM BadgeIsTrue == Spec => []BadgeTellsTheStatus
<1>1. ASSUME IInv, AsksForOne, NEW d \in Docs
      PROVE  LET doc == DocumentRecord(d) IN
               /\ SignatureProgress(doc) # "none" =>
                    (SignatureProgress(doc) = "complete" <=> StatusBadge(doc) = "approved")
               /\ StatusBadge(doc) = "approved" => SignatureCell(doc) = "signer"
  <2> DEFINE ch == chain[d]  led == sigs[d]  doc == DocumentRecord(d)
  <2>1. /\ ch \in Chains /\ led \in SUBSET Signatures /\ IsFiniteSet(led)
        /\ status[d] \in Statuses /\ required[d] \in Nat /\ required[d] >= 1
        /\ InOrder(status[d], ch, required[d], led)
    BY <1>1 DEF IInv, TypeOK, AsksForOne
  <2>2. /\ doc.status = status[d] /\ (doc.signed <=> led # {})
        /\ doc.signature_count = Cardinality(led) /\ doc.required_signatures = required[d]
        /\ doc.outstanding_steps = Cardinality(Unfilled(ch, led))
    BY DEF DocumentRecord
  <2>3. Cardinality(led) \in Nat /\ (Cardinality(led) = 0 <=> led = {})
    BY <2>1, FS_CardinalityType, FS_EmptySet
  <2>4. Cardinality(Unfilled(ch, led)) = 0 <=> Unfilled(ch, led) = {}
    <3>1. IsFiniteSet(Unfilled(ch, led))
      BY <2>1, ChainIsFinite, FS_Subset DEF Unfilled
    <3> QED
      BY <3>1, FS_EmptySet
  <2>5. StatusBadge(doc) = "approved" <=> status[d] = "APPROVED"
    BY <2>1, <2>2 DEF StatusBadge, Statuses
  <2>6. doc.outstanding_steps = 0 /\ doc.signature_count >= doc.required_signatures
          <=> Complete(ch, led, required[d])
    BY <2>2, <2>4 DEF Complete
  <2>7. status[d] = "APPROVED" => Complete(ch, led, required[d]) /\ led # {}
    BY <2>1, <2>3 DEF InOrder, Complete
  <2>8. required[d] > 1 /\ Complete(ch, led, required[d]) => status[d] \in {"APPROVED", "REJECTED"}
    BY <2>1, <2>3 DEF InOrder, Complete, Statuses
  <2>9. SignatureProgress(doc) # "none" =>
          (SignatureProgress(doc) = "complete" <=> StatusBadge(doc) = "approved")
    BY <2>1, <2>2, <2>5, <2>6, <2>7, <2>8 DEF SignatureProgress
  <2>10. StatusBadge(doc) = "approved" => SignatureCell(doc) = "signer"
    BY <2>2, <2>5, <2>7 DEF SignatureCell
  <2> QED
    BY <2>9, <2>10
<1>2. IInv /\ AsksForOne => BadgeTellsTheStatus
  BY <1>1 DEF BadgeTellsTheStatus
<1> QED
  BY <1>2, Invariance, EveryDocumentAsksForOne, PTL
=============================================================================
