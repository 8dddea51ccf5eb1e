------------------------ MODULE ApprovalChainProofs ------------------------
(***************************************************************************)
(* Lemmas about the operators of ApprovalChain, for chains and ledgers of   *)
(* any size: what a repaired chain looks like, what one more signature does *)
(* to a ledger, and how many signatures a filled chain holds.               *)
(***************************************************************************)
EXTENDS ApprovalChain, FiniteSetTheorems, WellFoundedInduction, TLAPS

(* A chain that names nobody twice. *)
NamesOnce(ch) == \A j, k \in DOMAIN ch : ch[j] = ch[k] /\ j # k => ch[k] = Open

(* A ledger that credits each citizen and each step once, and a step's name to
   the citizen who has it. *)
Honours(ch, led) ==
    /\ \A g, h \in led : g.step = h.step \/ g.signer = h.signer => g = h
    /\ \A g \in led : g.step \in DOMAIN ch => ch[g.step] \in {Open, g.signer}

(* No citizen an unfilled step names has signed. *)
NamesFree(ch, led) ==
    \A k \in Unfilled(ch, led) : ch[k] # Open => ch[k] \notin Signers(led)
-----------------------------------------------------------------------------
(* The chain a document is given has the step numbers it was stored with, names
   only citizens, and none of them twice. *)
LEMMA FillableChainNamesOnce ==
  ASSUME NEW stored \in StoredChains
  PROVE  fillableChain(stored) \in Chains /\ NamesOnce(fillableChain(stored))
<1>1. PICK S \in SUBSET StepNumbers : stored \in [S -> Texts]
  BY DEF StoredChains
<1> DEFINE ch == fillableChain(stored)
<1>2. ch = [k \in S |-> IF Binds(stored, k) THEN Named(stored, k) ELSE Open]
  BY <1>1 DEF fillableChain
<1>3. ASSUME NEW k \in S, Binds(stored, k) PROVE Named(stored, k) \in Citizens
  BY <1>1, <1>3, ChainAssumption
     DEF Binds, Named, normaliseRegNumber, plausibleRegNumber, Citizens
<1>4. ch \in Chains
  <2>1. ch \in [S -> Citizens \cup {Open}]
    BY <1>2, <1>3
  <2> QED
    BY <2>1 DEF Chains
<1>5. ASSUME NEW j \in S, NEW k \in S, ch[j] = ch[k], j # k PROVE ch[k] = Open
  <2>1. S \subseteq Nat
    BY <1>1, ChainAssumption DEF StepNumbers
  <2>2. j < k \/ k < j
    BY <1>5, <2>1
  <2>3. ~ (Binds(stored, j) /\ Binds(stored, k) /\ Named(stored, j) = Named(stored, k))
    BY <1>1, <2>2 DEF Binds
  <2>4. \A i \in S : Binds(stored, i) => ch[i] = Named(stored, i) /\ ch[i] # Open
    BY <1>2, <1>3, ChainAssumption DEF Citizens
  <2>5. \A i \in S : ~ Binds(stored, i) => ch[i] = Open
    BY <1>2
  <2> QED
    BY <1>5, <2>3, <2>4, <2>5
<1> QED
  BY <1>2, <1>4, <1>5 DEF NamesOnce

(* A chain has finitely many steps. *)
LEMMA ChainIsFinite ==
  ASSUME NEW ch \in Chains
  PROVE  /\ DOMAIN ch \in SUBSET StepNumbers
         /\ DOMAIN ch \subseteq Nat
         /\ IsFiniteSet(DOMAIN ch)
         /\ Cardinality(DOMAIN ch) \in Nat
<1>1. DOMAIN ch \in SUBSET StepNumbers
  BY DEF Chains
<1>2. IsFiniteSet(StepNumbers) /\ StepNumbers \subseteq Nat
  BY FS_Interval, ChainAssumption DEF StepNumbers
<1>3. IsFiniteSet(DOMAIN ch)
  BY <1>1, <1>2, FS_Subset
<1> QED
  BY <1>1, <1>2, <1>3, FS_CardinalityType

(* What can be saved can be stored. *)
LEMMA SaveableIsStored == SaveableChains \subseteq StoredChains
<1> SUFFICES ASSUME NEW ch \in SaveableChains PROVE ch \in StoredChains
  OBVIOUS
<1>1. PICK n \in 0..MaxChainSteps : ch \in [1..n -> Citizens \cup {Open}]
  BY DEF SaveableChains
<1>2. 1..n \in SUBSET StepNumbers /\ Citizens \cup {Open} \subseteq Texts
  BY ChainAssumption DEF StepNumbers, Citizens
<1> QED
  BY <1>1, <1>2 DEF StoredChains

(* The order of step numbers has no endless descent. *)
LEMMA LessIsWellFounded == IsWellFoundedOn({p \in Nat \X Nat : p[1] < p[2]}, Nat)
  BY NatLessThanWellFounded DEF OpToRel

(* While a step is unfilled there is a lowest one: the document has a next step. *)
LEMMA LowestUnfilled ==
  ASSUME NEW ch \in Chains, NEW led, Unfilled(ch, led) # {}
  PROVE  \E k \in DOMAIN ch : IsNext(ch, led, k)
<1> DEFINE less == {p \in Nat \X Nat : p[1] < p[2]}
<1>1. Unfilled(ch, led) \subseteq Nat
  BY ChainIsFinite DEF Unfilled
<1>2. PICK k \in Unfilled(ch, led) : \A j \in Unfilled(ch, led) : <<j, k>> \notin less
  <2> HIDE DEF less
  <2>1. IsWellFoundedOn(less, Nat)
    BY LessIsWellFounded DEF less
  <2> QED
    BY <1>1, <2>1, WFMin
<1>3. \A j \in Unfilled(ch, led) : k <= j
  <2> SUFFICES ASSUME NEW j \in Unfilled(ch, led) PROVE ~ (j < k)
    BY <1>1
  <2>1. j \in Nat /\ k \in Nat
    BY <1>1
  <2> QED
    BY <1>2, <2>1
<1> QED
  BY <1>3 DEF IsNext, Unfilled

(* A filled chain holds one signature per step, and those past its end. *)
LEMMA FilledChainCount ==
  ASSUME NEW ch \in Chains, NEW led \in SUBSET Signatures, IsFiniteSet(led),
         Honours(ch, led), Unfilled(ch, led) = {}
  PROVE  Cardinality(led) = Cardinality(DOMAIN ch) + Cardinality(Parked(ch, led))
<1> DEFINE within == led \ Parked(ch, led)
           f      == [g \in within |-> g.step]
<1>1. IsFiniteSet(within) /\ IsFiniteSet(Parked(ch, led))
  <2>1. within \in SUBSET led /\ Parked(ch, led) \in SUBSET led
    BY DEF Parked
  <2> QED
    BY <2>1, FS_Subset
<1>2. f \in Bijection(within, DOMAIN ch)
  <2>1. f \in [within -> DOMAIN ch]
    BY DEF Parked
  <2>2. \A g, h \in within : f[g] = f[h] => g = h
    BY DEF Honours
  <2>3. \A k \in DOMAIN ch : \E g \in within : f[g] = k
    <3>1. TAKE k \in DOMAIN ch
    <3>2. PICK g \in led : g.step = k
      BY <3>1 DEF Unfilled, FilledSteps
    <3>3. g \in within
      BY <3>1, <3>2 DEF Parked
    <3> QED
      BY <3>2, <3>3
  <2>4. f \in Injection(within, DOMAIN ch)
    BY <2>1, <2>2 DEF Injection, IsInjective
  <2>5. f \in Surjection(within, DOMAIN ch)
    BY <2>1, <2>3 DEF Surjection
  <2> QED
    BY <2>4, <2>5 DEF Bijection
<1>3. Cardinality(DOMAIN ch) = Cardinality(within)
  <2>1. ExistsBijection(within, DOMAIN ch)
    BY <1>2 DEF ExistsBijection
  <2> QED
    BY <1>1, <2>1, FS_Bijection
<1>4. Cardinality(led) = Cardinality(within) + Cardinality(Parked(ch, led))
  <2>1. led = within \cup Parked(ch, led) /\ within \cap Parked(ch, led) = {}
    BY DEF Parked
  <2>2. /\ Cardinality(within) \in Nat /\ Cardinality(Parked(ch, led)) \in Nat
        /\ Cardinality(led) = Cardinality(within) + Cardinality(Parked(ch, led))
                              - Cardinality(within \cap Parked(ch, led))
    BY <1>1, <2>1, FS_Union, FS_CardinalityType
  <2>3. Cardinality(within \cap Parked(ch, led)) = 0
    BY <2>1, FS_EmptySet
  <2> HIDE DEF within
  <2> QED
    BY <2>2, <2>3
<1> QED
  BY <1>3, <1>4
-----------------------------------------------------------------------------
(* One more signature fills one more step, for one more citizen. *)
LEMMA NewSignature ==
  ASSUME NEW led \in SUBSET Signatures, NEW k \in Nat, NEW c \in Citizens,
         NEW led2, led2 = led \cup {[step |-> k, signer |-> c]}
  PROVE  FilledSteps(led2) = FilledSteps(led) \cup {k} /\ Signers(led2) = Signers(led) \cup {c}
<1> DEFINE new  == [step |-> k, signer |-> c]
<1>1. new.step = k /\ new.signer = c /\ led2 = led \cup {new}
  OBVIOUS
<1> HIDE DEF new
<1>2. FilledSteps(led2) = FilledSteps(led) \cup {k}
  BY <1>1, Zenon DEF FilledSteps
<1>3. Signers(led2) = Signers(led) \cup {c}
  BY <1>1, Zenon DEF Signers
<1> QED
  BY <1>2, <1>3

(* A signature admitted by checkSigner and numbered by RecordedOn goes on a step
   nobody has filled, and on one that names somebody only if it names its
   signer. *)
LEMMA SigningHonours ==
  ASSUME NEW ch \in Chains, NEW led \in SUBSET Signatures, Honours(ch, led),
         NEW c \in Citizens, c \notin Signers(led), checkSigner(ch, led, c),
         NEW k \in Nat, RecordedOn(ch, led, k)
  PROVE  Honours(ch, led \cup {[step |-> k, signer |-> c]})
<1> DEFINE new == [step |-> k, signer |-> c]
<1>1. \A g \in led : g.signer # c
  BY DEF Signers
<1>2. \A g \in led : g.step # k
  <2>1. CASE IsNext(ch, led, k)
    BY <2>1 DEF IsNext, Unfilled, FilledSteps
  <2>2. CASE \A j \in FilledSteps(led) \cup DOMAIN ch : j < k
    <3>1. \A g \in led : g.step \in Nat /\ g.step < k
      BY <2>2 DEF FilledSteps, Signatures
    <3> QED
      BY <3>1
  <2> QED
    BY <2>1, <2>2 DEF RecordedOn
<1>3. k \in DOMAIN ch => ch[k] \in {Open, c}
  <2>1. CASE IsNext(ch, led, k)
    BY <2>1 DEF checkSigner
  <2>2. CASE \A j \in FilledSteps(led) \cup DOMAIN ch : j < k
    <3>1. k \in DOMAIN ch => k < k
      BY <2>2
    <3> QED
      BY <3>1
  <2> QED
    BY <2>1, <2>2 DEF RecordedOn
<1>4. new.step = k /\ new.signer = c
  OBVIOUS
<1> QED
  BY <1>1, <1>2, <1>3, <1>4 DEF Honours

(* Such a signature uses up nobody a later step is waiting for. *)
LEMMA SigningKeepsNamesFree ==
  ASSUME NEW ch \in Chains, NamesOnce(ch), NEW led \in SUBSET Signatures,
         NamesFree(ch, led),
         NEW c \in Citizens, checkSigner(ch, led, c),
         NEW k \in Nat, RecordedOn(ch, led, k)
  PROVE  NamesFree(ch, led \cup {[step |-> k, signer |-> c]})
<1> DEFINE led2 == led \cup {[step |-> k, signer |-> c]}
<1>1. FilledSteps(led2) = FilledSteps(led) \cup {k} /\ Signers(led2) = Signers(led) \cup {c}
  BY NewSignature
<1>2. SUFFICES ASSUME NEW j \in Unfilled(ch, led2), ch[j] # Open
               PROVE  ch[j] # c
  BY <1>1 DEF NamesFree, Unfilled
<1>3. j \in Unfilled(ch, led) /\ j # k /\ j \in DOMAIN ch
  BY <1>1, <1>2 DEF Unfilled
<1>4. IsNext(ch, led, k)
  BY <1>3 DEF RecordedOn
<1>5. k \in DOMAIN ch
  BY <1>4 DEF IsNext, Unfilled
<1>6. CASE ch[k] = c
  BY <1>2, <1>3, <1>5, <1>6 DEF NamesOnce
<1>7. CASE c \notin Reserved(ch, led, k)
  BY <1>2, <1>3, <1>7 DEF Reserved
<1> QED
  BY <1>4, <1>5, <1>6, <1>7 DEF checkSigner
=============================================================================
