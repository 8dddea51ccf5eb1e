------------------------- MODULE ChainConfigProofs -------------------------
(***************************************************************************)
(* Proofs about ChainConfig, for any number of administrators, any numbers  *)
(* a citizen can have and any length of chain: the two screens cannot       *)
(* between them leave a requirement no chain satisfies, and a saved chain   *)
(* is stored as it was saved.                                               *)
(*                                                                          *)
(* The argument is the advisory lock's: from its guard to its commit a      *)
(* transaction holds the lock, so what its guard read, and what its DELETE  *)
(* saw, is still what the tables hold when it writes.                       *)
(***************************************************************************)
EXTENDS ChainConfig, TLAPS

(* Past its first statement a transaction holds the lock. *)
Locked == \A a \in Admins : admin[a].pc \in {"guard", "write", "insert"} => holder = a

(* Past its guard, what the guard found is still so. *)
StillAllowed == \A a \in Admins : admin[a].pc \in {"write", "insert"} => Allowed(a)

(* Past its DELETE, every stored step is one the DELETE removed. *)
AllCleared ==
    \A a \in Admins : admin[a].pc = "insert" =>
        admin[a].op = "chain" /\ admin[a].cleared = DOMAIN steps

IInv == TypeOK /\ RequirementSatisfiable /\ Locked /\ StillAllowed /\ AllCleared
-----------------------------------------------------------------------------
(* A chain the screens agree to save is one the table can hold. *)
LEMMA SaveableIsChain == SaveableChains \subseteq Chains
<1> SUFFICES ASSUME NEW ch \in SaveableChains PROVE ch \in Chains
  OBVIOUS
<1>1. PICK n \in 0..MaxChainSteps : ch \in [1..n -> Citizens \cup {Open}]
  BY DEF SaveableChains
<1>2. 1..n \in SUBSET StepNumbers
  BY <1>1, ChainAssumption DEF StepNumbers
<1> QED
  BY <1>1, <1>2 DEF Chains

(* The empty chain is saveable, so a call that carries none is well typed. *)
LEMMA IdleIsCall == Idle \in Calls
<1>1. NoSteps \in [1..0 -> Citizens \cup {Open}] /\ 0 \in 0..MaxChainSteps
  BY ChainAssumption DEF NoSteps
<1>2. \A j, k \in DOMAIN NoSteps : NoSteps[j] = NoSteps[k] /\ j # k => NoSteps[k] = Open
  BY DEF NoSteps
<1>3. NoSteps \in SaveableChains
  BY <1>1, <1>2 DEF SaveableChains
<1> QED
  BY <1>3 DEF Idle, Calls, Methods

(* The initial states: nobody holds the lock, and the stored requirement is one
   the stored chain satisfies. *)
LEMMA InitIInv == Init => IInv
<1> SUFFICES ASSUME Init PROVE IInv
  OBVIOUS
<1>1. TypeOK
  BY SaveableIsChain, IdleIsCall DEF Init, TypeOK
<1>2. RequirementSatisfiable
  BY DEF Init, RequirementSatisfiable
<1>3. \A a \in Admins : admin[a].pc = "idle"
  BY DEF Init, Idle
<1> QED
  BY <1>1, <1>2, <1>3 DEF IInv, Locked, StillAllowed, AllCleared

(* What InsertSteps stores, in a state where the DELETE removed every step. *)
LEMMA InsertStores ==
  ASSUME IInv, NEW a \in Admins, InsertSteps(a)
  PROVE  steps' = admin[a].steps
<1>1. Kept(a) = {}
  BY DEF IInv, AllCleared, InsertSteps, Kept
<1>2. admin[a].steps = [k \in DOMAIN admin[a].steps |-> admin[a].steps[k]]
  <2>1. admin[a].steps \in SaveableChains
    BY DEF IInv, TypeOK, Calls
  <2> QED
    BY <2>1 DEF SaveableChains
<1> QED
  BY <1>1, <1>2 DEF InsertSteps
-----------------------------------------------------------------------------
(* Every step of either screen keeps the invariant. *)
LEMMA NextIInv == IInv /\ [Next]_vars => IInv'
<1> SUFFICES ASSUME IInv, [Next]_vars PROVE IInv'
  OBVIOUS
<1> USE ConfigAssumption
<1>1. ASSUME NEW a \in Admins, NEW ch \in SaveableChains, SaveChain(a, ch) PROVE IInv'
  <2>1. TypeOK'
    BY <1>1, IdleIsCall DEF IInv, TypeOK, SaveChain, Calls
  <2>2. admin'[a].pc = "lock" /\ \A b \in Admins \ {a} : admin'[b] = admin[b]
    BY <1>1, IdleIsCall DEF IInv, TypeOK, SaveChain, Calls
  <2> QED
    BY <1>1, <2>1, <2>2 DEF IInv, SaveChain, RequirementSatisfiable,
       stepsCanRequireNamedSigners, Locked, StillAllowed, AllCleared, Allowed
<1>2. ASSUME NEW a \in Admins, NEW n \in BOOLEAN, NEW allowed \in SUBSET Methods,
             SavePolicy(a, n, allowed)
      PROVE  IInv'
  <2>1. TypeOK'
    BY <1>2, IdleIsCall DEF IInv, TypeOK, SavePolicy, Calls
  <2>2. admin'[a].pc = "lock" /\ \A b \in Admins \ {a} : admin'[b] = admin[b]
    BY <1>2, IdleIsCall DEF IInv, TypeOK, SavePolicy, Calls
  <2> QED
    BY <1>2, <2>1, <2>2 DEF IInv, SavePolicy, RequirementSatisfiable,
       stepsCanRequireNamedSigners, Locked, StillAllowed, AllCleared, Allowed
<1>3. ASSUME NEW a \in Admins, TakeLock(a) PROVE IInv'
  <2>1. TypeOK'
    BY <1>3 DEF IInv, TypeOK, TakeLock, Calls
  <2>2. admin'[a].pc = "guard" /\ \A b \in Admins \ {a} : admin'[b] = admin[b]
    BY <1>3 DEF IInv, TypeOK, TakeLock, Calls
  <2>3. \A b \in Admins : admin[b].pc \notin {"guard", "write", "insert"}
    BY <1>3 DEF IInv, Locked, TakeLock
  <2> QED
    BY <1>3, <2>1, <2>2, <2>3 DEF IInv, TakeLock, RequirementSatisfiable,
       stepsCanRequireNamedSigners, Locked, StillAllowed, AllCleared, Allowed
<1>4. ASSUME NEW a \in Admins, Guard(a) PROVE IInv'
  <2>1. TypeOK'
    BY <1>4 DEF IInv, TypeOK, Guard, Calls
  <2>2. /\ admin'[a] = [admin[a] EXCEPT !.pc = "write"]
        /\ \A b \in Admins \ {a} : admin'[b] = admin[b]
    BY <1>4 DEF IInv, TypeOK, Guard, Calls
  <2>3. /\ admin'[a].pc = "write" /\ admin'[a].op = admin[a].op
        /\ admin'[a].named = admin[a].named /\ admin'[a].steps = admin[a].steps
    BY <2>2 DEF IInv, TypeOK, Calls
  <2>4. RequirementSatisfiable' /\ Locked' /\ AllCleared'
    BY <1>4, <2>2, <2>3 DEF IInv, Guard, RequirementSatisfiable,
       stepsCanRequireNamedSigners, Locked, AllCleared
  <2>5. StillAllowed'
    BY <1>4, <2>2, <2>3 DEF IInv, Guard, StillAllowed, Allowed, stepsCanRequireNamedSigners
  <2> QED
    BY <2>1, <2>4, <2>5 DEF IInv
<1>5. ASSUME NEW a \in Admins, RollBack(a) PROVE IInv'
  <2>1. TypeOK'
    BY <1>5, IdleIsCall DEF IInv, TypeOK, RollBack, Release
  <2>2. admin'[a].pc = "idle" /\ \A b \in Admins \ {a} : admin'[b] = admin[b]
    BY <1>5 DEF IInv, TypeOK, RollBack, Idle
  <2> QED
    BY <1>5, <2>1, <2>2 DEF IInv, RollBack, Release, RequirementSatisfiable,
       stepsCanRequireNamedSigners, Locked, StillAllowed, AllCleared, Allowed
<1>6. ASSUME NEW a \in Admins, ClearSteps(a) PROVE IInv'
  <2>1. TypeOK'
    <3>1. DOMAIN steps \in SUBSET StepNumbers
      BY DEF IInv, TypeOK, Chains
    <3>2. [admin[a] EXCEPT !.pc = "insert", !.cleared = DOMAIN steps] \in Calls
      BY <3>1 DEF IInv, TypeOK, Calls
    <3> QED
      BY <1>6, <3>2 DEF IInv, TypeOK, ClearSteps
  <2>2. /\ admin'[a] = [admin[a] EXCEPT !.pc = "insert", !.cleared = DOMAIN steps]
        /\ \A b \in Admins \ {a} : admin'[b] = admin[b]
    BY <1>6 DEF IInv, TypeOK, ClearSteps, Calls
  <2>3. /\ admin'[a].pc = "insert" /\ admin'[a].op = admin[a].op
        /\ admin'[a].cleared = DOMAIN steps
        /\ admin'[a].named = admin[a].named /\ admin'[a].steps = admin[a].steps
    BY <2>2 DEF IInv, TypeOK, Calls
  <2>4. /\ admin[a].pc = "write" /\ admin[a].op = "chain"
        /\ steps' = steps /\ named' = named /\ holder' = holder
    BY <1>6 DEF ClearSteps
  <2>5. RequirementSatisfiable'
    BY <2>4 DEF IInv, RequirementSatisfiable, stepsCanRequireNamedSigners
  <2>6. Locked' /\ AllCleared'
    <3>1. \A b \in Admins \ {a} : admin'[b] = admin[b]
      BY <2>2
    <3>2. holder = a /\ \A b \in Admins \ {a} : admin[b].pc # "insert"
      BY <2>4 DEF IInv, Locked
    <3> QED
      BY <2>3, <2>4, <3>1, <3>2 DEF IInv, Locked, AllCleared
  <2>7. ASSUME NEW b \in Admins, admin'[b].pc \in {"write", "insert"} PROVE Allowed(b)'
    <3>1. /\ admin[b].pc \in {"write", "insert"}
          /\ admin'[b].op = admin[b].op
          /\ admin'[b].named = admin[b].named /\ admin'[b].steps = admin[b].steps
      BY <2>2, <2>3, <2>4, <2>7
    <3>2. Allowed(b)
      BY <3>1 DEF IInv, StillAllowed
    <3> QED
      BY <2>4, <3>1, <3>2 DEF Allowed, stepsCanRequireNamedSigners
  <2> QED
    BY <2>1, <2>5, <2>6, <2>7 DEF IInv, StillAllowed
<1>7. ASSUME NEW a \in Admins, InsertSteps(a) PROVE IInv'
  <2>1. steps' = admin[a].steps /\ steps' \in Chains
    BY <1>7, InsertStores, SaveableIsChain DEF IInv, TypeOK, Calls
  <2>2. \A b \in Admins \ {a} : admin[b].pc \notin {"guard", "write", "insert"}
    BY <1>7 DEF IInv, Locked, InsertSteps
  <2>3. /\ admin'[a].pc = "idle"
        /\ \A b \in Admins \ {a} : admin'[b].pc = admin[b].pc
    BY <1>7 DEF IInv, TypeOK, InsertSteps, Idle, Calls
  <2>4. admin' \in [Admins -> Calls]
    BY <1>7, IdleIsCall DEF IInv, TypeOK, InsertSteps, Calls
  <2>5. TypeOK'
    BY <1>7, <2>1, <2>4 DEF IInv, TypeOK, InsertSteps, Release
  <2>6. RequirementSatisfiable'
    <3>1. admin[a].op = "chain" /\ Allowed(a) /\ named' = named
      BY <1>7 DEF IInv, StillAllowed, AllCleared, InsertSteps
    <3> QED
      BY <2>1, <3>1 DEF Allowed, RequirementSatisfiable, stepsCanRequireNamedSigners
  <2> QED
    BY <1>7, <2>2, <2>3, <2>5, <2>6 DEF IInv, Locked, StillAllowed, AllCleared
<1>8. ASSUME NEW a \in Admins, UpsertPolicy(a) PROVE IInv'
  <2>1. TypeOK'
    BY <1>8, IdleIsCall DEF IInv, TypeOK, UpsertPolicy, Release, Calls
  <2>2. \A b \in Admins \ {a} : admin[b].pc \notin {"guard", "write", "insert"}
    BY <1>8 DEF IInv, Locked, UpsertPolicy
  <2>3. admin'[a].pc = "idle" /\ \A b \in Admins \ {a} : admin'[b] = admin[b]
    BY <1>8 DEF IInv, TypeOK, UpsertPolicy, Idle
  <2>4. RequirementSatisfiable'
    BY <1>8 DEF IInv, StillAllowed, Allowed, UpsertPolicy,
       RequirementSatisfiable, stepsCanRequireNamedSigners
  <2> QED
    BY <2>1, <2>2, <2>3, <2>4 DEF IInv, Locked, StillAllowed, AllCleared
<1>9. CASE UNCHANGED vars
  BY <1>9 DEF IInv, vars, TypeOK, RequirementSatisfiable, stepsCanRequireNamedSigners,
     Locked, StillAllowed, Allowed, AllCleared
<1> QED
  BY <1>1, <1>2, <1>3, <1>4, <1>5, <1>6, <1>7, <1>8, <1>9 DEF Next

(* The strengthened invariant holds in every reachable state. *)
THEOREM Invariance == Spec => []IInv
<1> QED
  BY InitIInv, NextIInv, PTL DEF Spec

(* The tables, the lock and the calls keep their types, whatever the screens do. *)
THEOREM TypeCorrect == Spec => []TypeOK
<1>1. IInv => TypeOK
  BY DEF IInv
<1> QED
  BY <1>1, Invariance, PTL

(* A policy that insists on named signers always stands beside a chain that names
   one at every step, each once: the guards of the two screens suffice. *)
THEOREM RequirementAlwaysSatisfiable == Spec => []RequirementSatisfiable
<1>1. IInv => RequirementSatisfiable
  BY DEF IInv
<1> QED
  BY <1>1, Invariance, PTL

(* A saved chain is the stored chain, whatever other saves overlap it. *)
THEOREM SavesAreStored == Spec => SavedIsStored
<1>1. IInv /\ [Next]_vars => [\A a \in Admins : InsertSteps(a) => steps' = admin[a].steps]_vars
  BY InsertStores
<1> QED
  BY <1>1, Invariance, PTL DEF Spec, SavedIsStored
=============================================================================
