---------------------------- MODULE ChainConfig ----------------------------
(***************************************************************************)
(* The two screens that configure how a document type is approved: its      *)
(* approval chain (ReplaceWorkflow) and its signature policy                *)
(* (SaveSignaturePolicy).  Each save is a transaction under READ COMMITTED  *)
(* whose guard reads the OTHER screen's table; an advisory lock per tenant  *)
(* and type is what makes the two guards hold.                              *)
(*                                                                          *)
(* One type of one tenant: the lock, both tables and both guards are keyed  *)
(* by it, so types do not interact.                                         *)
(***************************************************************************)
EXTENDS ApprovalChain

CONSTANTS
    Admins,     \* calls of either screen that can be in flight at once
    Nobody      \* the lock is free

ASSUME ConfigAssumption == Nobody \notin Admins

VARIABLES
    steps,      \* document_workflow_steps, committed
    named,      \* document_signature_policies.require_named_signer
    channels,   \* allow_eid, allow_dan
    holder,     \* who holds the advisory lock
    admin       \* the calls

vars == <<steps, named, channels, holder, admin>>

Methods == {"eid", "dan"}

Calls ==
    [pc : {"idle", "lock", "guard", "write", "insert"},
     op : {"chain", "policy"},
     steps : SaveableChains,                \* ReplaceWorkflow's argument
     named : BOOLEAN,                       \* SaveSignaturePolicy's arguments
     channels : (SUBSET Methods) \ {{}},
     cleared : SUBSET StepNumbers]          \* the steps its DELETE removed

NoSteps == [k \in 1..0 |-> Open]

Idle == [pc |-> "idle", op |-> "chain", steps |-> NoSteps, named |-> FALSE,
         channels |-> Methods, cleared |-> {}]

TypeOK ==
    /\ steps \in Chains
    /\ named \in BOOLEAN
    /\ channels \in (SUBSET Methods) \ {{}}
    /\ holder \in Admins \cup {Nobody}
    /\ admin \in [Admins -> Calls]

(* No policy row is the default policy, both channels; migration 00019 left the
   requirement only where the stored chain satisfies it. *)
Init ==
    /\ steps \in SaveableChains
    /\ named \in BOOLEAN
    /\ named => stepsCanRequireNamedSigners(steps)
    /\ channels \in (SUBSET Methods) \ {{}}
    /\ holder = Nobody
    /\ admin = [a \in Admins |-> Idle]
-----------------------------------------------------------------------------
(* ReplaceWorkflow checks the chain it was given before it opens a
   transaction; so does SaveSignaturePolicy, that some channel is left. *)
SaveChain(a, ch) ==
    /\ admin[a].pc = "idle"
    /\ admin' = [admin EXCEPT ![a] = [Idle EXCEPT !.pc = "lock", !.steps = ch]]
    /\ UNCHANGED <<steps, named, channels, holder>>

SavePolicyNoChannel(a, n, allowed) ==   \* planted fault: no channel is left
    /\ admin[a].pc = "idle"
    /\ admin' = [admin EXCEPT ![a] =
         [Idle EXCEPT !.pc = "lock", !.op = "policy", !.named = n, !.channels = allowed]]
    /\ UNCHANGED <<steps, named, channels, holder>>

SavePolicy(a, n, allowed) ==
    /\ admin[a].pc = "idle"
    /\ allowed # {}
    /\ admin' = [admin EXCEPT ![a] =
         [Idle EXCEPT !.pc = "lock", !.op = "policy", !.named = n, !.channels = allowed]]
    /\ UNCHANGED <<steps, named, channels, holder>>

TakeLockAtOnce(a) ==                    \* planted fault: no waiting
    /\ admin[a].pc = "lock"
    /\ holder' = a
    /\ admin' = [admin EXCEPT ![a].pc = "guard"]
    /\ UNCHANGED <<steps, named, channels>>

(* pg_advisory_xact_lock: waits, and is released by the commit or rollback. *)
TakeLock(a) ==
    /\ admin[a].pc = "lock"
    /\ holder = Nobody
    /\ holder' = a
    /\ admin' = [admin EXCEPT ![a].pc = "guard"]
    /\ UNCHANGED <<steps, named, channels>>

Release(a) == holder' = IF holder = a THEN Nobody ELSE holder

(* The transaction ends without writing: refused, failed, or the server gone. *)
RollBack(a) ==
    /\ admin[a].pc # "idle"
    /\ admin' = [admin EXCEPT ![a] = Idle]
    /\ Release(a)
    /\ UNCHANGED <<steps, named, channels>>

AllowedPolicyOnly(a) ==                 \* planted fault: a chain is not held to it
    admin[a].op = "policy" /\ admin[a].named => stepsCanRequireNamedSigners(steps)

(* A chain is held to the policy as it stands now; a policy to the chain. *)
Allowed(a) ==
    IF admin[a].op = "chain"
    THEN named => stepsCanRequireNamedSigners(admin[a].steps)
    ELSE admin[a].named => stepsCanRequireNamedSigners(steps)

Guard(a) ==
    /\ admin[a].pc = "guard"
    /\ Allowed(a)
    /\ admin' = [admin EXCEPT ![a].pc = "write"]
    /\ UNCHANGED <<steps, named, channels, holder>>

(* DELETE sees the steps committed by now; what another transaction commits
   after it stays. *)
ClearSteps(a) ==
    /\ admin[a].pc = "write"
    /\ admin[a].op = "chain"
    /\ admin' = [admin EXCEPT ![a].pc = "insert", ![a].cleared = DOMAIN steps]
    /\ UNCHANGED <<steps, named, channels, holder>>

Kept(a) == DOMAIN steps \ admin[a].cleared

InsertSteps(a) ==
    /\ admin[a].pc = "insert"
    /\ Kept(a) \cap DOMAIN admin[a].steps = {}     \* or the insert collides
    /\ steps' = [k \in Kept(a) \cup DOMAIN admin[a].steps |->
                   IF k \in DOMAIN admin[a].steps THEN admin[a].steps[k] ELSE steps[k]]
    /\ admin' = [b \in Admins |->
                   IF b = a THEN Idle ELSE [admin[b] EXCEPT !.cleared = {}]]
    /\ Release(a)
    /\ UNCHANGED <<named, channels>>

UpsertPolicy(a) ==
    /\ admin[a].pc = "write"
    /\ admin[a].op = "policy"
    /\ named' = admin[a].named
    /\ channels' = admin[a].channels
    /\ admin' = [admin EXCEPT ![a] = Idle]
    /\ Release(a)
    /\ UNCHANGED steps

Next ==
    \E a \in Admins :
        \/ \E ch \in SaveableChains : SaveChain(a, ch)
        \/ \E n \in BOOLEAN, allowed \in SUBSET Methods : SavePolicy(a, n, allowed)
        \/ TakeLock(a) \/ Guard(a) \/ RollBack(a)
        \/ ClearSteps(a) \/ InsertSteps(a) \/ UpsertPolicy(a)

Spec == Init /\ [][Next]_vars
-----------------------------------------------------------------------------
(* A type whose policy insists on named signers has a chain that names one at
   every step, each of them once: anything else could be approved by nobody.
   Each screen checks it against the other's table before it writes its own. *)
RequirementSatisfiable == named => stepsCanRequireNamedSigners(steps)

(* A chain that was saved is the chain that is stored, and nothing but it: a save
   neither keeps a step of a chain another save put there after its DELETE, nor
   is swallowed by one it overlaps. *)
SavedIsStored ==
    [][\A a \in Admins : InsertSteps(a) => steps' = admin[a].steps]_vars
=============================================================================
