------------------------------ MODULE Signing ------------------------------
(***************************************************************************)
(* The documents app at the granularity of its SQL statements and of its    *)
(* calls to the identity providers, under READ COMMITTED.                   *)
(*                                                                          *)
(* A request is one call of the service: signing through DAN, starting or   *)
(* polling an E-ID ceremony, renaming, rejecting, and creating or routing.  *)
(* It is a process with a program counter; each action is one statement, or *)
(* one call to a provider, and between two actions of a request any other   *)
(* request may run.  A request that has answered can make another call:     *)
(* there is no bound on how many calls are made, only on how many run at    *)
(* once (Requests) and on how many ceremonies are started (SessionIds).     *)
(*                                                                          *)
(* A transaction is its first statement, which takes the document's row     *)
(* lock, and a second action that stands for every later statement and the  *)
(* commit: nobody sees its writes before the commit, and what it reads in   *)
(* between is guarded by the lock.  A statement of its own is one action    *)
(* when what it reads and what it writes are the same row, and two (its     *)
(* snapshot, then its write) when it also reads other rows.                 *)
(***************************************************************************)
EXTENDS ApprovalChain

CONSTANTS
    Docs, DocTypes, TypeOf, InitialChains, MaxInherited, \* as in DocumentLedger
    EditedChains,   \* the chains an administrator saves; a bound for TLC
    EditedPolicies, \* the sets of channels an administrator allows
    Titles,         \* titles a document can have
    Requests,       \* requests that can be in flight at once
    SessionIds,     \* ceremonies E-ID can be asked for
    Operations,     \* the calls this instance makes
    Faults,         \* whether a request can die half way
    MaxAge,         \* 0: sessions stay young; 1: they pass their deadline; 2: an hour
    Nobody          \* no holder, no title read

ASSUME SigningAssumption ==
    /\ TypeOf \in [Docs -> DocTypes]
    /\ InitialChains \subseteq StoredChains
    /\ MaxInherited \in Nat
    /\ Operations \subseteq {"dan", "start", "poll", "rename", "reject", "submit"}
    /\ Faults \in BOOLEAN
    /\ MaxAge \in 0..2
    /\ Nobody \notin Requests \cup Titles \cup Chains
    /\ EditedChains \subseteq SaveableChains
    /\ EditedPolicies \subseteq (SUBSET {"dan", "eid"}) \ {{}}
    /\ {"dan", "inherited"} \cap SessionIds = {}

VARIABLES
    status, chain, required, sigs, typeChain, \* as in DocumentLedger
    title,      \* document_records.title
    policy,     \* the channels document_signature_policies allows for a type
    row,        \* document_eid_sign_sessions: no row, unspent or spent
    age,        \* how old that row is
    push,       \* E-ID's side of a session: what was asked of whom, and the answer
    lock,       \* the request holding a document's row lock
    req         \* the requests

tables   == <<status, chain, required, sigs, typeChain, title, policy, row, age>>
documents == <<status, chain, required, sigs, title>>
settings == <<typeChain, policy>>
sessions == <<row, age, push>>
vars     == <<status, chain, required, sigs, typeChain, title, policy,
              row, age, push, lock, req>>

Methods == {"dan", "eid"}
Method(op) == IF op = "dan" THEN "dan" ELSE "eid"

(* The ledger without the channel each signature came through. *)
Bare(led) == {[step |-> g.step, signer |-> g.signer] : g \in led}

(* The chain a submission holding the row has read, or none. *)
Copied == [d \in Docs |->
             IF \E r \in Requests : lock[d] = r /\ req[r].pc = "commit"
             THEN req[lock[d]].copy ELSE Nobody]

Ledger == INSTANCE DocumentLedger
            WITH sigs <- [d \in Docs |-> Bare(sigs[d])], copy <- Copied, NoCopy <- Nobody

Via == SessionIds \cup {"dan", "inherited"}

Push == [state : {"unused"}] \cup
        [state : {"RUNNING", "COMPLETE", "REFUSED", "EXPIRED"},
         to : Citizens, by : Citizens \cup {Nobody}, doc : Docs, title : Titles]

Counters == {"idle", "load", "policy", "position", "gateway", "signed", "title",
             "sweep", "push", "pair", "retire", "find", "expire", "ask", "drop",
             "recheck", "lock", "record", "snapshot", "apply", "commit"}

Idle == [pc |-> "idle", op |-> Nobody, doc |-> Nobody, who |-> Nobody,
         session |-> Nobody, admitted |-> FALSE, title |-> Nobody,
         copy |-> Ledger!NoChain, answer |-> ""]

TypeOK ==
    /\ status \in [Docs -> Ledger!Statuses]
    /\ chain \in [Docs -> Chains]
    /\ required \in [Docs -> Nat]
    /\ \A d \in Docs : \A g \in sigs[d] :
         g.step \in Nat /\ g.signer \in Citizens /\ g.via \in Via
    /\ typeChain \in [DocTypes -> StoredChains]
    /\ title \in [Docs -> Titles]
    /\ policy \in [DocTypes -> (SUBSET Methods) \ {{}}]
    /\ row \in [SessionIds -> {"none", "unspent", "spent"}]
    /\ age \in [SessionIds -> 0..MaxAge]
    /\ \A s \in SessionIds : push[s] \in Push
    /\ lock \in [Docs -> Requests \cup {Nobody}]
    /\ \A r \in Requests : req[r].pc \in Counters
    /\ \A d \in Docs : lock[d] \in Requests =>
         req[lock[d]].doc = d /\ req[lock[d]].pc \in {"record", "commit"}

Init ==
    /\ status \in [Docs -> {"ABSENT", "DRAFT", "PENDING_APPROVAL"}]
    /\ chain \in [Docs -> {fillableChain(ch) : ch \in InitialChains} \cup {Ledger!NoChain}]
    /\ \E led \in [Docs -> Ledger!InheritedLedgers] :
         /\ required = [d \in Docs |-> Ledger!Requirement(chain[d], led[d])]
         /\ \A d \in Docs : Ledger!Inherited(status[d], chain[d], required[d], led[d])
         /\ sigs = [d \in Docs |->
                      {[step |-> g.step, signer |-> g.signer, via |-> "inherited"] : g \in led[d]}]
    /\ typeChain \in [DocTypes -> InitialChains]
    /\ \E t \in Titles : title = [d \in Docs |-> t]
    /\ policy = [t \in DocTypes |-> Methods]
    /\ row = [s \in SessionIds |-> "none"]
    /\ age = [s \in SessionIds |-> 0]
    /\ push = [s \in SessionIds |-> [state |-> "unused"]]
    /\ lock = [d \in Docs |-> Nobody]
    /\ req = [r \in Requests |-> Idle]
-----------------------------------------------------------------------------
At(r, pc)   == req[r].pc = pc
Goto(r, pc) == req' = [req EXCEPT ![r].pc = pc]

(* The call returns.  Only that a poll said COMPLETE, and of which session, is
   remembered until the next call: no property tells the other answers apart. *)
Answer(r, a) ==
    req' = [req EXCEPT ![r] =
        IF req[r].op = "poll" /\ a = "COMPLETE"
        THEN [Idle EXCEPT !.doc = req[r].doc, !.session = req[r].session, !.answer = a]
        ELSE Idle]

(* A refusal; a poll asks first whether its ceremony produced a signature. *)
Refuse(r, a) ==
    IF req[r].op = "poll" THEN Goto(r, "recheck") ELSE Answer(r, a)

Pending(d) == status[d] = "PENDING_APPROVAL"

(* The unspent sessions of a document, and of one citizen on it. *)
Unspent(d)     == {s \in SessionIds : row[s] = "unspent" /\ push[s].doc = d}
AskedAnywhere(d, c) ==      \* planted fault: whatever the document
    {s \in SessionIds : row[s] = "unspent" /\ push[s].to = c}
AskedOf(d, c)  == {s \in Unspent(d) : push[s].to = c}
Delete(S)      == row' = [s \in SessionIds |-> IF s \in S THEN "none" ELSE row[s]]

(* A call arrives. *)
Begin(r, op, d, x) ==
    /\ At(r, "idle")
    /\ op \in Operations
    /\ req' = [req EXCEPT ![r] =
         CASE op \in {"dan", "start"} -> [Idle EXCEPT !.pc = "load", !.op = op, !.doc = d, !.who = x]
           [] op = "poll"   -> [Idle EXCEPT !.pc = "find", !.op = op, !.doc = d, !.session = x]
           [] op = "rename" -> [Idle EXCEPT !.pc = "snapshot", !.op = op, !.doc = d, !.title = x]
           [] op = "reject" -> [Idle EXCEPT !.pc = "apply", !.op = op, !.doc = d]
           [] op = "submit" -> [Idle EXCEPT !.pc = "lock", !.op = op, !.doc = d]]
    /\ UNCHANGED <<tables, push, lock>>

Arguments(op) ==
    CASE op \in {"dan", "start"} -> Citizens
      [] op = "poll"   -> {s \in SessionIds : push[s].state # "unused"}
      [] op = "rename" -> Titles
      [] OTHER         -> {Nobody}
-----------------------------------------------------------------------------
(* preflightSignature: three reads, none of them under the lock. *)
PreflightDocument(r) ==
    /\ At(r, "load")
    /\ IF Pending(req[r].doc) THEN Goto(r, "policy") ELSE Refuse(r, "not signable")
    /\ UNCHANGED <<tables, push, lock>>

PreflightPolicy(r) ==
    /\ At(r, "policy")
    /\ IF Method(req[r].op) \in policy[TypeOf[req[r].doc]]
       THEN Goto(r, "position") ELSE Refuse(r, "rejected")
    /\ UNCHANGED <<tables, push, lock>>

(* nextApprovalStep and, for a citizen already known, checkSigner; DAN keeps the
   position until the gateway has said who is there. *)
PreflightPosition(r) ==
    /\ At(r, "position")
    /\ LET q == req[r]
           admitted == checkSigner(chain[q.doc], Bare(sigs[q.doc]), q.who)
       IN  CASE q.op = "dan" ->
                  req' = [req EXCEPT ![r].pc = "gateway", ![r].admitted = admitted]
             [] q.op # "dan" /\ ~ admitted -> Refuse(r, "rejected")
             [] q.op = "start" /\ admitted -> Goto(r, "signed")
             [] q.op = "poll" /\ admitted  -> Goto(r, "lock")
    /\ UNCHANGED <<tables, push, lock>>

(* The DAN gateway vouches for the citizen, or does not, or cannot be reached. *)
AuthenticateDAN(r) ==
    /\ At(r, "gateway")
    /\ \/ Answer(r, "rejected")
       \/ Answer(r, "unavailable")
       \/ req[r].admitted /\ Goto(r, "signed")
    /\ UNCHANGED <<tables, push, lock>>

AlreadySigned(r) ==
    /\ At(r, "signed")
    /\ IF req[r].who \in Signers(sigs[req[r].doc])
       THEN Answer(r, "already signed")
       ELSE Goto(r, IF req[r].op = "dan" THEN "lock" ELSE "title")
    /\ UNCHANGED <<tables, push, lock>>
-----------------------------------------------------------------------------
(* StartEIDSignature, after the checks it shares with the other channels. *)
StartTitle(r) ==
    /\ At(r, "title")
    /\ req' = [req EXCEPT ![r].pc = "sweep", ![r].title = title[req[r].doc]]
    /\ UNCHANGED <<tables, push, lock>>

(* Best effort: a failure is logged and the ceremony goes on. *)
StartSweep(r) ==
    /\ At(r, "sweep")
    /\ Goto(r, "push")
    /\ \/ Delete({s \in Unspent(req[r].doc) : age[s] = 2})
       \/ Faults /\ UNCHANGED row
    /\ UNCHANGED <<documents, settings, age, push, lock>>

(* E-ID shows the citizen the title that was read, and mints the session. *)
StartPush(r) ==
    /\ At(r, "push")
    /\ \/ /\ Answer(r, "unavailable")
          /\ UNCHANGED push
       \/ \E s \in SessionIds :
            /\ push[s].state = "unused"
            /\ push' = [push EXCEPT ![s] =
                 [state |-> "RUNNING", to |-> req[r].who, by |-> Nobody,
                  doc |-> req[r].doc, title |-> req[r].title]]
            /\ req' = [req EXCEPT ![r].pc = "pair", ![r].session = s]
    /\ UNCHANGED <<tables, lock>>

StartPair(r) ==
    /\ At(r, "pair")
    /\ row' = [row EXCEPT ![req[r].session] = "unspent"]
    /\ Goto(r, "retire")
    /\ UNCHANGED <<documents, settings, age, push, lock>>

(* Only the newest asking stays redeemable.  Best effort again. *)
StartRetireAll(r) ==        \* planted fault: whoever was asked
    /\ At(r, "retire")
    /\ Delete(Unspent(req[r].doc) \ {req[r].session})
    /\ Answer(r, "pushed")
    /\ UNCHANGED <<documents, settings, age, push, lock>>

StartRetire(r) ==
    /\ At(r, "retire")
    /\ \/ Delete(AskedOf(req[r].doc, req[r].who) \ {req[r].session})
       \/ Faults /\ UNCHANGED row
    /\ Answer(r, "pushed")
    /\ UNCHANGED <<documents, settings, age, push, lock>>
-----------------------------------------------------------------------------
(* PollEIDSignature. *)
FoundAnywhere(r) == row[req[r].session] # "none"    \* planted fault

Found(r) == row[req[r].session] # "none" /\ push[req[r].session].doc = req[r].doc

PollFind(r) ==
    /\ At(r, "find")
    /\ LET s == req[r].session
       IN  CASE ~ Found(r)                          -> Answer(r, "unknown session")
             [] Found(r) /\ row[s] = "spent"        -> Answer(r, "COMPLETE")
             [] Found(r) /\ row[s] = "unspent" /\ age[s] > 0 -> Goto(r, "expire")
             [] Found(r) /\ row[s] = "unspent" /\ age[s] = 0 ->
                  req' = [req EXCEPT ![r].pc = "ask", ![r].who = push[s].to]
    /\ UNCHANGED <<tables, push, lock>>

(* Past its deadline: the row is deleted if it is unspent; if that deletes no
   row, the ceremony is taken to have produced its signature. *)
PollExpire(r) ==
    /\ At(r, "expire")
    /\ LET s == req[r].session
       IN  \/ row[s] = "unspent" /\ Delete({s}) /\ Answer(r, "EXPIRED")
           \/ row[s] # "unspent" /\ UNCHANGED row /\ Answer(r, "COMPLETE")
           \/ Faults /\ UNCHANGED row /\ Answer(r, "EXPIRED")
    /\ UNCHANGED <<documents, settings, age, push, lock>>

(* E-ID answers for the ceremony, or cannot be reached. *)
PollAsk(r) ==
    /\ At(r, "ask")
    /\ LET p == push[req[r].session]
       IN  \/ Answer(r, "unavailable")
           \/ p.state = "RUNNING" /\ Answer(r, "RUNNING")
           \/ p.state \in {"REFUSED", "EXPIRED"} /\ Goto(r, "drop")
           \/ p.state = "COMPLETE" /\ p.by # req[r].who /\ Answer(r, "rejected")
           \/ p.state = "COMPLETE" /\ p.by = req[r].who /\ Goto(r, "load")
    /\ UNCHANGED <<tables, push, lock>>

PollDrop(r) ==
    /\ At(r, "drop")
    /\ \/ Delete({req[r].session})
       \/ Faults /\ UNCHANGED row
    /\ Answer(r, push[req[r].session].state)
    /\ UNCHANGED <<documents, settings, age, push, lock>>

PollRecheckFound(r) ==      \* planted fault: the row is there, spent or not
    /\ At(r, "recheck")
    /\ Answer(r, IF Found(r) THEN "COMPLETE" ELSE "refused")
    /\ UNCHANGED <<tables, push, lock>>

(* refuse: did this session already produce a signature? *)
PollRecheck(r) ==
    /\ At(r, "recheck")
    /\ Answer(r, IF Found(r) /\ row[req[r].session] = "spent"
                 THEN "COMPLETE" ELSE "refused")
    /\ UNCHANGED <<tables, push, lock>>
-----------------------------------------------------------------------------
RecordLockShared(r) ==      \* planted fault: a read without FOR UPDATE
    /\ At(r, "lock")
    /\ req[r].op # "submit"
    /\ IF Pending(req[r].doc)
       THEN Goto(r, "record") /\ lock' = [lock EXCEPT ![req[r].doc] = r]
       ELSE Refuse(r, "not signable") /\ UNCHANGED lock
    /\ UNCHANGED <<tables, push>>

(* recordSignature: the transaction opens by locking the waiting document. *)
RecordLock(r) ==
    /\ At(r, "lock")
    /\ req[r].op # "submit"
    /\ lock[req[r].doc] = Nobody
    /\ IF Pending(req[r].doc)
       THEN Goto(r, "record") /\ lock' = [lock EXCEPT ![req[r].doc] = r]
       ELSE Refuse(r, "not signable") /\ UNCHANGED lock
    /\ UNCHANGED <<tables, push>>

(* Everything after the lock.  The position is read again; the signature goes
   into the ledger; the document is approved when that completes it; the session
   is spent, or nothing is written at all.  The commit can take effect and its
   confirmation be lost. *)
Redeemable(q) == q.op = "poll" => row[q.session] = "unspent"

Insert(q) ==
    \E k \in 1..(MaxChainSteps + Cardinality(sigs[q.doc]) + 1) :
        /\ RecordedOn(chain[q.doc], Bare(sigs[q.doc]), k)
        /\ sigs' = [sigs EXCEPT ![q.doc] = @ \cup
             {[step |-> k, signer |-> q.who,
               via  |-> IF q.op = "poll" THEN q.session ELSE "dan"]}]

Decide(d) ==
    status' = [status EXCEPT ![d] =
        IF Complete(chain[d], Bare(sigs'[d]), required[d]) THEN "APPROVED" ELSE @]

SpendLater(q) == row' = row     \* planted fault: not in this transaction

Spend(q) ==
    row' = IF q.op = "poll" THEN [row EXCEPT ![q.session] = "spent"] ELSE row

RecordSignature(r) ==
    /\ At(r, "record")
    /\ LET q == req[r]
           admitted == checkSigner(chain[q.doc], Bare(sigs[q.doc]), q.who)
           again    == q.who \in Signers(sigs[q.doc])
       IN  \/ /\ admitted /\ ~ again /\ Redeemable(q)
              /\ Insert(q) /\ Decide(q.doc) /\ Spend(q)
              /\ \/ Answer(r, "COMPLETE")
                 \/ Faults /\ Refuse(r, "commit unconfirmed")
           \/ /\ ~ admitted \/ again \/ ~ Redeemable(q)
              /\ Refuse(r, CASE ~ admitted           -> "rejected"
                             [] admitted /\ again    -> "already signed"
                             [] admitted /\ ~ again  -> "unknown session")
              /\ UNCHANGED <<sigs, status, row>>
    /\ lock' = [lock EXCEPT ![req[r].doc] = Nobody]
    /\ UNCHANGED <<chain, required, title, settings, age, push>>
-----------------------------------------------------------------------------
(* RenameDocument is one UPDATE, but its NOT EXISTS reads other rows, through
   the snapshot the statement began with.  When the row has been changed since,
   the row's own conditions are evaluated again and that subquery is not. *)
Renameable(d) == status[d] \in {"DRAFT", "PENDING_APPROVAL"}

RenameSnapshot(r) ==
    /\ At(r, "snapshot")
    /\ IF Renameable(req[r].doc) /\ sigs[req[r].doc] = {}
       THEN Goto(r, "apply") ELSE Answer(r, "title frozen")
    /\ UNCHANGED <<tables, push, lock>>

RenameApply(r) ==
    /\ At(r, "apply")
    /\ req[r].op = "rename"
    /\ lock[req[r].doc] = Nobody
    /\ IF Renameable(req[r].doc)
       THEN /\ title' = [title EXCEPT ![req[r].doc] = req[r].title]
            /\ Answer(r, "renamed")
       ELSE Answer(r, "title frozen") /\ UNCHANGED title
    /\ UNCHANGED <<status, chain, required, sigs, settings, sessions, lock>>

RejectApplyAnyway(r) ==     \* planted fault: the condition is not on the row
    /\ At(r, "apply")
    /\ req[r].op = "reject"
    /\ lock[req[r].doc] = Nobody
    /\ status' = [status EXCEPT ![req[r].doc] = "REJECTED"]
    /\ Answer(r, "REJECTED")
    /\ UNCHANGED <<chain, required, sigs, title, settings, sessions, lock>>

(* RejectDocument: an UPDATE whose condition is all on the row it changes. *)
RejectApply(r) ==
    /\ At(r, "apply")
    /\ req[r].op = "reject"
    /\ lock[req[r].doc] = Nobody
    /\ IF Pending(req[r].doc)
       THEN /\ status' = [status EXCEPT ![req[r].doc] = "REJECTED"]
            /\ Answer(r, "REJECTED")
       ELSE Answer(r, "not signable") /\ UNCHANGED status
    /\ UNCHANGED <<chain, required, sigs, title, settings, sessions, lock>>

(* CreateDocument and RouteDocument: insert or take the row, read the type's
   chain, and commit the copy with the new status. *)
SubmitLock(r) ==
    /\ At(r, "lock")
    /\ req[r].op = "submit"
    /\ lock[req[r].doc] = Nobody
    /\ IF status[req[r].doc] \in {"ABSENT", "DRAFT"}
       THEN /\ req' = [req EXCEPT ![r].pc = "commit",
                         ![r].copy = fillableChain(typeChain[TypeOf[req[r].doc]])]
            /\ lock' = [lock EXCEPT ![req[r].doc] = r]
       ELSE Answer(r, "not routable") /\ UNCHANGED lock
    /\ UNCHANGED <<tables, push>>

SubmitCommit(r) ==
    /\ At(r, "commit")
    /\ LET d == req[r].doc  ch == req[r].copy
       IN  /\ status' = [status EXCEPT ![d] = "PENDING_APPROVAL"]
           /\ chain' = [chain EXCEPT ![d] = ch]
           /\ required' = [required EXCEPT ![d] = AtLeastOne(Cardinality(DOMAIN ch))]
           /\ lock' = [lock EXCEPT ![d] = Nobody]
    /\ Answer(r, "PENDING_APPROVAL")
    /\ UNCHANGED <<sigs, title, settings, sessions>>

DieHoldingOn(r) ==          \* planted fault: the lock outlives its request
    /\ Faults
    /\ ~ At(r, "idle")
    /\ Answer(r, "error")
    /\ UNCHANGED <<tables, push, lock>>

(* A statement fails, a deadline passes or the server stops: an open
   transaction is rolled back, and nothing the request was still to do happens. *)
Die(r) ==
    /\ Faults
    /\ ~ At(r, "idle")
    /\ Answer(r, "error")
    /\ lock' = [d \in Docs |-> IF lock[d] = r THEN Nobody ELSE lock[d]]
    /\ UNCHANGED <<tables, push>>
-----------------------------------------------------------------------------
(* Administrators, each save one transaction (ChainConfig has its statements). *)
SaveSignaturePolicy(t, allowed) ==
    /\ policy' = [policy EXCEPT ![t] = allowed]
    /\ UNCHANGED <<documents, typeChain, sessions, lock, req>>

ReplaceWorkflow(t, ch) ==
    /\ typeChain' = [typeChain EXCEPT ![t] = ch]
    /\ UNCHANGED <<documents, policy, sessions, lock, req>>

(* The citizen answers on their device - or whoever holds it - or lets the
   request lapse.  E-ID does not take an answer back. *)
Respond(s, p) ==
    /\ push[s].state = "RUNNING"
    /\ push' = [push EXCEPT ![s] = p]
    /\ UNCHANGED <<tables, lock, req>>

Approvals(s) == {[push[s] EXCEPT !.state = "COMPLETE", !.by = c] : c \in Citizens}
Refusals(s)  == {[push[s] EXCEPT !.state = x] : x \in {"REFUSED", "EXPIRED"}}

(* Time passes over an unspent session. *)
Elapse(s) ==
    /\ row[s] = "unspent"
    /\ age[s] < MaxAge
    /\ age' = [age EXCEPT ![s] = @ + 1]
    /\ UNCHANGED <<documents, settings, row, push, lock, req>>

Step(r) ==
    \/ PreflightDocument(r) \/ PreflightPolicy(r) \/ PreflightPosition(r)
    \/ AuthenticateDAN(r) \/ AlreadySigned(r)
    \/ StartTitle(r) \/ StartSweep(r) \/ StartPush(r) \/ StartPair(r) \/ StartRetire(r)
    \/ PollFind(r) \/ PollExpire(r) \/ PollAsk(r) \/ PollDrop(r) \/ PollRecheck(r)
    \/ RecordLock(r) \/ RecordSignature(r)
    \/ RenameSnapshot(r) \/ RenameApply(r) \/ RejectApply(r)
    \/ SubmitLock(r) \/ SubmitCommit(r)

Call(r) == \E op \in Operations, d \in Docs : \E x \in Arguments(op) : Begin(r, op, d, x)

Configure ==
    \E t \in DocTypes :
        \/ \E allowed \in EditedPolicies : SaveSignaturePolicy(t, allowed)
        \/ \E ch \in EditedChains : ReplaceWorkflow(t, ch)

Environment ==
    \E s \in SessionIds :
        \/ push[s].state = "RUNNING" /\ \E p \in Approvals(s) \cup Refusals(s) : Respond(s, p)
        \/ Elapse(s)

Next ==
    \/ \E r \in Requests : Call(r) \/ Step(r) \/ Die(r)
    \/ Configure
    \/ Environment

Spec == Init /\ [][Next]_vars

(* Every request is run on: a call to a provider or to the database returns or
   is cut off by its deadline (Die).  Requests waiting for a row lock are queued
   by the database, so one that is granted again and again reaches each of
   them. *)
FairSpec ==
    /\ Spec
    /\ \A r \in Requests :
         /\ WF_vars(Step(r))
         /\ SF_vars(RecordLock(r) \/ RenameApply(r) \/ RejectApply(r) \/ SubmitLock(r))
-----------------------------------------------------------------------------
(* Whatever the interleaving, the documents, their chains and their ledgers do
   only what the atomic operations of DocumentLedger could have done. *)
Implements == Ledger!Spec

(* A session is spent exactly when one signature, on the document it was
   started for, was made with it: recordSignature spends it in the transaction
   that records the signature, polls of one session may overlap, and the rows of
   other askings are deleted meanwhile. *)
SpentIffSigned ==
    \A s \in SessionIds :
        LET made == {m \in Docs \X UNION {sigs[d] : d \in Docs} :
                        m[2] \in sigs[m[1]] /\ m[2].via = s}
        IN  /\ Cardinality(made) <= 1
            /\ made # {} <=> row[s] = "spent"
            /\ \A m \in made : push[s].doc = m[1]

(* An E-ID signature rests on an approval that was asked of its signer, for this
   document, and that its signer gave.  A poll names any document and any
   session, and what it read is minutes old when the signature is recorded. *)
SignatureRestsOnApproval ==
    \A d \in Docs : \A g \in sigs[d] : g.via \in SessionIds =>
        /\ push[g.via].state = "COMPLETE"
        /\ push[g.via].doc = d
        /\ push[g.via].to = g.signer
        /\ push[g.via].by = g.signer

(* A poll that answers COMPLETE has a signature to show for it: one made with
   its session, on its document.  Two polls of one session, a rejection and
   another citizen's signature can overlap in any order.  (For a session within
   its deadline: see CompleteMeansSigned below.) *)
CompleteInTimeMeansSigned ==
    \A r \in Requests :
        req[r].answer = "COMPLETE" /\ age[req[r].session] = 0 =>
            \E g \in sigs[req[r].doc] : g.via = req[r].session

(* The pairing of a session with its document outlives the ceremony unless
   somebody ended it: its deadline passed, the citizen refused, E-ID let it
   lapse, or the same citizen was asked again for the same document. *)
PairingKept ==
    [][\A s \in SessionIds : row[s] = "unspent" /\ row'[s] = "none" =>
        \/ age[s] > 0
        \/ push[s].state \in {"REFUSED", "EXPIRED"}
        \/ \E x \in SessionIds \ {s} :
             push[x].state # "unused" /\ push[x].doc = push[s].doc /\ push[x].to = push[s].to
      ]_vars

(* What a document waits for is pinned when it starts waiting, and a decision
   is the end: no request that read the document earlier may still change it. *)
DecisionStands ==
    [][\A d \in Docs :
        /\ status[d] \notin {"ABSENT", "DRAFT"} =>
             /\ chain'[d] = chain[d] /\ required'[d] = required[d]
             /\ sigs[d] \subseteq sigs'[d]
        /\ status[d] \in {"APPROVED", "REJECTED"} =>
             status'[d] = status[d] /\ sigs'[d] = sigs[d] /\ title'[d] = title[d]
      ]_vars

(* A call that has begun returns: no request waits for ever for a document that
   another one locked, or left locked when it died. *)
EveryCallReturns == \A r \in Requests : ~ At(r, "idle") ~> At(r, "idle")
-----------------------------------------------------------------------------
(* RenameDocument: "The guard is in the statement, not around it. Reading 'has
   anybody signed?' and then updating would leave room for a signature to land in
   between, which is exactly the case that must not be renameable." *)
TitleFrozenOnceSigned ==
    [][\A d \in Docs : sigs[d] # {} => title'[d] = title[d]]_vars

(* PollEIDSignature, on the expired row it asks to delete: "So the delete asks
   for the row it means: unspent. If it finds none, the ceremony happened, and the
   answer is what it produced." *)
CompleteMeansSigned ==
    \A r \in Requests :
        req[r].answer = "COMPLETE" =>
            \E g \in sigs[req[r].doc] : g.via = req[r].session

(* StartEIDSignature: "a citizen must never be able to approve something nothing
   can attach their signature to".  When nothing is in flight, a citizen still
   holding a prompt for a waiting document holds a redeemable one. *)
PromptRedeemable ==
    \A s \in SessionIds :
        /\ push[s].state = "RUNNING"
        /\ Pending(push[s].doc)
        /\ \A r \in Requests : At(r, "idle")
        => AskedOf(push[s].doc, push[s].to) # {}
=============================================================================
