--------------------------- MODULE SigningProofs ---------------------------
(****************************************************************************)
(* Proofs about Signing, for any number of documents, requests and          *)
(* ceremonies and whatever chains are configured:                           *)
(*                                                                          *)
(*   Invariance                 the inductive invariant IInv;               *)
(*   TypesHold, SignaturesRestOnApprovals, SpentMeansSigned,                *)
(*   CompleteMeansItWasSigned   the invariants the runs check;              *)
(*   PairingsAreKept, DecisionsStand   what a step may never do;            *)
(*   SigningImplementsLedger    Signing implements DocumentLedger, and      *)
(*   LedgerPromisesHold         what that carries over.                     *)
(*                                                                          *)
(* The argument of IInv is that a request carries what it was told.         *)
(* Between two of its statements any other request may run, so what it read *)
(* is true later only if nobody can undo it: the answer of E-ID is final,   *)
(* the document and citizen of a session never change, a ledger only grows  *)
(* and a session only gets older (Grown).  What others can undo is guarded  *)
(* by the row lock (LocksHeld) or by a key nobody else has (PairsFresh).    *)
(****************************************************************************)
EXTENDS Signing, ApprovalChainProofs

(* The ledger's theorems, of the ledger Signing refines. *)
LP == INSTANCE DocumentLedgerProofs
        WITH sigs <- [d \in Docs |-> Bare(sigs[d])], copy <- Copied, NoCopy <- Nobody

(* The calls of the service. *)
Ops == {"dan", "start", "poll", "rename", "reject", "submit"}

(* The program counters each call goes through. *)
CountersOf(op) ==
    CASE op = "dan"    -> {"load", "policy", "position", "gateway", "signed", "lock", "record"}
      [] op = "start"  -> {"load", "policy", "position", "signed", "title", "sweep", "push",
                           "pair", "retire"}
      [] op = "poll"   -> {"find", "expire", "ask", "drop", "recheck",
                           "load", "policy", "position", "lock", "record"}
      [] op = "rename" -> {"snapshot", "apply"}
      [] op = "reject" -> {"apply"}
      [] op = "submit" -> {"lock", "commit"}

(* What is remembered of a request. *)
RequestRecords ==
    [pc : Counters, op : Ops \cup {Nobody}, doc : Docs \cup {Nobody},
     who : Citizens \cup {Nobody}, session : SessionIds \cup {Nobody},
     admitted : BOOLEAN, title : Titles \cup {Nobody}, copy : Chains,
     answer : {"", "COMPLETE"}]

(* An answer COMPLETE, while the session is within its deadline. *)
Backed(q, ag, sg) ==
    q.answer = "COMPLETE" =>
        /\ q.doc \in Docs /\ q.session \in SessionIds
        /\ ag[q.session] = 0 => \E g \in sg[q.doc] : g.via = q.session

(* What a request that does not poll knows where it stands. *)
Holds(q, ps) ==
    /\ q.op \in {"dan", "start"} => q.who \in Citizens
    /\ q.op = "rename" \/ q.pc \in {"sweep", "push"} => q.title \in Titles
    /\ q.pc \in {"pair", "retire"} =>
         /\ q.session \in SessionIds /\ ps[q.session].state # "unused"
         /\ ps[q.session].doc = q.doc /\ ps[q.session].to = q.who

(* What a poll knows of its session where it stands. *)
Approved == {"load", "policy", "position", "lock", "record"}

(* What a poll knows: its session was asked of its citizen for its document, and
   once it writes a signature E-ID has said that this citizen approved. *)
Polls(q, ps, ag) ==
    /\ q.session \in SessionIds /\ ps[q.session].state # "unused"
    /\ q.pc = "expire" => ag[q.session] # 0
    /\ q.pc \in Approved \cup {"ask", "drop"} =>
         /\ ps[q.session].doc = q.doc /\ ps[q.session].to = q.who /\ q.who \in Citizens
    /\ q.pc = "drop" => ps[q.session].state \in {"REFUSED", "EXPIRED"}
    /\ q.pc \in Approved => ps[q.session].state = "COMPLETE" /\ ps[q.session].by = q.who

(* A request under way. *)
Busy(q, ps, ag) ==
    /\ q.answer = "" /\ q.doc \in Docs /\ q.op \in Ops /\ q.pc \in CountersOf(q.op)
    /\ Holds(q, ps)
    /\ q.op = "poll" => Polls(q, ps, ag)

(* A request, under way or answered, knows only what is so. *)
Good(q, ps, ag, sg) ==
    /\ q \in RequestRecords
    /\ q.pc = "idle" => Backed(q, ag, sg)
    /\ q.pc # "idle" => Busy(q, ps, ag)

(* How the world changes under a request that waits. *)
Grown(ps, ps2, ag, ag2, sg, sg2) ==
    /\ \A s \in SessionIds :
         /\ ps[s].state # "unused" =>
              ps2[s].state # "unused" /\ ps2[s].doc = ps[s].doc /\ ps2[s].to = ps[s].to
         /\ ps[s].state \in {"COMPLETE", "REFUSED", "EXPIRED"} => ps2[s] = ps[s]
         /\ ag2[s] = 0 => ag[s] = 0
    /\ \A d \in Docs : sg[d] \subseteq sg2[d]
-----------------------------------------------------------------------------
(* What a request knows stays so while the world grows. *)
LEMMA StaysGood ==
  ASSUME NEW q, NEW ps, NEW ps2, NEW ag, NEW ag2, NEW sg, NEW sg2,
         Good(q, ps, ag, sg), Grown(ps, ps2, ag, ag2, sg, sg2)
  PROVE  Good(q, ps2, ag2, sg2)
<1>1. Backed(q, ag, sg) => Backed(q, ag2, sg2)
  BY DEF Grown, Backed
<1>2. Holds(q, ps) => Holds(q, ps2)
  BY DEF Grown, Holds
<1>3. Polls(q, ps, ag) => Polls(q, ps2, ag2)
  BY DEF Grown, Polls, Approved
<1> QED
  BY <1>1, <1>2, <1>3 DEF Good, Busy

(* A request that has answered. *)
LEMMA IdleIsARecord ==
  /\ Idle \in RequestRecords
  /\ Idle.pc = "idle" /\ Idle.answer = ""
<1>1. Ledger!NoChain \in Chains
  <2>1. [k \in {} |-> Open] \in [{} -> Citizens \cup {Open}]
    OBVIOUS
  <2> QED
    BY <2>1 DEF Ledger!NoChain, Chains
<1> QED
  BY <1>1 DEF Idle, RequestRecords, Counters, Ops

(* A request moved to another counter. *)
LEMMA MovedRecord ==
  ASSUME NEW q \in RequestRecords, NEW pc \in Counters, NEW p, p = [q EXCEPT !.pc = pc]
  PROVE  /\ p \in RequestRecords
         /\ p.pc = pc /\ p.op = q.op /\ p.doc = q.doc /\ p.who = q.who
         /\ p.session = q.session /\ p.title = q.title /\ p.answer = q.answer
         /\ p.copy = q.copy /\ p.admitted = q.admitted
  BY DEF RequestRecords

(* A request answered. *)
Answered(q, a) ==
    IF q.op = "poll" /\ a = "COMPLETE"
    THEN [Idle EXCEPT !.doc = q.doc, !.session = q.session, !.answer = a]
    ELSE Idle

(* Only a poll is remembered to have said COMPLETE. *)
LEMMA AnsweredRecord ==
  ASSUME NEW q \in RequestRecords, NEW a, NEW p, p = Answered(q, a)
  PROVE  /\ p \in RequestRecords
         /\ p.pc = "idle"
         /\ p.answer = "COMPLETE" => q.op = "poll" /\ a = "COMPLETE" /\ p.doc = q.doc /\ p.session = q.session
<1>1. CASE q.op = "poll" /\ a = "COMPLETE"
  <2>1. p = [Idle EXCEPT !.doc = q.doc, !.session = q.session, !.answer = "COMPLETE"]
    BY <1>1 DEF Answered
  <2>2. q.doc \in Docs \cup {Nobody} /\ q.session \in SessionIds \cup {Nobody}
    BY DEF RequestRecords
  <2> HIDE DEF Idle
  <2>3. /\ p \in RequestRecords /\ p.pc = Idle.pc /\ p.doc = q.doc /\ p.session = q.session
    BY <2>1, <2>2, IdleIsARecord DEF RequestRecords
  <2> QED
    BY <1>1, <2>3, IdleIsARecord
<1>2. CASE ~(q.op = "poll" /\ a = "COMPLETE")
  BY <1>2, IdleIsARecord DEF Answered
<1> QED
  BY <1>1, <1>2

(* A poll may say COMPLETE when its session has signed the document, or is late. *)
LEMMA AnsweredGood ==
  ASSUME NEW q, NEW ps, NEW ag, NEW sg, Good(q, ps, ag, sg), q.pc # "idle", NEW a,
         q.op = "poll" /\ a = "COMPLETE" /\ ag[q.session] = 0 =>
           \E g \in sg[q.doc] : g.via = q.session
  PROVE  Good(Answered(q, a), ps, ag, sg)
<1> DEFINE p == Answered(q, a)
<1> HIDE DEF p
<1>1. q \in RequestRecords /\ Busy(q, ps, ag)
  BY DEF Good
<1>2. /\ p \in RequestRecords /\ p.pc = "idle"
      /\ p.answer = "COMPLETE" => q.op = "poll" /\ a = "COMPLETE" /\ p.doc = q.doc /\ p.session = q.session
  BY <1>1, AnsweredRecord DEF p
<1>3. Backed(p, ag, sg)
  BY <1>1, <1>2 DEF Backed, Busy, Polls
<1>4. Good(p, ps, ag, sg)
  BY <1>2, <1>3 DEF Good
<1> QED
  BY <1>4 DEF p
-----------------------------------------------------------------------------
(* A signature in the ledger, with the channel it came through. *)
LedgerSignatures == [step : Nat, signer : Citizens, via : Via]

(* The tables hold what their columns can hold. *)
TablesOK ==
    /\ status \in [Docs -> Ledger!Statuses]
    /\ chain \in [Docs -> Chains]
    /\ required \in [Docs -> Nat]
    /\ sigs \in [Docs -> SUBSET LedgerSignatures]
    /\ \A d \in Docs : IsFiniteSet(sigs[d])
    /\ typeChain \in [DocTypes -> StoredChains]
    /\ title \in [Docs -> Titles]
    /\ policy \in [DocTypes -> (SUBSET Methods) \ {{}}]
    /\ row \in [SessionIds -> {"none", "unspent", "spent"}]
    /\ age \in [SessionIds -> 0..MaxAge]
    /\ push \in [SessionIds -> Push]

(* A citizen has one signature on a document. *)
SignersOnce == \A d \in Docs : \A g, h \in sigs[d] : g.signer = h.signer => g = h

(* A row says what became of its session. *)
RowsTrue ==
    /\ \A d \in Docs : \A g \in sigs[d] : g.via \in SessionIds => row[g.via] = "spent"
    /\ \A s \in SessionIds :
         /\ row[s] = "spent" =>
              push[s].doc \in Docs /\ \E g \in sigs[push[s].doc] : g.via = s
         /\ row[s] # "none" => push[s].state # "unused"

(* Every request knows only what is so. *)
RequestsGood ==
    /\ req \in [Requests -> RequestRecords]
    /\ \A r \in Requests : Good(req[r], push, age, sigs)

(* A pairing about to be inserted is of a session that has no row and that no
   other request inserts: each push has a session of its own. *)
PairsFresh ==
    \A r \in Requests : req[r].pc = "pair" =>
        /\ row[req[r].session] = "none"
        /\ \A x \in Requests \ {r} : req[x].pc = "pair" => req[x].session # req[r].session

(* The counters at which a request holds a row lock. *)
Holding == {"record", "commit"}

(* A row lock is held by the request that took it, for the document it took it
   for, and what that request saw of the status under the lock is still so. *)
LocksHeld ==
    /\ lock \in [Docs -> Requests \cup {Nobody}]
    /\ \A d \in Docs : lock[d] # Nobody => req[lock[d]].doc = d /\ req[lock[d]].pc \in Holding
    /\ \A r \in Requests : req[r].pc \in Holding =>
         /\ lock[req[r].doc] = r
         /\ req[r].pc = "record" => Pending(req[r].doc)
         /\ req[r].pc = "commit" => status[req[r].doc] \in {"ABSENT", "DRAFT"}

(* The inductive invariant. *)
IInv ==
    /\ TablesOK
    /\ SignersOnce
    /\ SignatureRestsOnApproval
    /\ RowsTrue
    /\ RequestsGood
    /\ PairsFresh
    /\ LocksHeld
-----------------------------------------------------------------------------
(* What the invariant says of one request. *)
LEMMA RequestTyped ==
  ASSUME IInv, NEW r \in Requests
  PROVE  /\ req[r] \in RequestRecords
         /\ Good(req[r], push, age, sigs)
         /\ req[r].pc # "idle" => Busy(req[r], push, age)
  BY DEF IInv, RequestsGood, Good

(* Moving to another counter changes nothing else of a request. *)
LEMMA GotoIs ==
  ASSUME IInv, NEW r \in Requests, NEW pc \in Counters, Goto(r, pc)
  PROVE  \E q \in RequestRecords :
           /\ req' = [req EXCEPT ![r] = q]
           /\ q.pc = pc /\ q.op = req[r].op /\ q.doc = req[r].doc /\ q.who = req[r].who
           /\ q.session = req[r].session /\ q.title = req[r].title /\ q.answer = req[r].answer
<1> DEFINE q == [req[r] EXCEPT !.pc = pc]
<1>1. req' = [req EXCEPT ![r] = q]
  BY DEF Goto
<1>2. req[r] \in RequestRecords
  BY RequestTyped
<1> HIDE DEF q
<1>3. /\ q \in RequestRecords
      /\ q.pc = pc /\ q.op = req[r].op /\ q.doc = req[r].doc /\ q.who = req[r].who
      /\ q.session = req[r].session /\ q.title = req[r].title /\ q.answer = req[r].answer
  BY <1>2, MovedRecord DEF q
<1> QED
  BY <1>1, <1>3

(* Answering ends the call. *)
LEMMA AnswerIs ==
  ASSUME NEW r, NEW a, Answer(r, a)
  PROVE  req' = [req EXCEPT ![r] = Answered(req[r], a)]
  BY DEF Answer, Answered

(* A row deleted, a session aged, a signature added: a request that waits has what it had. *)
LEMMA NothingGrown ==
  ASSUME UNCHANGED <<age, push, sigs>>
  PROVE  Grown(push, push', age, age', sigs, sigs')
  BY DEF Grown

(* One request moves. *)
LEMMA OneMoves ==
  ASSUME IInv, NEW r \in Requests, NEW q, req' = [req EXCEPT ![r] = q],
         Good(q, push', age', sigs'),
         Grown(push, push', age, age', sigs, sigs')
  PROVE  /\ RequestsGood'
         /\ req'[r] = q
         /\ \A x \in Requests \ {r} : req'[x] = req[x]
<1>1. q \in RequestRecords
  BY DEF Good
<1>2. req \in [Requests -> RequestRecords]
  BY DEF IInv, RequestsGood
<1>3. req' \in [Requests -> RequestRecords] /\ req'[r] = q
  BY <1>1, <1>2
<1>4. \A x \in Requests \ {r} : req'[x] = req[x]
  BY <1>2
<1>5. ASSUME NEW x \in Requests PROVE Good(req'[x], push', age', sigs')
  <2>1. CASE x = r
    BY <2>1, <1>3
  <2>2. CASE x # r
    BY <2>2, <1>4, StaysGood, RequestTyped
  <2> QED
    BY <2>1, <2>2
<1> QED
  BY <1>3, <1>4, <1>5 DEF RequestsGood

(* A request that neither pairs nor holds a lock moves, or rows that no
   signature was made with are deleted with it: nothing else needs saying. *)
LEMMA QuietMoves ==
  ASSUME IInv, NEW r \in Requests, NEW q, req' = [req EXCEPT ![r] = q],
         Good(q, push, age, sigs), q.pc \notin Holding \cup {"pair"}, req[r].pc \notin Holding,
         UNCHANGED <<status, chain, required, sigs, typeChain, title, policy, age, push, lock>>,
         NEW S, Delete(S), \A s \in S \cap SessionIds : row[s] # "spent"
  PROVE  IInv'
<1>1. Grown(push, push', age, age', sigs, sigs')
  BY NothingGrown
<1>2. /\ RequestsGood'
      /\ req'[r] = q
      /\ \A x \in Requests \ {r} : req'[x] = req[x]
  BY <1>1, OneMoves
<1>3. /\ row' \in [SessionIds -> {"none", "unspent", "spent"}]
      /\ \A s \in SessionIds : /\ row[s] = "spent" <=> row'[s] = "spent"
                               /\ row'[s] # "none" => row'[s] = row[s]
  BY DEF IInv, TablesOK, Delete
<1>4. TablesOK'
  BY <1>3 DEF IInv, TablesOK
<1>5. SignersOnce' /\ SignatureRestsOnApproval'
  BY DEF IInv, SignersOnce, SignatureRestsOnApproval
<1>6. RowsTrue'
  BY <1>3 DEF IInv, RowsTrue
<1>7. PairsFresh'
  <2> SUFFICES ASSUME NEW x \in Requests, req'[x].pc = "pair"
               PROVE  /\ row'[req'[x].session] = "none"
                      /\ \A y \in Requests \ {x} : req'[y].pc = "pair" => req'[y].session # req'[x].session
    BY DEF PairsFresh
  <2>1. x # r /\ req'[x] = req[x]
    BY <1>2
  <2>2. req[x].session \in SessionIds
    BY <2>1, RequestTyped DEF Busy, Holds
  <2>3. row'[req[x].session] = "none"
    BY <1>3, <2>1, <2>2 DEF IInv, PairsFresh
  <2> QED
    BY <1>2, <2>1, <2>3 DEF IInv, PairsFresh
<1>8. LocksHeld'
  BY <1>2 DEF IInv, LocksHeld, Pending, Holding
<1> QED
  BY <1>2, <1>4, <1>5, <1>6, <1>7, <1>8 DEF IInv

(* A step that touches no table, no lock and no pairing. *)
LEMMA QuietStep ==
  ASSUME IInv, NEW r \in Requests, NEW q, req' = [req EXCEPT ![r] = q],
         Good(q, push, age, sigs), q.pc \notin Holding \cup {"pair"}, req[r].pc \notin Holding,
         UNCHANGED <<tables, push, lock>>
  PROVE  IInv'
<1>1. Delete({})
  BY DEF IInv, TablesOK, Delete, tables
<1> QED
  BY <1>1, QuietMoves DEF tables

(* Whether an answer COMPLETE is one the request may give. *)
MayAnswer(q, a) ==
    q.op = "poll" /\ a = "COMPLETE" /\ age[q.session] = 0 =>
        \E g \in sigs[q.doc] : g.via = q.session

(* Answering, with no lock held, touches nothing else. *)
LEMMA QuietAnswer ==
  ASSUME IInv, NEW r \in Requests, ~At(r, "idle"), req[r].pc \notin Holding,
         NEW a, MayAnswer(req[r], a), Answer(r, a),
         UNCHANGED <<tables, push, lock>>
  PROVE  IInv'
<1>1. /\ Good(req[r], push, age, sigs) /\ req[r] \in RequestRecords
      /\ req[r].pc # "idle"
  BY RequestTyped DEF At
<1>2. Good(Answered(req[r], a), push, age, sigs)
  BY <1>1, AnsweredGood DEF MayAnswer
<1>3. Answered(req[r], a).pc = "idle"
  BY <1>1, AnsweredRecord
<1> QED
  BY <1>2, <1>3, AnswerIs, QuietStep DEF Holding

(* Refusing, with no lock held: a poll turns to its session again. *)
LEMMA QuietRefuse ==
  ASSUME IInv, NEW r \in Requests, req[r].pc \notin Holding \cup {"idle"},
         NEW a, a # "COMPLETE", Refuse(r, a),
         UNCHANGED <<tables, push, lock>>
  PROVE  IInv'
<1>1. CASE req[r].op = "poll"
  <2>1. Goto(r, "recheck") /\ "recheck" \in Counters
    BY <1>1 DEF Refuse, Counters
  <2>2. PICK q \in RequestRecords :
           /\ req' = [req EXCEPT ![r] = q]
           /\ q.pc = "recheck" /\ q.op = req[r].op /\ q.doc = req[r].doc /\ q.who = req[r].who
           /\ q.session = req[r].session /\ q.title = req[r].title /\ q.answer = req[r].answer
    BY <2>1, GotoIs
  <2>3. Busy(req[r], push, age)
    BY RequestTyped
  <2>4. Good(q, push, age, sigs)
    BY <1>1, <2>2, <2>3 DEF Good, Busy, Holds, Polls, Approved, CountersOf
  <2> QED
    BY <2>2, <2>4, QuietStep DEF Holding
<1>2. CASE req[r].op # "poll"
  BY <1>2, QuietAnswer DEF Refuse, MayAnswer, At
<1> QED
  BY <1>1, <1>2

(* Every call starts knowing what its arguments say. *)
LEMMA BeginIs ==
  ASSUME NEW r \in Requests, Call(r)
  PROVE  \E q \in RequestRecords :
           /\ req' = [req EXCEPT ![r] = q] /\ req[r].pc = "idle"
           /\ q.pc \in {"load", "find", "snapshot", "apply", "lock"}
           /\ Good(q, push, age, sigs)
           /\ UNCHANGED <<tables, push, lock>>
<1>1. PICK op \in Operations, d \in Docs : \E x \in Arguments(op) : Begin(r, op, d, x)
  BY DEF Call
<1>2. PICK x \in Arguments(op) : Begin(r, op, d, x)
  BY <1>1
<1> DEFINE q == CASE op \in {"dan", "start"} -> [Idle EXCEPT !.pc = "load", !.op = op, !.doc = d, !.who = x]
                  [] op = "poll"   -> [Idle EXCEPT !.pc = "find", !.op = op, !.doc = d, !.session = x]
                  [] op = "rename" -> [Idle EXCEPT !.pc = "snapshot", !.op = op, !.doc = d, !.title = x]
                  [] op = "reject" -> [Idle EXCEPT !.pc = "apply", !.op = op, !.doc = d]
                  [] op = "submit" -> [Idle EXCEPT !.pc = "lock", !.op = op, !.doc = d]
<1>3. req' = [req EXCEPT ![r] = q] /\ req[r].pc = "idle" /\ UNCHANGED <<tables, push, lock>>
  BY <1>2 DEF Begin, At
<1>4. op \in Ops
  BY SigningAssumption DEF Ops
<1>5. /\ q \in RequestRecords /\ q.answer = "" /\ q.op = op /\ q.doc = d
      /\ op \in {"dan", "start"} => q.pc = "load" /\ q.who = x
      /\ op = "poll" => q.pc = "find" /\ q.session = x
      /\ op = "rename" => q.pc = "snapshot" /\ q.title = x
      /\ op = "reject" => q.pc = "apply"
      /\ op = "submit" => q.pc = "lock"
  <2> HIDE DEF Idle
  <2>1. CASE op \in {"dan", "start"}
    BY <1>4, <2>1, IdleIsARecord DEF Arguments, RequestRecords, Counters
  <2>2. CASE op = "poll"
    BY <1>4, <2>2, IdleIsARecord DEF Arguments, RequestRecords, Counters
  <2>3. CASE op = "rename"
    BY <1>4, <2>3, IdleIsARecord DEF Arguments, RequestRecords, Counters
  <2>4. CASE op = "reject"
    BY <1>4, <2>4, IdleIsARecord DEF Arguments, RequestRecords, Counters
  <2>5. CASE op = "submit"
    BY <1>4, <2>5, IdleIsARecord DEF Arguments, RequestRecords, Counters
  <2> QED
    BY <1>4, <2>1, <2>2, <2>3, <2>4, <2>5 DEF Ops
<1> HIDE DEF q
<1>6. q.pc \in CountersOf(op) /\ q.pc \in {"load", "find", "snapshot", "apply", "lock"}
  BY <1>4, <1>5 DEF Ops, CountersOf
<1>7. /\ op \in {"dan", "start"} => x \in Citizens
      /\ op = "rename" => x \in Titles
      /\ op = "poll" => x \in SessionIds /\ push[x].state # "unused"
  BY DEF Arguments
<1>8. Good(q, push, age, sigs)
  <2>1. Holds(q, push) /\ (op = "poll" => Polls(q, push, age))
    BY <1>4, <1>5, <1>7 DEF Holds, Polls, Ops, Approved
  <2> QED
    BY <1>4, <1>5, <1>6, <2>1 DEF Good, Busy
<1> QED
  BY <1>3, <1>5, <1>6, <1>8

(* Making a call. *)
LEMMA BeginKeeps ==
  ASSUME IInv, NEW r \in Requests, Call(r)
  PROVE  IInv'
  BY BeginIs, QuietStep DEF Holding

(* The reads before a signature. *)
LEMMA PreflightKeeps ==
  ASSUME IInv, NEW r \in Requests,
         PreflightDocument(r) \/ PreflightPolicy(r) \/ PreflightPosition(r)
           \/ AuthenticateDAN(r) \/ AlreadySigned(r) \/ StartTitle(r)
  PROVE  IInv'
<1> DEFINE q0 == req[r]
<1>1. /\ UNCHANGED <<tables, push, lock>>
      /\ q0.pc \in {"load", "policy", "position", "gateway", "signed", "title"}
  BY DEF PreflightDocument, PreflightPolicy, PreflightPosition, AuthenticateDAN,
         AlreadySigned, StartTitle, At
<1>2. q0 \in RequestRecords /\ Busy(q0, push, age)
  BY <1>1, RequestTyped
<1>3. ASSUME NEW pc \in {"policy", "position", "gateway", "signed", "lock", "title", "sweep"},
             NEW q, req' = [req EXCEPT ![r] = q], q \in RequestRecords,
             q.pc = pc, q.op = q0.op, q.doc = q0.doc, q.who = q0.who,
             q.session = q0.session, q.answer = q0.answer,
             q.op = "rename" \/ pc = "sweep" => q.title \in Titles,
             pc \in CountersOf(q0.op), q0.op = "poll" => q0.pc \in Approved
      PROVE  IInv'
  <2>1. Good(q, push, age, sigs)
    BY <1>2, <1>3 DEF Good, Busy, Holds, Polls, Approved, CountersOf
  <2> QED
    BY <1>1, <1>3, <2>1, QuietStep DEF Holding
<1>4. q0.op \in {"dan", "start", "poll"} /\ (q0.op = "poll" => q0.pc \in Approved)
  BY <1>1, <1>2 DEF Busy, Ops, CountersOf, Approved
<1>5. ASSUME NEW pc \in {"policy", "position", "gateway", "signed", "lock", "title"},
             pc \in CountersOf(q0.op), Goto(r, pc)
      PROVE  IInv'
  <2>1. pc \in Counters
    BY <1>5 DEF Counters
  <2>2. PICK q \in RequestRecords :
           /\ req' = [req EXCEPT ![r] = q]
           /\ q.pc = pc /\ q.op = q0.op /\ q.doc = q0.doc /\ q.who = q0.who
           /\ q.session = q0.session /\ q.title = q0.title /\ q.answer = q0.answer
    BY <1>5, <2>1, GotoIs
  <2> QED
    BY <1>3, <1>4, <1>5, <2>2
<1>6. ASSUME NEW a, a # "COMPLETE", Refuse(r, a) \/ Answer(r, a) PROVE IInv'
  BY <1>1, <1>6, QuietRefuse, QuietAnswer DEF Holding, MayAnswer, At
<1>7. CASE PreflightDocument(r)
  <2>1. "policy" \in CountersOf(q0.op)
    BY <1>4 DEF CountersOf
  <2> QED
    BY <1>5, <1>6, <1>7, <2>1 DEF PreflightDocument
<1>8. CASE PreflightPolicy(r)
  <2>1. "position" \in CountersOf(q0.op)
    BY <1>4 DEF CountersOf
  <2> QED
    BY <1>5, <1>6, <1>8, <2>1 DEF PreflightPolicy
<1>9. CASE PreflightPosition(r)
  <2>1. CASE q0.op = "dan"
    <3>1. PICK b : req' = [req EXCEPT ![r].pc = "gateway", ![r].admitted = b] /\ b \in BOOLEAN
      BY <1>9, <2>1 DEF PreflightPosition, checkSigner
    <3> DEFINE q == [q0 EXCEPT !.pc = "gateway", !.admitted = b]
    <3>2. req' = [req EXCEPT ![r] = q]
      BY <3>1
    <3>3. /\ q \in RequestRecords /\ q.pc = "gateway" /\ q.op = q0.op /\ q.doc = q0.doc
          /\ q.who = q0.who /\ q.session = q0.session /\ q.answer = q0.answer
      BY <1>2, <3>1 DEF RequestRecords, Counters
    <3>4. "gateway" \in CountersOf(q0.op)
      BY <2>1 DEF CountersOf
    <3> HIDE DEF q
    <3> QED
      BY <1>3, <1>4, <2>1, <3>2, <3>3, <3>4
  <2>2. CASE q0.op # "dan" /\ \E a : a # "COMPLETE" /\ Refuse(r, a)
    BY <1>6, <2>2
  <2>3. CASE q0.op = "start" /\ Goto(r, "signed")
    BY <1>5, <2>3 DEF CountersOf
  <2>4. CASE q0.op = "poll" /\ Goto(r, "lock")
    BY <1>5, <2>4 DEF CountersOf
  <2> QED
    BY <1>4, <1>9, <2>1, <2>2, <2>3, <2>4 DEF PreflightPosition
<1>10. CASE AuthenticateDAN(r)
  <2>1. q0.op = "dan"
    BY <1>2, <1>4, <1>10 DEF Busy, CountersOf, AuthenticateDAN, At
  <2>2. "signed" \in CountersOf(q0.op)
    BY <2>1 DEF CountersOf
  <2> QED
    BY <1>5, <1>6, <1>10, <2>2 DEF AuthenticateDAN
<1>11. CASE AlreadySigned(r)
  <2>1. q0.op \in {"dan", "start"}
    BY <1>2, <1>4, <1>11 DEF Busy, CountersOf, AlreadySigned, At
  <2>2. CASE q0.op = "dan"
    <3>1. "lock" \in CountersOf(q0.op)
      BY <2>2 DEF CountersOf
    <3> QED
      BY <1>5, <1>6, <1>11, <2>2, <3>1 DEF AlreadySigned
  <2>3. CASE q0.op = "start"
    <3>1. "title" \in CountersOf(q0.op)
      BY <2>3 DEF CountersOf
    <3> QED
      BY <1>5, <1>6, <1>11, <2>3, <3>1 DEF AlreadySigned
  <2> QED
    BY <2>1, <2>2, <2>3
<1>12. CASE StartTitle(r)
  <2>1. q0.op = "start"
    BY <1>2, <1>4, <1>12 DEF Busy, CountersOf, StartTitle, At
  <2> DEFINE q == [q0 EXCEPT !.pc = "sweep", !.title = title[q0.doc]]
  <2>2. req' = [req EXCEPT ![r] = q]
    BY <1>12 DEF StartTitle
  <2>3. title[q0.doc] \in Titles
    BY <1>2 DEF Busy, IInv, TablesOK
  <2>4. /\ q \in RequestRecords /\ q.pc = "sweep" /\ q.op = q0.op /\ q.doc = q0.doc
        /\ q.who = q0.who /\ q.session = q0.session /\ q.answer = q0.answer /\ q.title \in Titles
    BY <1>2, <2>3 DEF RequestRecords, Counters
  <2>5. "sweep" \in CountersOf(q0.op)
    BY <2>1 DEF CountersOf
  <2> HIDE DEF q
  <2> QED
    BY <1>3, <2>1, <2>2, <2>4, <2>5
<1> QED
  BY <1>7, <1>8, <1>9, <1>10, <1>11, <1>12

(* Rows are deleted, and the request moves on or answers. *)
(* A step that leaves the rows alone deletes none of them. *)
LEMMA NoneDeleted == IInv /\ UNCHANGED row => Delete({})
  BY DEF IInv, TablesOK, Delete

(* Deleting rows that are not spent, with the answer, disturbs nobody. *)
LEMMA QuietDelete ==
  ASSUME IInv, NEW r \in Requests, ~At(r, "idle"), req[r].pc \notin Holding,
         NEW a, MayAnswer(req[r], a), Answer(r, a),
         UNCHANGED <<documents, settings, age, push, lock>>,
         NEW S, Delete(S), \A s \in S \cap SessionIds : row[s] # "spent"
  PROVE  IInv'
<1>1. /\ Good(req[r], push, age, sigs) /\ req[r] \in RequestRecords
      /\ req[r].pc # "idle"
  BY RequestTyped DEF At
<1>2. Good(Answered(req[r], a), push, age, sigs)
  BY <1>1, AnsweredGood DEF MayAnswer
<1>3. Answered(req[r], a).pc = "idle"
  BY <1>1, AnsweredRecord
<1> QED
  BY <1>2, <1>3, AnswerIs, QuietMoves DEF Holding, documents, settings

(* The sweep deletes what was never spent. *)
LEMMA StartSweepKeeps ==
  ASSUME IInv, NEW r \in Requests, StartSweep(r)
  PROVE  IInv'
<1>1. Goto(r, "push") /\ "push" \in Counters /\ req[r].pc = "sweep"
  BY DEF StartSweep, At, Counters
<1>2. PICK q \in RequestRecords :
         /\ req' = [req EXCEPT ![r] = q]
         /\ q.pc = "push" /\ q.op = req[r].op /\ q.doc = req[r].doc /\ q.who = req[r].who
         /\ q.session = req[r].session /\ q.title = req[r].title /\ q.answer = req[r].answer
  BY <1>1, GotoIs
<1>3. Busy(req[r], push, age)
  BY <1>1, RequestTyped
<1>4. Good(q, push, age, sigs)
  BY <1>1, <1>2, <1>3 DEF Good, Busy, Holds, Ops, CountersOf
<1>5. PICK S : Delete(S) /\ \A s \in S : row[s] # "spent"
  <2>1. CASE Delete({s \in Unspent(req[r].doc) : age[s] = 2})
    BY <2>1 DEF Unspent
  <2>2. CASE UNCHANGED row
    BY <2>2, NoneDeleted
  <2> QED
    BY <2>1, <2>2 DEF StartSweep
<1> QED
  BY <1>1, <1>2, <1>4, <1>5, QuietMoves DEF StartSweep, documents, settings, Holding

(* Retiring a citizen's earlier pairings deletes what was never spent. *)
LEMMA StartRetireKeeps ==
  ASSUME IInv, NEW r \in Requests, StartRetire(r)
  PROVE  IInv'
<1>1. /\ Answer(r, "pushed") /\ MayAnswer(req[r], "pushed") /\ ~At(r, "idle") /\ req[r].pc \notin Holding
      /\ UNCHANGED <<documents, settings, age, push, lock>>
  BY DEF StartRetire, MayAnswer, At, Holding
<1>2. PICK S : Delete(S) /\ \A s \in S : row[s] # "spent"
  <2>1. CASE Delete(AskedOf(req[r].doc, req[r].who) \ {req[r].session})
    BY <2>1 DEF AskedOf, Unspent
  <2>2. CASE UNCHANGED row
    BY <2>2, NoneDeleted
  <2> QED
    BY <2>1, <2>2 DEF StartRetire
<1> QED
  BY <1>1, <1>2, QuietDelete

(* An expired poll deletes its pairing and says so. *)
LEMMA PollExpireKeeps ==
  ASSUME IInv, NEW r \in Requests, PollExpire(r)
  PROVE  IInv'
<1>1. ~At(r, "idle") /\ req[r].pc \notin Holding /\ req[r].pc = "expire"
      /\ UNCHANGED <<documents, settings, age, push, lock>>
  BY DEF PollExpire, At, Holding
<1>2. Busy(req[r], push, age)
  BY <1>1, RequestTyped
<1>3. req[r].op = "poll" /\ age[req[r].session] # 0
  BY <1>1, <1>2 DEF Busy, Ops, CountersOf, Polls
<1>4. \A a : MayAnswer(req[r], a)
  BY <1>3 DEF MayAnswer
<1>5. PICK S, a : Answer(r, a) /\ Delete(S) /\ \A s \in S : row[s] # "spent"
  <2>1. CASE row[req[r].session] = "unspent" /\ Delete({req[r].session}) /\ Answer(r, "EXPIRED")
    BY <2>1
  <2>2. CASE UNCHANGED row /\ \E a : Answer(r, a)
    BY <2>2, NoneDeleted
  <2> QED
    BY <2>1, <2>2 DEF PollExpire
<1> QED
  BY <1>1, <1>4, <1>5, QuietDelete

(* A refused or expired ceremony loses its pairing. *)
LEMMA PollDropKeeps ==
  ASSUME IInv, NEW r \in Requests, PollDrop(r)
  PROVE  IInv'
<1> DEFINE s == req[r].session
<1>1. /\ ~At(r, "idle") /\ req[r].pc \notin Holding /\ req[r].pc = "drop"
      /\ UNCHANGED <<documents, settings, age, push, lock>>
      /\ Answer(r, push[s].state)
  BY DEF PollDrop, At, Holding
<1>2. Busy(req[r], push, age)
  BY <1>1, RequestTyped
<1>3. s \in SessionIds /\ push[s].state \in {"REFUSED", "EXPIRED"}
  BY <1>1, <1>2 DEF Busy, Ops, CountersOf, Polls
<1>4. MayAnswer(req[r], push[s].state)
  BY <1>3 DEF MayAnswer
<1>5. row[s] # "spent"
  BY <1>3 DEF IInv, RowsTrue, SignatureRestsOnApproval
<1>6. PICK S : Delete(S) /\ \A x \in S : row[x] # "spent"
  <2>1. CASE Delete({s})
    BY <1>5, <2>1
  <2>2. CASE UNCHANGED row
    BY <2>2, NoneDeleted
  <2> QED
    BY <2>1, <2>2 DEF PollDrop
<1> QED
  BY <1>1, <1>4, <1>6, QuietDelete

(* Finding the session, asking E-ID, asking the ledger again. *)
LEMMA PollReadsKeep ==
  ASSUME IInv, NEW r \in Requests, PollFind(r) \/ PollAsk(r) \/ PollRecheck(r)
  PROVE  IInv'
<1> DEFINE q0 == req[r]  s == req[r].session
<1>1. /\ UNCHANGED <<tables, push, lock>>
      /\ ~At(r, "idle") /\ q0.pc \in {"find", "ask", "recheck"}
  BY DEF PollFind, PollAsk, PollRecheck, At
<1>2. q0 \in RequestRecords /\ Busy(q0, push, age)
  BY <1>1, RequestTyped DEF At
<1>3. q0.op = "poll" /\ Polls(q0, push, age) /\ s \in SessionIds /\ push[s].state # "unused"
      /\ q0.doc \in Docs
  BY <1>1, <1>2 DEF Busy, Ops, CountersOf, Polls
<1>4. ASSUME NEW a, Answer(r, a), a # "COMPLETE" PROVE IInv'
  BY <1>1, <1>4, QuietAnswer DEF MayAnswer, Holding
<1>5. ASSUME Found(r), row[s] = "spent", Answer(r, "COMPLETE") PROVE IInv'
  <2>1. \E g \in sigs[q0.doc] : g.via = s
    BY <1>3, <1>5 DEF Found, IInv, RowsTrue
  <2> QED
    BY <1>1, <1>5, <2>1, QuietAnswer DEF MayAnswer, Holding
<1>6. CASE PollRecheck(r)
  BY <1>4, <1>5, <1>6 DEF PollRecheck
<1>7. CASE PollFind(r)
  <2>1. CASE Found(r) /\ row[s] = "unspent" /\ age[s] > 0 /\ Goto(r, "expire")
    <3>1. "expire" \in Counters
      BY DEF Counters
    <3>2. PICK q \in RequestRecords :
             /\ req' = [req EXCEPT ![r] = q]
             /\ q.pc = "expire" /\ q.op = q0.op /\ q.doc = q0.doc /\ q.who = q0.who
             /\ q.session = s /\ q.title = q0.title /\ q.answer = q0.answer
      BY <2>1, <3>1, GotoIs
    <3>3. age[s] # 0
      BY <1>3, <2>1, SigningAssumption DEF IInv, TablesOK
    <3>4. Good(q, push, age, sigs)
      BY <1>2, <1>3, <3>2, <3>3 DEF Good, Busy, Holds, Polls, Approved, CountersOf
    <3> QED
      BY <1>1, <3>2, <3>4, QuietStep DEF Holding
  <2>2. CASE Found(r) /\ req' = [req EXCEPT ![r].pc = "ask", ![r].who = push[s].to]
    <3> DEFINE q == [q0 EXCEPT !.pc = "ask", !.who = push[s].to]
    <3>1. push[s].to \in Citizens
      BY <1>3 DEF IInv, TablesOK, Push
    <3>2. /\ req' = [req EXCEPT ![r] = q]
          /\ q \in RequestRecords /\ q.pc = "ask" /\ q.op = "poll" /\ q.doc = q0.doc
          /\ q.who = push[s].to /\ q.session = s /\ q.answer = q0.answer
      BY <1>2, <1>3, <2>2, <3>1 DEF RequestRecords, Counters
    <3> HIDE DEF q
    <3>3. Good(q, push, age, sigs)
      BY <1>2, <1>3, <2>2, <3>1, <3>2 DEF Good, Busy, Holds, Polls, Approved, CountersOf, Found, Ops
    <3> QED
      BY <1>1, <3>2, <3>3, QuietStep DEF Holding
  <2>3. row[s] \in {"none", "unspent", "spent"} /\ (age[s] > 0 \/ age[s] = 0)
    BY <1>3, SigningAssumption DEF IInv, TablesOK
  <2> QED
    BY <1>4, <1>5, <1>7, <2>1, <2>2, <2>3 DEF PollFind, Found
<1>8. CASE PollAsk(r)
  <2>1. ASSUME NEW pc \in {"drop", "load"}, Goto(r, pc),
               pc = "drop" => push[s].state \in {"REFUSED", "EXPIRED"},
               pc = "load" => push[s].state = "COMPLETE" /\ push[s].by = q0.who
        PROVE  IInv'
    <3>1. pc \in Counters
      BY <2>1 DEF Counters
    <3>2. PICK q \in RequestRecords :
             /\ req' = [req EXCEPT ![r] = q]
             /\ q.pc = pc /\ q.op = q0.op /\ q.doc = q0.doc /\ q.who = q0.who
             /\ q.session = s /\ q.title = q0.title /\ q.answer = q0.answer
      BY <2>1, <3>1, GotoIs
    <3>3. q0.pc = "ask"
      BY <1>8 DEF PollAsk, At
    <3>4. Good(q, push, age, sigs)
      BY <1>2, <1>3, <2>1, <3>2, <3>3 DEF Good, Busy, Holds, Polls, Approved, CountersOf
    <3> QED
      BY <1>1, <2>1, <3>2, <3>4, QuietStep DEF Holding
  <2> QED
    BY <1>4, <1>8, <2>1 DEF PollAsk
<1> QED
  BY <1>6, <1>7, <1>8

(* A rename reads the status. *)
LEMMA RenameSnapshotKeeps ==
  ASSUME IInv, NEW r \in Requests, RenameSnapshot(r)
  PROVE  IInv'
<1>1. /\ UNCHANGED <<tables, push, lock>>
      /\ ~At(r, "idle") /\ req[r].pc = "snapshot"
  BY DEF RenameSnapshot, At
<1>2. Busy(req[r], push, age) /\ req[r].op = "rename"
  BY <1>1, RequestTyped DEF Busy, Ops, CountersOf
<1>3. CASE Goto(r, "apply")
  <2>1. "apply" \in Counters
    BY DEF Counters
  <2>2. PICK q \in RequestRecords :
           /\ req' = [req EXCEPT ![r] = q]
           /\ q.pc = "apply" /\ q.op = req[r].op /\ q.doc = req[r].doc /\ q.who = req[r].who
           /\ q.session = req[r].session /\ q.title = req[r].title /\ q.answer = req[r].answer
    BY <1>3, <2>1, GotoIs
  <2>3. Good(q, push, age, sigs)
    BY <1>2, <2>2 DEF Good, Busy, Holds, CountersOf
  <2> QED
    BY <1>1, <2>2, <2>3, QuietStep DEF Holding
<1>4. CASE Answer(r, "title frozen")
  BY <1>1, <1>4, QuietAnswer DEF MayAnswer, Holding
<1> QED
  BY <1>3, <1>4 DEF RenameSnapshot
-----------------------------------------------------------------------------
(* The holders of the locks stay as they are while another request moves. *)
LEMMA MoveKeepsLocks ==
  ASSUME IInv, NEW r \in Requests,
         \A x \in Requests \ {r} : req'[x] = req[x],
         req[r].pc \notin Holding, req'[r].pc \notin Holding, lock' = lock,
         \A d \in Docs : lock[d] # Nobody => status'[d] = status[d]
  PROVE  LocksHeld'
<1>1. ASSUME NEW d \in Docs, lock[d] # Nobody
      PROVE  lock[d] \in Requests \ {r} /\ req'[lock[d]] = req[lock[d]]
  BY <1>1 DEF IInv, LocksHeld
<1>2. ASSUME NEW x \in Requests, req'[x].pc \in Holding
      PROVE  /\ lock[req[x].doc] = x /\ req'[x] = req[x]
             /\ status'[req[x].doc] = status[req[x].doc]
  <2>1. x # r /\ req'[x] = req[x]
    BY <1>2
  <2>2. req[x].doc \in Docs
    BY <1>2, <2>1, RequestTyped DEF Busy, Holding
  <2>3. Nobody \notin Requests
    BY SigningAssumption
  <2> QED
    BY <1>2, <2>1, <2>2, <2>3 DEF IInv, LocksHeld
<1> QED
  BY <1>1, <1>2 DEF IInv, LocksHeld, Pending

(* No row appears under a session that is about to be paired. *)
LEMMA MoveKeepsPairs ==
  ASSUME IInv, NEW r \in Requests,
         \A x \in Requests \ {r} : req'[x] = req[x], req'[r].pc # "pair",
         \A s \in SessionIds : row[s] = "none" => row'[s] = "none"
  PROVE  PairsFresh'
<1>1. ASSUME NEW x \in Requests, req'[x].pc = "pair"
      PROVE  x # r /\ req'[x] = req[x] /\ req[x].session \in SessionIds
  <2>1. x # r /\ req'[x] = req[x]
    BY <1>1
  <2>2. req[x].session \in SessionIds
    BY <1>1, <2>1, RequestTyped DEF Busy, Holds
  <2> QED
    BY <2>1, <2>2
<1> QED
  BY <1>1 DEF IInv, PairsFresh

(* The push takes a session nobody has used. *)
LEMMA StartPushKeeps ==
  ASSUME IInv, NEW r \in Requests, StartPush(r)
  PROVE  IInv'
<1> DEFINE q0 == req[r]
<1>1. /\ UNCHANGED <<tables, lock>>
      /\ q0.pc = "push" /\ ~At(r, "idle")
  BY DEF StartPush, At
<1>2. q0 \in RequestRecords /\ Busy(q0, push, age)
  BY <1>1, RequestTyped
<1>3. q0.op = "start" /\ q0.who \in Citizens /\ q0.title \in Titles /\ q0.doc \in Docs
  BY <1>1, <1>2 DEF Busy, Ops, CountersOf, Holds
<1>4. CASE Answer(r, "unavailable") /\ UNCHANGED push
  BY <1>1, <1>4, QuietAnswer DEF MayAnswer, Holding
<1>5. ASSUME NEW s \in SessionIds, push[s].state = "unused",
             push' = [push EXCEPT ![s] =
                 [state |-> "RUNNING", to |-> q0.who, by |-> Nobody,
                  doc |-> q0.doc, title |-> q0.title]],
             req' = [req EXCEPT ![r].pc = "pair", ![r].session = s]
      PROVE  IInv'
  <2> DEFINE p == [state |-> "RUNNING", to |-> q0.who, by |-> Nobody,
                   doc |-> q0.doc, title |-> q0.title]
             q == [q0 EXCEPT !.pc = "pair", !.session = s]
  <2>1. p \in Push /\ p.state = "RUNNING" /\ p.doc = q0.doc /\ p.to = q0.who
    BY <1>3 DEF Push
  <2>2. /\ q \in RequestRecords /\ q.pc = "pair" /\ q.session = s /\ q.op = q0.op
        /\ q.doc = q0.doc /\ q.who = q0.who /\ q.answer = q0.answer
    BY <1>2 DEF RequestRecords, Counters
  <2>3. push' = [push EXCEPT ![s] = p] /\ req' = [req EXCEPT ![r] = q]
    BY <1>5
  <2> HIDE DEF p, q
  <2>4. /\ push' \in [SessionIds -> Push] /\ push'[s] = p
        /\ \A x \in SessionIds \ {s} : push'[x] = push[x]
    BY <2>1, <2>3 DEF IInv, TablesOK
  <2>5. Grown(push, push', age, age', sigs, sigs')
    BY <1>1, <1>5, <2>4 DEF Grown, tables
  <2>6. Good(q, push', age', sigs')
    BY <1>2, <1>3, <2>1, <2>2, <2>4 DEF Good, Busy, Holds, CountersOf
  <2>7. RequestsGood' /\ req'[r] = q /\ \A x \in Requests \ {r} : req'[x] = req[x]
    BY <2>3, <2>5, <2>6, OneMoves
  <2>8. TablesOK' /\ SignersOnce'
    BY <1>1, <2>4 DEF IInv, TablesOK, SignersOnce, tables
  <2>9. SignatureRestsOnApproval'
    <3>1. \A d \in Docs : \A g \in sigs[d] : g.via \in SessionIds => push'[g.via] = push[g.via]
      BY <1>5, <2>4 DEF IInv, SignatureRestsOnApproval
    <3> QED
      BY <1>1, <3>1 DEF IInv, SignatureRestsOnApproval, tables
  <2>10. row[s] = "none" /\ row' = row /\ sigs' = sigs
    BY <1>1, <1>5 DEF IInv, TablesOK, RowsTrue, tables
  <2>11. RowsTrue'
    <3>1. \A x \in SessionIds : row[x] # "none" => push'[x] = push[x]
      BY <2>4, <2>10
    <3> QED
      BY <2>10, <3>1 DEF IInv, RowsTrue
  <2>12. PairsFresh'
    <3>1. ASSUME NEW x \in Requests \ {r}, req'[x].pc = "pair"
          PROVE  /\ req[x].pc = "pair" /\ req'[x] = req[x]
                 /\ req[x].session # s
      BY <1>5, <2>7, <3>1, RequestTyped DEF Busy, Holds
    <3> QED
      BY <2>2, <2>7, <2>10, <3>1 DEF IInv, PairsFresh
  <2>13. LocksHeld'
    BY <1>1, <2>2, <2>7, MoveKeepsLocks DEF Holding, tables
  <2> QED
    BY <2>7, <2>8, <2>9, <2>11, <2>12, <2>13 DEF IInv
<1> QED
  BY <1>4, <1>5 DEF StartPush

(* Inserting the pairing: an unspent row of a session that has signed nothing. *)
LEMMA StartPairKeeps ==
  ASSUME IInv, NEW r \in Requests, StartPair(r)
  PROVE  IInv'
<1> DEFINE q0 == req[r]  s == req[r].session
<1>1. /\ row' = [row EXCEPT ![s] = "unspent"] /\ Goto(r, "retire") /\ "retire" \in Counters
      /\ UNCHANGED <<documents, settings, age, push, lock>>
      /\ q0.pc = "pair"
  BY DEF StartPair, At, Counters
<1>2. Busy(q0, push, age) /\ s \in SessionIds /\ push[s].state # "unused" /\ row[s] = "none"
  BY <1>1, RequestTyped DEF Busy, Holds, IInv, PairsFresh
<1>3. PICK q \in RequestRecords :
         /\ req' = [req EXCEPT ![r] = q]
         /\ q.pc = "retire" /\ q.op = q0.op /\ q.doc = q0.doc /\ q.who = q0.who
         /\ q.session = s /\ q.title = q0.title /\ q.answer = q0.answer
  BY <1>1, GotoIs
<1>4. Good(q, push', age', sigs')
  BY <1>1, <1>2, <1>3 DEF Good, Busy, Holds, Ops, CountersOf, documents
<1>5. Grown(push, push', age, age', sigs, sigs')
  BY <1>1 DEF Grown, documents
<1>6. RequestsGood' /\ req'[r] = q /\ \A x \in Requests \ {r} : req'[x] = req[x]
  BY <1>3, <1>4, <1>5, OneMoves
<1>7. /\ row' \in [SessionIds -> {"none", "unspent", "spent"}] /\ row'[s] = "unspent"
      /\ \A x \in SessionIds \ {s} : row'[x] = row[x]
  BY <1>1, <1>2 DEF IInv, TablesOK
<1>8. TablesOK' /\ SignersOnce' /\ SignatureRestsOnApproval'
  BY <1>1, <1>7 DEF IInv, TablesOK, SignersOnce, SignatureRestsOnApproval, documents, settings
<1>9. RowsTrue'
  BY <1>1, <1>2, <1>7 DEF IInv, RowsTrue, documents
<1>10. PairsFresh'
  <2>1. ASSUME NEW x \in Requests, req'[x].pc = "pair"
        PROVE  /\ x # r /\ req[x].pc = "pair" /\ req'[x] = req[x]
               /\ req[x].session # s /\ req[x].session \in SessionIds
    <3>1. x # r /\ req'[x] = req[x]
      BY <1>3, <1>6, <2>1
    <3> QED
      BY <1>1, <2>1, <3>1, RequestTyped DEF Busy, Holds, IInv, PairsFresh
  <2> QED
    BY <1>7, <2>1 DEF IInv, PairsFresh
<1>11. LocksHeld'
  BY <1>1, <1>3, <1>6, MoveKeepsLocks DEF Holding, documents
<1> QED
  BY <1>6, <1>8, <1>9, <1>10, <1>11 DEF IInv

(* A lock is taken by the request that moves. *)
LEMMA LockTaken ==
  ASSUME IInv, NEW r \in Requests, NEW d \in Docs, req[r].doc = d, req[r].pc \notin Holding,
         lock[d] = Nobody, lock' = [lock EXCEPT ![d] = r],
         \A x \in Requests \ {r} : req'[x] = req[x],
         req'[r].doc = d, req'[r].pc \in Holding,
         req'[r].pc = "record" => Pending(d),
         req'[r].pc = "commit" => status[d] \in {"ABSENT", "DRAFT"},
         status' = status
  PROVE  LocksHeld'
<1>1. /\ lock' \in [Docs -> Requests \cup {Nobody}] /\ lock'[d] = r
      /\ \A e \in Docs \ {d} : lock'[e] = lock[e]
  BY DEF IInv, LocksHeld
<1>2. ASSUME NEW e \in Docs, lock'[e] # Nobody
      PROVE  req'[lock'[e]].doc = e /\ req'[lock'[e]].pc \in Holding
  <2>1. CASE e = d
    BY <1>1, <2>1
  <2>2. CASE e # d
    BY <1>1, <1>2, <2>2 DEF IInv, LocksHeld
  <2> QED
    BY <2>1, <2>2
<1>3. ASSUME NEW x \in Requests, req'[x].pc \in Holding
      PROVE  /\ lock'[req'[x].doc] = x
             /\ req'[x].pc = "record" => Pending(req'[x].doc)
             /\ req'[x].pc = "commit" => status[req'[x].doc] \in {"ABSENT", "DRAFT"}
  <2>1. CASE x = r
    BY <1>1, <2>1
  <2>2. CASE x # r
    <3>1. req'[x] = req[x] /\ lock[req[x].doc] = x /\ req[x].doc \in Docs
      BY <1>3, <2>2, RequestTyped DEF IInv, LocksHeld, Busy, Holding
    <3>2. req[x].doc # d
      BY <3>1, SigningAssumption
    <3> QED
      BY <1>1, <1>3, <3>1, <3>2 DEF IInv, LocksHeld
  <2> QED
    BY <2>1, <2>2
<1> QED
  BY <1>1, <1>2, <1>3 DEF LocksHeld, Pending

(* A lock is released by the request that held it. *)
LEMMA LockReleased ==
  ASSUME IInv, NEW r \in Requests, req[r].pc \in Holding,
         lock' = [lock EXCEPT ![req[r].doc] = Nobody],
         \A x \in Requests \ {r} : req'[x] = req[x], req'[r].pc \notin Holding,
         \A e \in Docs \ {req[r].doc} : status'[e] = status[e]
  PROVE  LocksHeld'
<1> DEFINE d == req[r].doc
<1>1. d \in Docs /\ lock[d] = r
  BY RequestTyped DEF IInv, LocksHeld, Busy, Holding
<1>2. /\ lock' \in [Docs -> Requests \cup {Nobody}] /\ lock'[d] = Nobody
      /\ \A e \in Docs \ {d} : lock'[e] = lock[e]
  BY <1>1 DEF IInv, LocksHeld
<1>3. ASSUME NEW e \in Docs, lock'[e] # Nobody
      PROVE  req'[lock'[e]].doc = e /\ req'[lock'[e]].pc \in Holding
  <2>1. e # d /\ lock'[e] = lock[e] /\ req[lock[e]].doc = e
    BY <1>2, <1>3 DEF IInv, LocksHeld
  <2>2. lock[e] \in Requests \ {r}
    BY <1>1, <1>2, <1>3, <2>1 DEF IInv, LocksHeld
  <2> QED
    BY <1>3, <2>1, <2>2 DEF IInv, LocksHeld
<1>4. ASSUME NEW x \in Requests, req'[x].pc \in Holding
      PROVE  /\ lock'[req'[x].doc] = x /\ req'[x] = req[x]
             /\ status'[req[x].doc] = status[req[x].doc]
  <2>1. x # r /\ req'[x] = req[x]
    BY <1>4
  <2>2. lock[req[x].doc] = x /\ req[x].doc \in Docs
    BY <1>4, <2>1, RequestTyped DEF IInv, LocksHeld, Busy, Holding
  <2>3. req[x].doc # d
    BY <1>1, <2>1, <2>2
  <2> QED
    BY <1>2, <2>1, <2>2, <2>3
<1> QED
  BY <1>2, <1>3, <1>4 DEF IInv, LocksHeld, Pending

(* What the ledgers and the rows say is untouched. *)
LEMMA SessionsUntouched ==
  ASSUME IInv, UNCHANGED <<sigs, row, push>>
  PROVE  SignersOnce' /\ SignatureRestsOnApproval' /\ RowsTrue'
  BY DEF IInv, SignersOnce, SignatureRestsOnApproval, RowsTrue

(* The first statement of recordSignature takes the row lock. *)
LEMMA RecordLockKeeps ==
  ASSUME IInv, NEW r \in Requests, RecordLock(r)
  PROVE  IInv'
<1> DEFINE q0 == req[r]
<1>1. /\ UNCHANGED <<tables, push>>
      /\ q0.pc = "lock" /\ ~At(r, "idle") /\ q0.op # "submit" /\ lock[q0.doc] = Nobody
  BY DEF RecordLock, At
<1>2. q0 \in RequestRecords /\ Busy(q0, push, age)
  BY <1>1, RequestTyped
<1>3. CASE Refuse(r, "not signable") /\ UNCHANGED lock
  BY <1>1, <1>3, QuietRefuse DEF Holding
<1>4. CASE Pending(q0.doc) /\ Goto(r, "record") /\ lock' = [lock EXCEPT ![q0.doc] = r]
  <2>1. "record" \in Counters
    BY DEF Counters
  <2>2. PICK q \in RequestRecords :
           /\ req' = [req EXCEPT ![r] = q]
           /\ q.pc = "record" /\ q.op = q0.op /\ q.doc = q0.doc /\ q.who = q0.who
           /\ q.session = q0.session /\ q.title = q0.title /\ q.answer = q0.answer
    BY <1>4, <2>1, GotoIs
  <2>3. q0.op \in {"dan", "poll"}
    BY <1>1, <1>2 DEF Busy, Ops, CountersOf
  <2>4. Good(q, push', age', sigs')
    BY <1>1, <1>2, <2>2, <2>3 DEF Good, Busy, Holds, Polls, Approved, CountersOf, tables
  <2>5. Grown(push, push', age, age', sigs, sigs')
    BY <1>1, NothingGrown DEF tables
  <2>6. RequestsGood' /\ req'[r] = q /\ \A x \in Requests \ {r} : req'[x] = req[x]
    BY <2>2, <2>4, <2>5, OneMoves
  <2>7. TablesOK' /\ SignersOnce' /\ SignatureRestsOnApproval' /\ RowsTrue'
    BY <1>1, SessionsUntouched DEF IInv, TablesOK, tables
  <2>8. PairsFresh'
    BY <1>1, <2>2, <2>6, MoveKeepsPairs DEF tables
  <2>9. LocksHeld'
    <3>1. q0.doc \in Docs
      BY <1>2 DEF Busy
    <3> QED
      BY <1>1, <1>4, <2>2, <2>6, <3>1, LockTaken DEF Holding, tables
  <2> QED
    BY <2>6, <2>7, <2>8, <2>9 DEF IInv
<1> QED
  BY <1>3, <1>4 DEF RecordLock

(* A submission takes the row lock and reads the type's chain. *)
LEMMA SubmitLockKeeps ==
  ASSUME IInv, NEW r \in Requests, SubmitLock(r)
  PROVE  IInv'
<1> DEFINE q0 == req[r]
<1>1. /\ UNCHANGED <<tables, push>>
      /\ q0.pc = "lock" /\ ~At(r, "idle") /\ q0.op = "submit" /\ lock[q0.doc] = Nobody
  BY DEF SubmitLock, At
<1>2. q0 \in RequestRecords /\ Busy(q0, push, age) /\ q0.doc \in Docs
  BY <1>1, RequestTyped DEF Busy
<1>3. CASE Answer(r, "not routable") /\ UNCHANGED lock
  BY <1>1, <1>3, QuietAnswer DEF MayAnswer, Holding
<1>4. CASE /\ status[q0.doc] \in {"ABSENT", "DRAFT"}
           /\ req' = [req EXCEPT ![r].pc = "commit",
                         ![r].copy = fillableChain(typeChain[TypeOf[q0.doc]])]
           /\ lock' = [lock EXCEPT ![q0.doc] = r]
  <2> DEFINE ch == fillableChain(typeChain[TypeOf[q0.doc]])
             q  == [q0 EXCEPT !.pc = "commit", !.copy = ch]
  <2>1. ch \in Chains
    <3>1. typeChain[TypeOf[q0.doc]] \in StoredChains
      BY <1>2, SigningAssumption DEF IInv, TablesOK
    <3> QED
      BY <3>1, FillableChainNamesOnce
  <2>2. req' = [req EXCEPT ![r] = q]
    BY <1>4
  <2> HIDE DEF ch
  <2>3. /\ q \in RequestRecords /\ q.pc = "commit" /\ q.op = q0.op /\ q.doc = q0.doc
        /\ q.answer = q0.answer
    BY <1>2, <2>1 DEF RequestRecords, Counters
  <2> HIDE DEF q
  <2>4. Good(q, push', age', sigs')
    BY <1>1, <1>2, <2>3 DEF Good, Busy, Holds, CountersOf
  <2>5. Grown(push, push', age, age', sigs, sigs')
    BY <1>1, NothingGrown DEF tables
  <2>6. RequestsGood' /\ req'[r] = q /\ \A x \in Requests \ {r} : req'[x] = req[x]
    BY <2>2, <2>4, <2>5, OneMoves
  <2>7. TablesOK' /\ SignersOnce' /\ SignatureRestsOnApproval' /\ RowsTrue'
    BY <1>1, SessionsUntouched DEF IInv, TablesOK, tables
  <2>8. PairsFresh'
    BY <1>1, <2>3, <2>6, MoveKeepsPairs DEF tables
  <2>9. LocksHeld'
    BY <1>1, <1>2, <1>4, <2>3, <2>6, LockTaken DEF Holding, tables
  <2> QED
    BY <2>6, <2>7, <2>8, <2>9 DEF IInv
<1> QED
  BY <1>3, <1>4 DEF SubmitLock

(* A request that holds a lock answers or, polling, asks once more. *)
LEMMA HolderEnds ==
  ASSUME IInv, NEW r \in Requests, req[r].pc \in Holding,
         NEW a,
         \/ /\ Answer(r, a)
            /\ req[r].op = "poll" => \E g \in sigs'[req[r].doc] : g.via = req[r].session
         \/ Refuse(r, a) /\ a # "COMPLETE",
         UNCHANGED <<age, push>>, \A d \in Docs : sigs[d] \subseteq sigs'[d]
  PROVE  /\ RequestsGood'
         /\ req'[r].pc \notin Holding \cup {"pair"}
         /\ \A x \in Requests \ {r} : req'[x] = req[x]
<1> DEFINE q0 == req[r]
<1>1. q0.pc # "idle" /\ q0 \in RequestRecords /\ Busy(q0, push, age) /\ Good(q0, push, age, sigs)
  BY RequestTyped DEF Holding
<1>2. Grown(push, push', age, age', sigs, sigs')
  BY DEF Grown
<1>3. Good(q0, push', age', sigs')
  BY <1>1, <1>2, StaysGood
<1>4. CASE Answer(r, a) /\ (q0.op = "poll" /\ a = "COMPLETE" => \E g \in sigs'[q0.doc] : g.via = q0.session)
  <2>1. Good(Answered(q0, a), push', age', sigs')
    BY <1>1, <1>3, <1>4, AnsweredGood
  <2>2. Answered(q0, a).pc = "idle"
    BY <1>1, AnsweredRecord
  <2> QED
    BY <1>2, <1>4, <2>1, <2>2, AnswerIs, OneMoves DEF Holding
<1>5. CASE q0.op = "poll" /\ Goto(r, "recheck")
  <2>1. q0.op = "poll" /\ Goto(r, "recheck") /\ "recheck" \in Counters
    BY <1>5 DEF Counters
  <2>2. PICK q \in RequestRecords :
           /\ req' = [req EXCEPT ![r] = q]
           /\ q.pc = "recheck" /\ q.op = q0.op /\ q.doc = q0.doc /\ q.who = q0.who
           /\ q.session = q0.session /\ q.title = q0.title /\ q.answer = q0.answer
    BY <2>1, GotoIs
  <2>3. Good(q, push', age', sigs')
    BY <1>1, <2>1, <2>2 DEF Good, Busy, Holds, Polls, Approved, CountersOf
  <2> QED
    BY <1>2, <2>2, <2>3, OneMoves DEF Holding
<1> QED
  BY <1>4, <1>5 DEF Refuse

(* The signature a request records: its step, its signer, and how it came. *)
SignatureOf(q, k) ==
    [step |-> k, signer |-> q.who, via |-> IF q.op = "poll" THEN q.session ELSE "dan"]

(* Recording a signature spends its session: the new signature is of a citizen
   who had none, and whose approval E-ID has given for this document. *)
LEMMA RecordSignatureKeeps ==
  ASSUME IInv, NEW r \in Requests, RecordSignature(r)
  PROVE  IInv'
<1> DEFINE q0 == req[r]  d == req[r].doc  s == req[r].session
<1>1. /\ q0.pc = "record" /\ q0.pc \in Holding
      /\ lock' = [lock EXCEPT ![d] = Nobody]
      /\ UNCHANGED <<chain, required, title, typeChain, policy, age, push>>
  BY DEF RecordSignature, At, settings, Holding
<1>2. Busy(q0, push, age) /\ d \in Docs /\ q0.op \in {"dan", "poll"}
  BY <1>1, RequestTyped DEF Busy, Ops, CountersOf
<1>3. /\ q0.who \in Citizens
      /\ q0.op = "poll" => /\ s \in SessionIds /\ push[s].state = "COMPLETE"
                           /\ push[s].doc = d /\ push[s].to = q0.who /\ push[s].by = q0.who
  BY <1>1, <1>2 DEF Busy, Holds, Polls, Approved
<1>4. \A e \in Docs : sigs[e] \in SUBSET LedgerSignatures /\ IsFiniteSet(sigs[e])
  BY DEF IInv, TablesOK
<1>5. CASE /\ UNCHANGED <<sigs, status, row>>
           /\ \E a : Refuse(r, a) /\ a # "COMPLETE"
  <2>1. PICK a : Refuse(r, a) /\ a # "COMPLETE"
    BY <1>5
  <2>3. /\ RequestsGood'
        /\ req'[r].pc \notin Holding \cup {"pair"}
        /\ \A x \in Requests \ {r} : req'[x] = req[x]
    BY <1>1, <1>5, <2>1, HolderEnds
  <2>4. TablesOK' /\ SignersOnce' /\ SignatureRestsOnApproval' /\ RowsTrue'
    BY <1>1, <1>5, SessionsUntouched DEF IInv, TablesOK
  <2>5. PairsFresh'
    BY <1>5, <2>3, MoveKeepsPairs
  <2>6. LocksHeld'
    BY <1>1, <1>5, <2>3, LockReleased
  <2> QED
    BY <2>3, <2>4, <2>5, <2>6 DEF IInv
<1>6. CASE /\ q0.who \notin Signers(sigs[d]) /\ Redeemable(q0)
           /\ Insert(q0) /\ Decide(d) /\ Spend(q0)
           /\ Answer(r, "COMPLETE") \/ Refuse(r, "commit unconfirmed")
  <2>1. PICK k \in 1..(MaxChainSteps + Cardinality(sigs[d]) + 1) :
           sigs' = [sigs EXCEPT ![d] = @ \cup {SignatureOf(q0, k)}]
    BY <1>6 DEF Insert, SignatureOf
  <2> DEFINE new == SignatureOf(q0, k)
  <2>2. k \in Nat
    BY <1>2, <1>4, FS_CardinalityType, ChainAssumption
  <2>3. /\ new \in LedgerSignatures /\ new.signer = q0.who
        /\ new.via = IF q0.op = "poll" THEN s ELSE "dan"
    BY <1>2, <1>3, <2>2 DEF SignatureOf, LedgerSignatures, Via
  <2> HIDE DEF new
  <2>4. /\ sigs' \in [Docs -> SUBSET LedgerSignatures]
        /\ sigs'[d] = sigs[d] \cup {new}
        /\ \A e \in Docs \ {d} : sigs'[e] = sigs[e]
    BY <1>2, <1>4, <2>1, <2>3 DEF IInv, TablesOK, new
  <2>5. /\ RequestsGood'
        /\ req'[r].pc \notin Holding \cup {"pair"}
        /\ \A x \in Requests \ {r} : req'[x] = req[x]
    <3>1. \A e \in Docs : sigs[e] \subseteq sigs'[e]
      BY <2>4
    <3>2. q0.op = "poll" => \E g \in sigs'[d] : g.via = s
      BY <2>3, <2>4
    <3>3. CASE Answer(r, "COMPLETE")
      BY <1>1, <3>1, <3>2, <3>3, HolderEnds
    <3>4. CASE Refuse(r, "commit unconfirmed")
      <4>1. "commit unconfirmed" # "COMPLETE"
        OBVIOUS
      <4> QED
        BY <1>1, <3>1, <3>4, <4>1, HolderEnds
    <3> QED
      BY <1>6, <3>3, <3>4
  <2>6. /\ row' \in [SessionIds -> {"none", "unspent", "spent"}]
        /\ \A x \in SessionIds : row'[x] # row[x] =>
             q0.op = "poll" /\ x = s /\ row[x] = "unspent" /\ row'[x] = "spent"
        /\ q0.op = "poll" => row[s] = "unspent" /\ row'[s] = "spent"
    BY <1>3, <1>6 DEF Spend, Redeemable, IInv, TablesOK
  <2>7. /\ status' \in [Docs -> Ledger!Statuses]
        /\ \A e \in Docs \ {d} : status'[e] = status[e]
    BY <1>2, <1>6 DEF Decide, IInv, TablesOK, Ledger!Statuses
  <2>8. TablesOK'
    <3>1. IsFiniteSet(sigs[d] \cup {new})
      BY <1>2, <1>4, FS_AddElement
    <3>2. \A e \in Docs : IsFiniteSet(sigs'[e])
      BY <1>4, <2>4, <3>1
    <3> QED
      BY <1>1, <2>4, <2>6, <2>7, <3>2 DEF IInv, TablesOK
  <2>9. SignersOnce'
    <3>1. \A g \in sigs[d] : g.signer # new.signer
      BY <1>6, <2>3 DEF Signers
    <3> QED
      BY <2>4, <3>1 DEF IInv, SignersOnce
  <2>10. {"dan"} \cap SessionIds = {}
    BY SigningAssumption
  <2>11. SignatureRestsOnApproval'
    BY <1>1, <1>2, <1>3, <2>3, <2>4, <2>10 DEF IInv, SignatureRestsOnApproval
  <2>12. RowsTrue'
    <3>1. \A e \in Docs : \A g \in sigs'[e] : g.via \in SessionIds => row'[g.via] = "spent"
      BY <1>2, <2>3, <2>4, <2>6, <2>10 DEF IInv, RowsTrue
    <3>2. ASSUME NEW x \in SessionIds, row'[x] = "spent"
          PROVE  push[x].doc \in Docs /\ \E g \in sigs'[push[x].doc] : g.via = x
      <4>1. CASE row[x] = "spent"
        BY <2>4, <4>1 DEF IInv, RowsTrue
      <4>2. CASE row[x] # "spent"
        BY <1>2, <1>3, <2>3, <2>4, <2>6, <3>2, <4>2
      <4> QED
        BY <4>1, <4>2
    <3>3. \A x \in SessionIds : row'[x] # "none" => push[x].state # "unused"
      BY <2>6 DEF IInv, RowsTrue
    <3> QED
      BY <1>1, <3>1, <3>2, <3>3 DEF RowsTrue
  <2>13. PairsFresh'
    BY <2>5, <2>6, MoveKeepsPairs
  <2>14. LocksHeld'
    BY <1>1, <2>5, <2>7, LockReleased
  <2> QED
    BY <2>5, <2>8, <2>9, <2>11, <2>12, <2>13, <2>14 DEF IInv
<1> DEFINE admitted == checkSigner(chain[d], Bare(sigs[d]), q0.who)
           again    == q0.who \in Signers(sigs[d])
           refusal  == CASE ~ admitted           -> "rejected"
                         [] admitted /\ again    -> "already signed"
                         [] admitted /\ ~ again  -> "unknown session"
<1>7. refusal # "COMPLETE"
  OBVIOUS
<1>8. \/ /\ ~ again /\ Redeemable(q0)
         /\ Insert(q0) /\ Decide(d) /\ Spend(q0)
         /\ Answer(r, "COMPLETE") \/ Refuse(r, "commit unconfirmed")
      \/ Refuse(r, refusal) /\ UNCHANGED <<sigs, status, row>>
  BY DEF RecordSignature
<1> HIDE DEF refusal
<1> QED
  BY <1>5, <1>6, <1>7, <1>8

(* A submission commits. *)
LEMMA SubmitCommitKeeps ==
  ASSUME IInv, NEW r \in Requests, SubmitCommit(r)
  PROVE  IInv'
<1> DEFINE d == req[r].doc  ch == req[r].copy
<1>1. /\ req[r].pc = "commit" /\ req[r].pc \in Holding
      /\ status' = [status EXCEPT ![d] = "PENDING_APPROVAL"]
      /\ chain' = [chain EXCEPT ![d] = ch]
      /\ required' = [required EXCEPT ![d] = AtLeastOne(Cardinality(DOMAIN ch))]
      /\ lock' = [lock EXCEPT ![d] = Nobody]
      /\ Answer(r, "PENDING_APPROVAL")
      /\ UNCHANGED <<sigs, title, typeChain, policy, row, age, push>>
  BY DEF SubmitCommit, At, settings, sessions, Holding
<1>2. /\ req[r] \in RequestRecords /\ Busy(req[r], push, age) /\ d \in Docs /\ req[r].op = "submit"
  BY <1>1, RequestTyped DEF Busy, Ops, CountersOf
<1>3. ch \in Chains /\ AtLeastOne(Cardinality(DOMAIN ch)) \in Nat
  <2>1. ch \in Chains
    BY <1>2 DEF RequestRecords
  <2> QED
    BY <2>1, ChainIsFinite DEF AtLeastOne
<1>4. /\ RequestsGood'
      /\ req'[r].pc \notin Holding \cup {"pair"}
      /\ \A x \in Requests \ {r} : req'[x] = req[x]
  BY <1>1, <1>2, HolderEnds
<1>5. TablesOK'
  BY <1>1, <1>2, <1>3 DEF IInv, TablesOK, Ledger!Statuses
<1>6. SignersOnce' /\ SignatureRestsOnApproval' /\ RowsTrue'
  BY <1>1, SessionsUntouched
<1>7. PairsFresh'
  BY <1>1, <1>4, MoveKeepsPairs
<1>8. LocksHeld'
  <2>1. \A e \in Docs \ {d} : status'[e] = status[e]
    BY <1>1 DEF IInv, TablesOK
  <2> QED
    BY <1>1, <1>4, <2>1, LockReleased
<1> QED
  BY <1>4, <1>5, <1>6, <1>7, <1>8 DEF IInv

(* The single statements of a rename and of a rejection. *)
LEMMA ApplyKeeps ==
  ASSUME IInv, NEW r \in Requests, RenameApply(r) \/ RejectApply(r)
  PROVE  IInv'
<1> DEFINE q0 == req[r]  d == req[r].doc
<1>1. /\ q0.pc = "apply" /\ ~At(r, "idle") /\ lock[d] = Nobody
      /\ q0.op \in {"rename", "reject"}
      /\ UNCHANGED <<chain, required, sigs, settings, sessions, lock>>
  BY DEF RenameApply, RejectApply, At
<1>2. Busy(q0, push, age) /\ q0 \in RequestRecords /\ d \in Docs
  BY <1>1, RequestTyped DEF Busy
<1>3. PICK a : Answer(r, a)
  BY DEF RenameApply, RejectApply
<1>4. /\ title' \in [Docs -> Titles]
      /\ status' \in [Docs -> Ledger!Statuses] /\ \A e \in Docs \ {d} : status'[e] = status[e]
  <2>1. CASE RenameApply(r)
    BY <1>2, <2>1 DEF RenameApply, Busy, Holds, IInv, TablesOK
  <2>2. CASE RejectApply(r)
    BY <1>2, <2>2 DEF RejectApply, IInv, TablesOK, Ledger!Statuses
  <2> QED
    BY <2>1, <2>2
<1>5. Good(Answered(q0, a), push, age, sigs) /\ Answered(q0, a).pc = "idle"
  BY <1>1, <1>2, RequestTyped, AnsweredGood, AnsweredRecord
<1>6. RequestsGood' /\ req'[r].pc = "idle" /\ \A x \in Requests \ {r} : req'[x] = req[x]
  BY <1>1, <1>3, <1>5, AnswerIs, NothingGrown, OneMoves DEF sessions
<1>7. TablesOK' /\ SignersOnce' /\ SignatureRestsOnApproval' /\ RowsTrue'
  BY <1>1, <1>4, SessionsUntouched DEF IInv, TablesOK, settings, sessions
<1>8. PairsFresh'
  BY <1>1, <1>6, MoveKeepsPairs DEF sessions
<1>9. LocksHeld'
  BY <1>1, <1>4, <1>6, MoveKeepsLocks DEF Holding
<1> QED
  BY <1>6, <1>7, <1>8, <1>9 DEF IInv

(* A request dies, and its transaction with it. *)
LEMMA DieKeeps ==
  ASSUME IInv, NEW r \in Requests, Die(r)
  PROVE  IInv'
<1>1. /\ ~At(r, "idle") /\ Answer(r, "error") /\ req[r].pc # "idle"
      /\ lock' = [d \in Docs |-> IF lock[d] = r THEN Nobody ELSE lock[d]]
      /\ UNCHANGED <<tables, push>>
  BY DEF Die, At
<1>2. Good(Answered(req[r], "error"), push, age, sigs) /\ Answered(req[r], "error").pc = "idle"
  BY <1>1, RequestTyped, AnsweredGood, AnsweredRecord
<1>3. RequestsGood' /\ req'[r].pc = "idle" /\ \A x \in Requests \ {r} : req'[x] = req[x]
  BY <1>1, <1>2, AnswerIs, NothingGrown, OneMoves DEF tables
<1>4. TablesOK' /\ SignersOnce' /\ SignatureRestsOnApproval' /\ RowsTrue'
  BY <1>1, SessionsUntouched DEF IInv, TablesOK, tables
<1>5. PairsFresh'
  BY <1>1, <1>3, MoveKeepsPairs DEF tables
<1>6. LocksHeld'
  <2>1. lock' \in [Docs -> Requests \cup {Nobody}]
    BY <1>1 DEF IInv, LocksHeld
  <2>2. ASSUME NEW d \in Docs, lock'[d] # Nobody
        PROVE  req'[lock'[d]].doc = d /\ req'[lock'[d]].pc \in Holding
    <3>1. lock'[d] = lock[d] /\ lock[d] # r /\ lock[d] \in Requests
      BY <1>1, <2>2 DEF IInv, LocksHeld
    <3> QED
      BY <1>3, <2>2, <3>1 DEF IInv, LocksHeld
  <2>3. ASSUME NEW x \in Requests, req'[x].pc \in Holding
        PROVE  /\ lock'[req'[x].doc] = x
               /\ req'[x].pc = "record" => Pending(req'[x].doc)
               /\ req'[x].pc = "commit" => status[req'[x].doc] \in {"ABSENT", "DRAFT"}
    <3>1. x # r /\ req'[x] = req[x]
      BY <1>3, <2>3 DEF Holding
    <3>2. req[x].doc \in Docs /\ lock[req[x].doc] = x
      BY <2>3, <3>1, RequestTyped DEF Busy, Holding, IInv, LocksHeld
    <3> QED
      BY <1>1, <2>3, <3>1, <3>2 DEF IInv, LocksHeld
  <2> QED
    BY <1>1, <2>1, <2>2, <2>3 DEF LocksHeld, Pending, tables
<1> QED
  BY <1>3, <1>4, <1>5, <1>6 DEF IInv
-----------------------------------------------------------------------------
(* Steps in which no request moves. *)
LEMMA WorldMoves ==
  ASSUME IInv, UNCHANGED <<status, sigs, lock, req>>,
         Grown(push, push', age, age', sigs, sigs'),
         TablesOK', SignatureRestsOnApproval', RowsTrue', row' = row
  PROVE  IInv'
<1>1. RequestsGood'
  BY StaysGood DEF IInv, RequestsGood
<1>2. SignersOnce' /\ PairsFresh' /\ LocksHeld'
  BY DEF IInv, SignersOnce, PairsFresh, LocksHeld, Pending
<1> QED
  BY <1>1, <1>2 DEF IInv

(* An administrator saves a chain or a policy. *)
LEMMA ConfigureKeeps ==
  ASSUME IInv, Configure
  PROVE  IInv'
<1>1. UNCHANGED <<documents, sessions, lock, req>>
  BY DEF Configure, SaveSignaturePolicy, ReplaceWorkflow
<1>2. TablesOK'
  <2>1. ASSUME NEW t \in DocTypes, NEW allowed \in EditedPolicies, SaveSignaturePolicy(t, allowed)
        PROVE  TablesOK'
    <3>1. allowed \in (SUBSET Methods) \ {{}}
      BY SigningAssumption DEF Methods
    <3> QED
      BY <2>1, <3>1 DEF SaveSignaturePolicy, IInv, TablesOK, documents, sessions
  <2>2. ASSUME NEW t \in DocTypes, NEW ch \in EditedChains, ReplaceWorkflow(t, ch)
        PROVE  TablesOK'
    <3>1. ch \in StoredChains
      BY SigningAssumption, SaveableIsStored
    <3> QED
      BY <2>2, <3>1 DEF ReplaceWorkflow, IInv, TablesOK, documents, sessions
  <2> QED
    BY <2>1, <2>2 DEF Configure
<1>3. /\ Grown(push, push', age, age', sigs, sigs')
      /\ SignatureRestsOnApproval' /\ RowsTrue'
  BY <1>1, NothingGrown, SessionsUntouched DEF documents, sessions
<1> QED
  BY <1>1, <1>2, <1>3, WorldMoves DEF documents, sessions

(* E-ID settles a running session, once. *)
LEMMA RespondKeeps ==
  ASSUME IInv, NEW s \in SessionIds, push[s].state = "RUNNING",
         NEW p \in Approvals(s) \cup Refusals(s), Respond(s, p)
  PROVE  IInv'
<1>1. push' = [push EXCEPT ![s] = p] /\ UNCHANGED <<tables, lock, req>>
  BY DEF Respond
<1>2. push[s] \in [state : {"RUNNING", "COMPLETE", "REFUSED", "EXPIRED"},
                   to : Citizens, by : Citizens \cup {Nobody}, doc : Docs, title : Titles]
  BY DEF IInv, TablesOK, Push
<1>3. p \in Push /\ p.state # "unused" /\ p.doc = push[s].doc /\ p.to = push[s].to
  <2>1. CASE p \in Approvals(s)
    BY <1>2, <2>1 DEF Approvals, Push
  <2>2. CASE p \in Refusals(s)
    BY <1>2, <2>2 DEF Refusals, Push
  <2> QED
    BY <2>1, <2>2
<1>4. /\ push' \in [SessionIds -> Push] /\ push'[s] = p
      /\ \A x \in SessionIds \ {s} : push'[x] = push[x]
  BY <1>1, <1>3 DEF IInv, TablesOK
<1>5. Grown(push, push', age, age', sigs, sigs')
  BY <1>1, <1>3, <1>4 DEF Grown, tables
<1>6. TablesOK'
  BY <1>1, <1>4 DEF IInv, TablesOK, tables
<1>7. SignatureRestsOnApproval'
  BY <1>1, <1>4 DEF IInv, SignatureRestsOnApproval, tables
<1>8. RowsTrue'
  BY <1>1, <1>3, <1>4 DEF IInv, RowsTrue, tables
<1> QED
  BY <1>1, <1>5, <1>6, <1>7, <1>8, WorldMoves DEF tables

(* A session gets older. *)
LEMMA ElapseKeeps ==
  ASSUME IInv, NEW s \in SessionIds, Elapse(s)
  PROVE  IInv'
<1>1. /\ age[s] < MaxAge /\ age' = [age EXCEPT ![s] = @ + 1]
      /\ UNCHANGED <<documents, settings, row, push, lock, req>>
  BY DEF Elapse
<1>2. MaxAge \in Nat /\ age[s] \in Nat
  BY SigningAssumption DEF IInv, TablesOK
<1>3. TablesOK'
  BY <1>1, <1>2 DEF IInv, TablesOK, documents, settings
<1>4. Grown(push, push', age, age', sigs, sigs')
  BY <1>1, <1>2 DEF Grown, documents, IInv, TablesOK
<1>5. SignatureRestsOnApproval' /\ RowsTrue'
  BY <1>1, SessionsUntouched DEF documents
<1> QED
  BY <1>1, <1>3, <1>4, <1>5, WorldMoves DEF documents
-----------------------------------------------------------------------------
(* The constants meet what DocumentLedger assumes of them, and its operators on
   chains and ledgers are the ones used here. *)
LEMMA SameCounting ==
  /\ \A S : (LP!IsFiniteSet(S) <=> IsFiniteSet(S)) /\ LP!Cardinality(S) = Cardinality(S)
  /\ \A S : (Ledger!IsFiniteSet(S) <=> IsFiniteSet(S)) /\ Ledger!Cardinality(S) = Cardinality(S)
<1>1. \A S : (LP!IsFiniteSet(S) <=> IsFiniteSet(S)) /\ (Ledger!IsFiniteSet(S) <=> IsFiniteSet(S))
  BY DEF LP!IsFiniteSet, Ledger!IsFiniteSet, IsFiniteSet
<1>2. \A S : LP!Cardinality(S) = Cardinality(S) /\ Ledger!Cardinality(S) = Cardinality(S)
  BY DEF LP!Cardinality, Ledger!Cardinality, Cardinality
<1> QED
  BY <1>1, <1>2

(* Sets the three instances of ApprovalChain have in common. *)
LEMMA SameSets ==
  /\ LP!Citizens = Citizens /\ Ledger!Citizens = Citizens
  /\ LP!StoredChains = StoredChains /\ Ledger!StoredChains = StoredChains
  /\ LP!Chains = Chains /\ Ledger!Chains = Chains
  /\ LP!Signatures = Signatures
  /\ LP!SaveableChains = SaveableChains /\ Ledger!SaveableChains = SaveableChains
<1>1. LP!Citizens = Citizens /\ Ledger!Citizens = Citizens
  BY DEF LP!Citizens, Ledger!Citizens, Citizens,
         LP!normaliseRegNumber, Ledger!normaliseRegNumber, normaliseRegNumber
<1>2. LP!StepNumbers = StepNumbers /\ Ledger!StepNumbers = StepNumbers
  BY DEF LP!StepNumbers, Ledger!StepNumbers, StepNumbers
<1> QED
  BY <1>1, <1>2
     DEF LP!StoredChains, Ledger!StoredChains, StoredChains, LP!Chains, Ledger!Chains, Chains,
         LP!Signatures, Signatures, LP!SaveableChains, Ledger!SaveableChains, SaveableChains

(* What DocumentLedger assumes of its constants. *)
LEMMA LedgerConstants ==
  /\ TypeOf \in [Docs -> DocTypes]
  /\ InitialChains \subseteq LP!StoredChains
  /\ MaxInherited \in Nat
  /\ Nobody \notin LP!Chains
  BY SigningAssumption, SameSets

(* What a document brings through the migration is a finite ledger. *)
LEMMA InheritedType ==
  ASSUME NEW led \in Ledger!InheritedLedgers
  PROVE  led \in SUBSET Signatures /\ IsFiniteSet(led)
<1>1. led \in LP!InheritedLedgers
  BY DEF Ledger!InheritedLedgers, LP!InheritedLedgers, Ledger!Citizens, LP!Citizens,
         Ledger!normaliseRegNumber, LP!normaliseRegNumber, Ledger!Cardinality, LP!Cardinality,
         Ledger!IsFiniteSet, LP!IsFiniteSet
<1>2. led \in SUBSET LP!Signatures /\ LP!IsFiniteSet(led)
  BY <1>1, LP!InheritedLedgersType, LedgerConstants, ChainAssumption
<1> QED
  BY <1>2, SameSets, SameCounting

(* What it asks for is a number. *)
LEMMA RequirementType ==
  ASSUME NEW led \in SUBSET Signatures, IsFiniteSet(led), NEW ch \in Chains
  PROVE  Ledger!Requirement(ch, led) \in Nat
<1>1. Ledger!Requirement(ch, led) = LP!Requirement(ch, led)
  BY SameCounting DEF Ledger!Requirement, LP!Requirement, Ledger!AtLeastOne, LP!AtLeastOne,
                      Ledger!Parked, LP!Parked
<1> QED
  BY <1>1, LP!RequirementCovers, LedgerConstants, ChainAssumption, SameSets, SameCounting

(* A ledger brought through the migration, and the same with how each signature came. *)
Brought(led) == {[step |-> g.step, signer |-> g.signer, via |-> "inherited"] : g \in led}

(* Marked as inherited, it is the same ledger. *)
LEMMA BroughtIs ==
  ASSUME NEW led \in Ledger!InheritedLedgers
  PROVE  /\ Brought(led) \in SUBSET LedgerSignatures /\ IsFiniteSet(Brought(led))
         /\ \A g, h \in Brought(led) : g.signer = h.signer => g = h
         /\ \A g \in Brought(led) : g.via = "inherited"
         /\ Bare(Brought(led)) = led
<1>1. led \in SUBSET Signatures /\ IsFiniteSet(led)
  BY InheritedType
<1>2. \A g, h \in led : g.signer = h.signer => g = h
  BY DEF Ledger!InheritedLedgers
<1> DEFINE f == [g \in led |-> [step |-> g.step, signer |-> g.signer, via |-> "inherited"]]
<1>3. IsFiniteSet(Brought(led))
  <2>1. f \in Surjection(led, Brought(led))
    BY DEF Surjection, Brought
  <2> QED
    BY <1>1, <2>1, FS_Surjection
<1>4. Brought(led) \in SUBSET LedgerSignatures
  BY <1>1 DEF Brought, LedgerSignatures, Signatures, Via
<1>5. \A g \in Brought(led) : g.via = "inherited"
  BY DEF Brought
<1>6. \A g, h \in Brought(led) : g.signer = h.signer => g = h
  BY <1>2 DEF Brought
<1>7. Bare(Brought(led)) = led
  <2>1. \A g \in led : [step |-> g.step, signer |-> g.signer] = g
    BY <1>1 DEF Signatures
  <2>2. ASSUME NEW x \in Bare(Brought(led)) PROVE x \in led
    <3>1. PICK b \in Brought(led) : x = [step |-> b.step, signer |-> b.signer]
      BY DEF Bare
    <3>2. PICK g \in led : b = [step |-> g.step, signer |-> g.signer, via |-> "inherited"]
      BY DEF Brought
    <3> QED
      BY <2>1, <3>1, <3>2
  <2>3. ASSUME NEW x \in led PROVE x \in Bare(Brought(led))
    <3> DEFINE b == [step |-> x.step, signer |-> x.signer, via |-> "inherited"]
    <3>1. b \in Brought(led) /\ b.step = x.step /\ b.signer = x.signer
      BY DEF Brought
    <3> HIDE DEF b
    <3> QED
      BY <2>1, <3>1 DEF Bare
  <2> QED
    BY <2>2, <2>3
<1> QED
  BY <1>3, <1>4, <1>5, <1>6, <1>7
-----------------------------------------------------------------------------
(* Documents arrive with no ceremony behind their signatures. *)
LEMMA InitIInv == Init => IInv
<1> SUFFICES ASSUME Init PROVE IInv
  OBVIOUS
<1>1. \A d \in Docs : chain[d] \in Chains
  <2>1. ASSUME NEW ch \in {fillableChain(s) : s \in InitialChains} \cup {Ledger!NoChain}
        PROVE  ch \in Chains
    <3>1. Ledger!NoChain \in Chains
      <4>1. [k \in {} |-> Open] \in [{} -> Citizens \cup {Open}]
        OBVIOUS
      <4> QED
        BY <4>1 DEF Ledger!NoChain, Chains
    <3> QED
      BY <2>1, <3>1, FillableChainNamesOnce, SigningAssumption
  <2> QED
    BY <2>1 DEF Init
<1>2. PICK led \in [Docs -> Ledger!InheritedLedgers] :
        /\ required = [d \in Docs |-> Ledger!Requirement(chain[d], led[d])]
        /\ sigs = [d \in Docs |-> Brought(led[d])]
  BY DEF Init, Brought
<1>3. \A d \in Docs : sigs[d] = Brought(led[d]) /\ led[d] \in Ledger!InheritedLedgers
  BY <1>2
<1>4. \A d \in Docs : \A g \in sigs[d] : g.via \notin SessionIds
  BY <1>3, BroughtIs, SigningAssumption
<1>5. /\ push = [s \in SessionIds |-> [state |-> "unused"]]
      /\ row = [s \in SessionIds |-> "none"] /\ age = [s \in SessionIds |-> 0]
      /\ lock = [d \in Docs |-> Nobody] /\ req = [r \in Requests |-> Idle]
  BY DEF Init
<1>6. TablesOK
  <2>1. status \in [Docs -> Ledger!Statuses] /\ chain \in [Docs -> Chains]
    BY <1>1 DEF Init, Ledger!Statuses
  <2>2. required \in [Docs -> Nat]
    BY <1>1, <1>2, <1>3, InheritedType, RequirementType
  <2>3. sigs \in [Docs -> SUBSET LedgerSignatures] /\ \A d \in Docs : IsFiniteSet(sigs[d])
    BY <1>2, <1>3, BroughtIs
  <2>4. typeChain \in [DocTypes -> StoredChains]
    BY SigningAssumption DEF Init
  <2>5. title \in [Docs -> Titles] /\ policy \in [DocTypes -> (SUBSET Methods) \ {{}}]
    BY DEF Init, Methods
  <2>6. /\ row \in [SessionIds -> {"none", "unspent", "spent"}]
        /\ age \in [SessionIds -> 0..MaxAge] /\ push \in [SessionIds -> Push]
    BY <1>5, SigningAssumption DEF Push
  <2> QED
    BY <2>1, <2>2, <2>3, <2>4, <2>5, <2>6 DEF TablesOK
<1>7. SignersOnce
  BY <1>3, BroughtIs DEF SignersOnce
<1>8. SignatureRestsOnApproval /\ RowsTrue
  BY <1>4, <1>5 DEF SignatureRestsOnApproval, RowsTrue
<1>9. RequestsGood
  <2>1. Good(Idle, push, age, sigs)
    BY IdleIsARecord DEF Good, Backed
  <2> HIDE DEF Idle
  <2> QED
    BY <1>5, <2>1, IdleIsARecord DEF RequestsGood
<1>10. PairsFresh /\ LocksHeld
  <2>1. \A r \in Requests : req[r].pc = "idle"
    BY <1>5, IdleIsARecord
  <2> QED
    BY <1>5, <2>1 DEF PairsFresh, LocksHeld, Holding
<1> QED
  BY <1>6, <1>7, <1>8, <1>9, <1>10 DEF IInv

(* Every step keeps the invariant. *)
LEMMA NextIInv == IInv /\ [Next]_vars => IInv'
<1> SUFFICES ASSUME IInv, [Next]_vars PROVE IInv'
  OBVIOUS
<1>1. ASSUME NEW r \in Requests, Call(r) PROVE IInv'
  BY <1>1, BeginKeeps
<1>2. ASSUME NEW r \in Requests, Step(r) PROVE IInv'
  BY <1>2, PreflightKeeps, StartSweepKeeps, StartPushKeeps, StartPairKeeps, StartRetireKeeps,
     PollReadsKeep, PollExpireKeeps, PollDropKeeps, RecordLockKeeps, RecordSignatureKeeps,
     RenameSnapshotKeeps, ApplyKeeps, SubmitLockKeeps, SubmitCommitKeeps DEF Step
<1>3. ASSUME NEW r \in Requests, Die(r) PROVE IInv'
  BY <1>3, DieKeeps
<1>4. ASSUME Configure PROVE IInv'
  BY <1>4, ConfigureKeeps
<1>5. ASSUME Environment PROVE IInv'
  BY <1>5, RespondKeeps, ElapseKeeps DEF Environment
<1>6. ASSUME UNCHANGED vars PROVE IInv'
  <2>1. UNCHANGED <<status, sigs, lock, req>> /\ row' = row
        /\ Grown(push, push', age, age', sigs, sigs')
    BY <1>6, NothingGrown DEF vars
  <2>2. TablesOK' /\ SignatureRestsOnApproval' /\ RowsTrue'
    BY <1>6, SessionsUntouched DEF vars, IInv, TablesOK
  <2> QED
    BY <2>1, <2>2, WorldMoves
<1> QED
  BY <1>1, <1>2, <1>3, <1>4, <1>5, <1>6 DEF Next

(* The invariant holds in every state a run reaches. *)
THEOREM Invariance == Spec => []IInv
  BY InitIInv, NextIInv, PTL DEF Spec

(* The tables, the sessions and the locks hold what they should; a lock is held
   by a request at work on that document. *)
THEOREM TypesHold == Spec => []TypeOK
<1>1. IInv => TypeOK
  <2> SUFFICES ASSUME IInv PROVE TypeOK
    OBVIOUS
  <2>1. \A d \in Docs : \A g \in sigs[d] :
          g.step \in Nat /\ g.signer \in Citizens /\ g.via \in Via
    BY DEF IInv, TablesOK, LedgerSignatures
  <2>2. \A r \in Requests : req[r].pc \in Counters
    BY DEF IInv, RequestsGood, RequestRecords
  <2>3. lock \in [Docs -> Requests \cup {Nobody}]
        /\ \A d \in Docs : lock[d] \in Requests =>
             req[lock[d]].doc = d /\ req[lock[d]].pc \in {"record", "commit"}
    BY SigningAssumption DEF IInv, LocksHeld, Holding
  <2> QED
    BY <2>1, <2>2, <2>3 DEF IInv, TablesOK, TypeOK
<1> QED
  BY <1>1, Invariance, PTL

(* A signature recorded through E-ID rests on an approval of the citizen it is
   credited to, given for the document it is on (PollEIDSign, recordSignature). *)
THEOREM SignaturesRestOnApprovals == Spec => []SignatureRestsOnApproval
<1>1. IInv => SignatureRestsOnApproval
  BY DEF IInv
<1> QED
  BY <1>1, Invariance, PTL

(* A pairing is marked spent by the transaction that writes its signature and by
   no other, and no pairing brings two signatures (recordSignature). *)
THEOREM SpentMeansSigned == Spec => []SpentIffSigned
<1>1. ASSUME IInv, NEW s \in SessionIds
      PROVE  LET made == {m \in Docs \X UNION {sigs[d] : d \in Docs} :
                              m[2] \in sigs[m[1]] /\ m[2].via = s}
             IN  /\ Cardinality(made) <= 1
                 /\ made # {} <=> row[s] = "spent"
                 /\ \A m \in made : push[s].doc = m[1]
  <2> DEFINE made == {m \in Docs \X UNION {sigs[d] : d \in Docs} :
                              m[2] \in sigs[m[1]] /\ m[2].via = s}
  <2>1. ASSUME NEW m \in made
        PROVE  /\ m = <<m[1], m[2]>> /\ m[1] \in Docs /\ m[2] \in sigs[m[1]]
               /\ push[s].doc = m[1] /\ push[s].to = m[2].signer /\ row[s] = "spent"
    BY <1>1 DEF IInv, SignatureRestsOnApproval, RowsTrue
  <2>2. \A m, n \in made : m = n
    <3> SUFFICES ASSUME NEW m \in made, NEW n \in made PROVE m = n
      OBVIOUS
    <3>1. m[1] = n[1] /\ m[2].signer = n[2].signer /\ m[2] \in sigs[m[1]] /\ n[2] \in sigs[m[1]]
          /\ m[1] \in Docs
      BY <2>1
    <3>2. m[2] = n[2]
      BY <1>1, <3>1 DEF IInv, SignersOnce
    <3> QED
      BY <2>1, <3>1, <3>2
  <2>3. row[s] = "spent" => made # {}
    <3> SUFFICES ASSUME row[s] = "spent" PROVE made # {}
      OBVIOUS
    <3>1. PICK g \in sigs[push[s].doc] : push[s].doc \in Docs /\ g.via = s
      BY <1>1 DEF IInv, RowsTrue
    <3>2. <<push[s].doc, g>> \in made
      BY <3>1
    <3> QED
      BY <3>2
  <2>4. Cardinality(made) <= 1
    <3>1. CASE made = {}
      <4>1. Cardinality(made) = 0
        BY <3>1, FS_EmptySet
      <4> QED
        BY <4>1
    <3>2. CASE made # {}
      <4>1. PICK m \in made : made = {m}
        BY <2>2, <3>2
      <4>2. Cardinality(made) = 1
        BY <4>1, FS_Singleton
      <4> QED
        BY <4>2
    <3> QED
      BY <3>1, <3>2
  <2> QED
    BY <2>1, <2>3, <2>4
<1>2. IInv => SpentIffSigned
  BY <1>1 DEF SpentIffSigned
<1> QED
  BY <1>2, Invariance, PTL

(* A poll that says COMPLETE within the deadline speaks of a document that session
   has signed, whatever other polls and starts did meanwhile (PollEIDSign). *)
THEOREM CompleteMeansItWasSigned == Spec => []CompleteInTimeMeansSigned
<1>1. IInv => CompleteInTimeMeansSigned
  BY DEF IInv, RequestsGood, Good, Busy, Backed, CompleteInTimeMeansSigned
<1> QED
  BY <1>1, Invariance, PTL
-----------------------------------------------------------------------------
(* The step PairingKept speaks of. *)
PairingStep ==
    \A s \in SessionIds : row[s] = "unspent" /\ row'[s] = "none" =>
        \/ age[s] > 0
        \/ push[s].state \in {"REFUSED", "EXPIRED"}
        \/ \E x \in SessionIds \ {s} :
             push[x].state # "unused" /\ push[x].doc = push[s].doc /\ push[x].to = push[s].to

(* A pairing still in use is deleted by no step but an expiry, a refusal, or a
   later ceremony of the same citizen on the same document. *)
THEOREM PairingsAreKept == Spec => PairingKept
<1>1. ASSUME IInv, NEW s \in SessionIds, row[s] = "unspent", row'[s] = "none",
             NEW r \in Requests, StartSweep(r) \/ StartRetire(r) \/ PollExpire(r) \/ PollDrop(r)
      PROVE  \/ age[s] > 0
             \/ push[s].state \in {"REFUSED", "EXPIRED"}
             \/ \E x \in SessionIds \ {s} :
                  push[x].state # "unused" /\ push[x].doc = push[s].doc /\ push[x].to = push[s].to
  <2> DEFINE q0 == req[r]  x == req[r].session
  <2>1. Busy(q0, push, age) /\ q0.pc \in {"sweep", "retire", "expire", "drop"} /\ age[s] \in Nat
        /\ age[s] \in 0..MaxAge
    BY <1>1, RequestTyped, SigningAssumption
       DEF StartSweep, StartRetire, PollExpire, PollDrop, At, IInv, TablesOK
  <2>2. CASE StartSweep(r)
    BY <1>1, <2>1, <2>2 DEF StartSweep, Delete
  <2>3. CASE StartRetire(r)
    <3>1. /\ x \in SessionIds /\ push[x].state # "unused"
          /\ push[x].doc = q0.doc /\ push[x].to = q0.who
      BY <2>1, <2>3 DEF StartRetire, At, Busy, Holds
    <3>2. s \in AskedOf(q0.doc, q0.who) \ {x}
      BY <1>1, <2>3 DEF StartRetire, Delete
    <3>3. push[s].doc = q0.doc /\ push[s].to = q0.who /\ x # s
      BY <3>2 DEF AskedOf, Unspent
    <3> QED
      BY <3>1, <3>3
  <2>4. CASE PollExpire(r)
    <3>1. age[x] # 0 /\ s = x
      BY <1>1, <2>1, <2>4 DEF PollExpire, Delete, At, Busy, Polls, Ops, CountersOf
    <3> QED
      BY <2>1, <3>1
  <2>5. CASE PollDrop(r)
    BY <1>1, <2>1, <2>5 DEF PollDrop, Delete, At, Busy, Polls, Ops, CountersOf
  <2> QED
    BY <1>1, <2>2, <2>3, <2>4, <2>5
<1>2. ASSUME IInv, NEW s \in SessionIds, row[s] = "unspent", row'[s] = "none", [Next]_vars
      PROVE  \E r \in Requests : StartSweep(r) \/ StartRetire(r) \/ PollExpire(r) \/ PollDrop(r)
  <2>1. row' # row
    BY <1>2
  <2>2. CASE \E r \in Requests : Step(r)
    <3>1. PICK r \in Requests : Step(r)
      BY <2>2
    <3>2. ~StartPair(r) /\ ~RecordSignature(r)
      BY <1>2 DEF StartPair, RecordSignature, Spend, IInv, TablesOK
    <3> QED
      BY <2>1, <3>1, <3>2
         DEF Step, PreflightDocument, PreflightPolicy, PreflightPosition, AuthenticateDAN,
             AlreadySigned, StartTitle, StartPush, PollFind, PollAsk, PollRecheck,
             RecordLock, RenameSnapshot, RenameApply, RejectApply, SubmitLock, SubmitCommit,
             tables, sessions
  <2>3. CASE (\E r \in Requests : Call(r) \/ Die(r)) \/ Configure \/ Environment \/ UNCHANGED vars
    BY <2>1, <2>3 DEF Call, Begin, Die, Configure, SaveSignaturePolicy, ReplaceWorkflow,
         Environment, Respond, Elapse, tables, sessions, vars
  <2> QED
    BY <1>2, <2>2, <2>3 DEF Next
<1>3. IInv /\ [Next]_vars => [PairingStep]_vars
  BY <1>1, <1>2 DEF PairingStep
<1> QED
  BY <1>3, Invariance, PTL DEF Spec, PairingKept, PairingStep

(* Only four statements write a document. *)
LEMMA DocumentsWritten ==
  ASSUME [Next]_vars
  PROVE  \/ UNCHANGED documents
         \/ \E r \in Requests :
              RecordSignature(r) \/ RenameApply(r) \/ RejectApply(r) \/ SubmitCommit(r)
<1>1. ASSUME NEW r \in Requests, Step(r)
      PROVE  \/ UNCHANGED documents
             \/ RecordSignature(r) \/ RenameApply(r) \/ RejectApply(r) \/ SubmitCommit(r)
  BY <1>1 DEF Step, PreflightDocument, PreflightPolicy, PreflightPosition, AuthenticateDAN,
             AlreadySigned, StartTitle, StartSweep, StartPush, StartPair, StartRetire,
             PollFind, PollExpire, PollAsk, PollDrop, PollRecheck,
             RecordLock, RenameSnapshot, SubmitLock, tables, documents
<1>2. ASSUME NEW r \in Requests, Call(r) \/ Die(r) PROVE UNCHANGED documents
  BY <1>2 DEF Call, Begin, Die, tables, documents
<1>3. Configure => UNCHANGED documents
  BY DEF Configure, SaveSignaturePolicy, ReplaceWorkflow
<1>4. Environment => UNCHANGED documents
  BY DEF Environment, Respond, Elapse, tables, documents
<1>5. UNCHANGED vars => UNCHANGED documents
  BY DEF vars, documents
<1> QED
  BY <1>1, <1>2, <1>3, <1>4, <1>5 DEF Next

(* What recordSignature writes, when it writes. *)
LEMMA RecordWrites ==
  ASSUME NEW r \in Requests, RecordSignature(r)
  PROVE  LET q == req[r]  d == req[r].doc IN
         \/ UNCHANGED <<sigs, status>>
         \/ /\ checkSigner(chain[d], Bare(sigs[d]), q.who)
            /\ q.who \notin Signers(sigs[d])
            /\ \E k \in 1..(MaxChainSteps + Cardinality(sigs[d]) + 1) :
                 /\ RecordedOn(chain[d], Bare(sigs[d]), k)
                 /\ sigs' = [sigs EXCEPT ![d] = @ \cup {SignatureOf(q, k)}]
            /\ status' = [status EXCEPT ![d] =
                  IF Complete(chain[d], Bare(sigs'[d]), required[d]) THEN "APPROVED" ELSE @]
<1>1. CASE /\ checkSigner(chain[req[r].doc], Bare(sigs[req[r].doc]), req[r].who)
           /\ req[r].who \notin Signers(sigs[req[r].doc])
           /\ Insert(req[r]) /\ Decide(req[r].doc)
  BY <1>1 DEF Insert, Decide, SignatureOf
<1>2. CASE UNCHANGED <<sigs, status>>
  BY <1>2
<1> QED
  BY <1>1, <1>2 DEF RecordSignature

(* The step DecisionStands speaks of. *)
DecisionStep ==
    \A d \in Docs :
        /\ status[d] \notin {"ABSENT", "DRAFT"} =>
             /\ chain'[d] = chain[d] /\ required'[d] = required[d]
             /\ sigs[d] \subseteq sigs'[d]
        /\ status[d] \in {"APPROVED", "REJECTED"} =>
             status'[d] = status[d] /\ sigs'[d] = sigs[d] /\ title'[d] = title[d]

(* A decided document keeps its decision, ledger and title, and no document that
   waits or is decided loses a signature, its chain or its requirement. *)
THEOREM DecisionsStand == Spec => DecisionStands
<1>1. ASSUME IInv, NEW r \in Requests, RecordSignature(r) PROVE DecisionStep
  <2>1. req[r].pc = "record" /\ req[r].doc \in Docs /\ Pending(req[r].doc)
    BY <1>1, RequestTyped DEF RecordSignature, At, Busy, IInv, LocksHeld, Holding
  <2>2. UNCHANGED <<chain, required, title>>
    BY <1>1 DEF RecordSignature
  <2>3. \A d \in Docs : /\ sigs[d] \subseteq sigs'[d]
                        /\ d # req[r].doc => sigs'[d] = sigs[d] /\ status'[d] = status[d]
    BY <1>1, <2>1, RecordWrites DEF IInv, TablesOK
  <2> QED
    BY <2>1, <2>2, <2>3 DEF DecisionStep, Pending
<1>2. ASSUME IInv, NEW r \in Requests, RenameApply(r) PROVE DecisionStep
  <2>1. UNCHANGED <<status, chain, required, sigs>>
    BY <1>2 DEF RenameApply
  <2>2. \A d \in Docs : status[d] \in {"APPROVED", "REJECTED"} => title'[d] = title[d]
    BY <1>2 DEF RenameApply, Renameable, IInv, TablesOK
  <2> QED
    BY <2>1, <2>2 DEF DecisionStep
<1>3. ASSUME IInv, NEW r \in Requests, RejectApply(r) PROVE DecisionStep
  <2>1. UNCHANGED <<chain, required, sigs, title>>
    BY <1>3 DEF RejectApply
  <2>2. \A d \in Docs : status[d] \in {"APPROVED", "REJECTED"} => status'[d] = status[d]
    BY <1>3 DEF RejectApply, Pending, IInv, TablesOK
  <2> QED
    BY <2>1, <2>2 DEF DecisionStep
<1>4. ASSUME IInv, NEW r \in Requests, SubmitCommit(r) PROVE DecisionStep
  <2>1. req[r].pc = "commit" /\ status[req[r].doc] \in {"ABSENT", "DRAFT"}
    BY <1>4 DEF SubmitCommit, At, IInv, LocksHeld, Holding
  <2>2. UNCHANGED <<sigs, title>>
        /\ \A d \in Docs \ {req[r].doc} :
              chain'[d] = chain[d] /\ required'[d] = required[d] /\ status'[d] = status[d]
    BY <1>4 DEF SubmitCommit, IInv, TablesOK
  <2> QED
    BY <2>1, <2>2 DEF DecisionStep
<1>5. UNCHANGED documents => DecisionStep
  BY DEF DecisionStep, documents
<1>6. IInv /\ [Next]_vars => [DecisionStep]_vars
  BY <1>1, <1>2, <1>3, <1>4, <1>5, DocumentsWritten
<1> QED
  BY <1>6, Invariance, PTL DEF Spec, DecisionStands, DecisionStep
-----------------------------------------------------------------------------
(* A ledger without the channels: as many signatures, of the same citizens. *)
LEMMA BareIs ==
  ASSUME NEW led \in SUBSET LedgerSignatures, IsFiniteSet(led),
         \A g, h \in led : g.signer = h.signer => g = h
  PROVE  Cardinality(Bare(led)) = Cardinality(led) /\ Signers(Bare(led)) = Signers(led)
<1> DEFINE f == [g \in led |-> [step |-> g.step, signer |-> g.signer]]
<1>1. f \in Bijection(led, Bare(led))
  <2>1. f \in [led -> Bare(led)]
    BY DEF Bare
  <2>2. \A g, h \in led : f[g] = f[h] => g = h
    <3> SUFFICES ASSUME NEW g \in led, NEW h \in led, f[g] = f[h] PROVE g = h
      OBVIOUS
    <3>1. f[g].signer = g.signer /\ f[h].signer = h.signer
      OBVIOUS
    <3> QED
      BY <3>1
  <2>3. \A b \in Bare(led) : \E g \in led : f[g] = b
    BY DEF Bare
  <2> QED
    BY <2>1, <2>2, <2>3 DEF Bijection, Injection, Surjection, IsInjective
<1>2. Cardinality(Bare(led)) = Cardinality(led)
  BY <1>1, FS_Bijection DEF ExistsBijection
<1>3. Signers(Bare(led)) = Signers(led)
  <2>1. ASSUME NEW g \in led
        PROVE  /\ f[g] \in Bare(led) /\ f[g].signer = g.signer
    BY DEF Bare
  <2>2. ASSUME NEW b \in Bare(led) PROVE \E g \in led : b.signer = g.signer
    BY DEF Bare
  <2> HIDE DEF f
  <2> QED
    BY <2>1, <2>2 DEF Signers
<1> QED
  BY <1>2, <1>3

(* One signature more, its channel left out. *)
LEMMA BareGains ==
  ASSUME NEW led, NEW q, NEW k
  PROVE  Bare(led \cup {SignatureOf(q, k)}) = Bare(led) \cup {[step |-> k, signer |-> q.who]}
<1> DEFINE new == SignatureOf(q, k)
<1>1. new.step = k /\ new.signer = q.who
  BY DEF SignatureOf
<1> HIDE DEF new
<1>2. Bare(led \cup {new}) = Bare(led) \cup {[step |-> new.step, signer |-> new.signer]}
  BY Zenon DEF Bare
<1> QED
  BY <1>1, <1>2 DEF new

(* DocumentLedger's operators are the ones used here. *)
LEMMA SameOperators ==
  /\ \A ch, led, c : Ledger!checkSigner(ch, led, c) <=> checkSigner(ch, led, c)
  /\ \A ch, led, k : Ledger!RecordedOn(ch, led, k) <=> RecordedOn(ch, led, k)
  /\ \A ch, led, n : Ledger!Complete(ch, led, n) <=> Complete(ch, led, n)
  /\ \A led : Ledger!Signers(led) = Signers(led)
  /\ \A stored : Ledger!fillableChain(stored) = fillableChain(stored)
  /\ \A n : Ledger!AtLeastOne(n) = AtLeastOne(n)
<1>1. /\ \A ch, led : Ledger!Unfilled(ch, led) = Unfilled(ch, led)
      /\ \A led : Ledger!FilledSteps(led) = FilledSteps(led) /\ Ledger!Signers(led) = Signers(led)
  BY DEF Ledger!Unfilled, Unfilled, Ledger!FilledSteps, FilledSteps, Ledger!Signers, Signers
<1>2. \A ch, led, k : Ledger!IsNext(ch, led, k) <=> IsNext(ch, led, k)
  BY <1>1 DEF Ledger!IsNext, IsNext
<1>3. \A ch, led, k : Ledger!Reserved(ch, led, k) = Reserved(ch, led, k)
  BY <1>1 DEF Ledger!Reserved, Reserved
<1>4. \A ch, led, c : Ledger!checkSigner(ch, led, c) <=> checkSigner(ch, led, c)
  BY <1>2, <1>3 DEF Ledger!checkSigner, checkSigner
<1>5. \A ch, led, k : Ledger!RecordedOn(ch, led, k) <=> RecordedOn(ch, led, k)
  BY <1>1, <1>2 DEF Ledger!RecordedOn, RecordedOn
<1>6. \A ch, led, n : Ledger!Complete(ch, led, n) <=> Complete(ch, led, n)
  BY <1>1, SameCounting DEF Ledger!Complete, Complete
<1>7. \A stored : Ledger!fillableChain(stored) = fillableChain(stored)
  BY DEF Ledger!fillableChain, fillableChain, Ledger!Binds, Binds, Ledger!Named, Named,
         Ledger!normaliseRegNumber, normaliseRegNumber, Ledger!plausibleRegNumber, plausibleRegNumber
<1>8. \A n : Ledger!AtLeastOne(n) = AtLeastOne(n)
  BY DEF Ledger!AtLeastOne, AtLeastOne
<1> QED
  BY <1>1, <1>4, <1>5, <1>6, <1>7, <1>8

(* A document's copy is the one the request at its commit has read. *)
CopiesTrue ==
    \A d \in Docs :
        /\ \A r \in Requests : req[r].pc = "commit" /\ req[r].doc = d => Copied[d] = req[r].copy
        /\ (\A r \in Requests : ~(req[r].pc = "commit" /\ req[r].doc = d)) => Copied[d] = Nobody

(* The row lock makes it so. *)
LEMMA CopiesAreTrue == IInv => CopiesTrue
<1> SUFFICES ASSUME IInv, NEW d \in Docs
             PROVE  /\ \A r \in Requests : req[r].pc = "commit" /\ req[r].doc = d =>
                                             Copied[d] = req[r].copy
                    /\ (\A r \in Requests : ~(req[r].pc = "commit" /\ req[r].doc = d)) =>
                                             Copied[d] = Nobody
  BY DEF CopiesTrue
<1>1. ASSUME NEW r \in Requests, req[r].pc = "commit", req[r].doc = d
      PROVE  Copied[d] = req[r].copy
  <2>1. lock[d] = r
    BY <1>1 DEF IInv, LocksHeld, Holding
  <2> QED
    BY <1>1, <2>1 DEF Copied
<1>2. ASSUME NEW r \in Requests, lock[d] = r, req[r].pc = "commit"
      PROVE  req[r].doc = d
  BY <1>2, SigningAssumption DEF IInv, LocksHeld
<1> QED
  BY <1>1, <1>2 DEF Copied

(* And after a step too. *)
LEMMA CopiesTrueNext == IInv' => CopiesTrue'
  BY CopiesAreTrue, PTL

(* Only request r moves. *)
Moves(r) == \A x \in Requests \ {r} : req'[x] = req[x]

(* A step of r is seen in no other document's copy. *)
LEMMA CopiedElsewhere ==
  ASSUME IInv, IInv', NEW r \in Requests, Moves(r), NEW d \in Docs,
         req[r].pc = "commit" => req[r].doc # d,
         req'[r].pc = "commit" => req'[r].doc # d
  PROVE  Copied'[d] = Copied[d]
<1>1. CopiesTrue /\ CopiesTrue'
  BY CopiesAreTrue, CopiesTrueNext
<1>2. CASE \E x \in Requests : req[x].pc = "commit" /\ req[x].doc = d
  <2>1. PICK x \in Requests : req[x].pc = "commit" /\ req[x].doc = d
    BY <1>2
  <2>2. req'[x] = req[x]
    BY <2>1 DEF Moves
  <2> QED
    BY <1>1, <2>1, <2>2 DEF CopiesTrue
<1>3. CASE ~\E x \in Requests : req[x].pc = "commit" /\ req[x].doc = d
  <2>1. ~\E x \in Requests : req'[x].pc = "commit" /\ req'[x].doc = d
    BY <1>3 DEF Moves
  <2> QED
    BY <1>1, <1>3, <2>1 DEF CopiesTrue
<1> QED
  BY <1>2, <1>3

(* How the request that runs a statement moves. *)
LEMMA Moved ==
  ASSUME IInv, NEW r \in Requests, NEW q, req' = [req EXCEPT ![r] = q]
  PROVE  Moves(r) /\ req'[r] = q
  BY DEF IInv, RequestsGood, Moves

(* Goto, Answer and Refuse move the request that does them, never to a commit. *)
LEMMA GotoMoves ==
  ASSUME IInv, NEW r \in Requests, NEW pc \in Counters, Goto(r, pc)
  PROVE  Moves(r) /\ req'[r].pc = pc
  BY GotoIs, Moved

(* Answering. *)
LEMMA AnswerMoves ==
  ASSUME IInv, NEW r \in Requests, NEW a, Answer(r, a)
  PROVE  Moves(r) /\ req'[r].pc = "idle"
  BY RequestTyped, AnswerIs, AnsweredRecord, Moved

(* Refusing. *)
LEMMA RefuseMoves ==
  ASSUME IInv, NEW r \in Requests, NEW a, Refuse(r, a)
  PROVE  Moves(r) /\ req'[r].pc # "commit"
<1>1. "recheck" \in Counters
  BY DEF Counters
<1> QED
  BY <1>1, GotoMoves, AnswerMoves DEF Refuse

(* Only a submission enters the commit that copies a chain, and only that commit leaves it. *)
LEMMA StepMoves ==
  ASSUME IInv, NEW r \in Requests, Step(r), ~SubmitLock(r)
  PROVE  /\ Moves(r) /\ req'[r].pc # "commit"
         /\ req[r].pc = "commit" => SubmitCommit(r)
<1>1. \A pc \in Counters \ {"commit"} : Goto(r, pc) => Moves(r) /\ req'[r].pc # "commit"
  BY GotoMoves
<1>2. \A a : Answer(r, a) \/ Refuse(r, a) => Moves(r) /\ req'[r].pc # "commit"
  BY AnswerMoves, RefuseMoves
<1>3. \A q \in RequestRecords : req' = [req EXCEPT ![r] = q] => Moves(r) /\ req'[r] = q
  BY Moved
<1>4. req[r] \in RequestRecords
  BY RequestTyped
<1>5. {"policy", "position", "signed", "lock", "title", "push", "retire", "expire", "drop",
       "load", "record", "apply"} \subseteq Counters \ {"commit"}
  BY DEF Counters
<1>6. CASE PreflightDocument(r) \/ PreflightPolicy(r) \/ AuthenticateDAN(r) \/ AlreadySigned(r)
  BY <1>1, <1>2, <1>5, <1>6
     DEF PreflightDocument, PreflightPolicy, AuthenticateDAN, AlreadySigned, At
<1>7. CASE PreflightPosition(r)
  <2> DEFINE a == checkSigner(chain[req[r].doc], Bare(sigs[req[r].doc]), req[r].who)
             q == [req[r] EXCEPT !.pc = "gateway", !.admitted = a]
  <2>1. CASE req' = [req EXCEPT ![r].pc = "gateway", ![r].admitted = a]
    <3>1. req' = [req EXCEPT ![r] = q]
      BY <2>1
    <3>2. q.pc = "gateway"
      BY <1>4 DEF RequestRecords
    <3> HIDE DEF q
    <3> QED
      BY <1>7, <3>1, <3>2, Moved DEF PreflightPosition, At
  <2>2. CASE (\E x : Refuse(r, x)) \/ Goto(r, "signed") \/ Goto(r, "lock")
    BY <1>1, <1>2, <1>5, <1>7, <2>2 DEF PreflightPosition, At
  <2>3. \/ req[r].op = "dan" /\ req' = [req EXCEPT ![r].pc = "gateway", ![r].admitted = a]
        \/ (\E x : Refuse(r, x)) \/ Goto(r, "signed") \/ Goto(r, "lock")
    <3>1. req[r].op \in {"dan", "start", "poll"}
      BY <1>7, RequestTyped DEF PreflightPosition, At, Busy, Ops, CountersOf
    <3> QED
      BY <1>7, <3>1 DEF PreflightPosition
  <2> QED
    BY <2>1, <2>2, <2>3
<1>8. CASE StartTitle(r)
  <2> DEFINE q == [req[r] EXCEPT !.pc = "sweep", !.title = title[req[r].doc]]
  <2>1. req' = [req EXCEPT ![r] = q] /\ req[r].pc = "title"
    BY <1>8 DEF StartTitle, At
  <2>2. q.pc = "sweep"
    BY <1>4 DEF RequestRecords
  <2> HIDE DEF q
  <2> QED
    BY <2>1, <2>2, Moved
<1>9. CASE StartPush(r)
  <2>1. CASE Answer(r, "unavailable")
    BY <1>2, <1>9, <2>1 DEF StartPush, At
  <2>2. ASSUME NEW s, req' = [req EXCEPT ![r].pc = "pair", ![r].session = s]
        PROVE  Moves(r) /\ req'[r].pc # "commit"
    <3> DEFINE q == [req[r] EXCEPT !.pc = "pair", !.session = s]
    <3>1. req' = [req EXCEPT ![r] = q]
      BY <2>2
    <3>2. q.pc = "pair"
      BY <1>4 DEF RequestRecords
    <3> HIDE DEF q
    <3> QED
      BY <3>1, <3>2, Moved
  <2> QED
    BY <1>9, <2>1, <2>2 DEF StartPush, At
<1>10. CASE PollFind(r)
  <2> DEFINE q == [req[r] EXCEPT !.pc = "ask", !.who = push[req[r].session].to]
  <2>1. CASE (\E x : Answer(r, x)) \/ Goto(r, "expire")
    BY <1>1, <1>2, <1>5, <1>10, <2>1 DEF PollFind, At
  <2>2. CASE req' = [req EXCEPT ![r] = q]
    <3>1. q.pc = "ask"
      BY <1>4 DEF RequestRecords
    <3> HIDE DEF q
    <3> QED
      BY <1>10, <2>2, <3>1, Moved DEF PollFind, At
  <2>3. (\E x : Answer(r, x)) \/ Goto(r, "expire") \/ req' = [req EXCEPT ![r] = q]
    <3>1. req[r].session \in SessionIds
      BY <1>10, RequestTyped DEF PollFind, At, Busy, Ops, CountersOf, Polls
    <3>2. row[req[r].session] \in {"none", "unspent", "spent"}
          /\ (age[req[r].session] > 0 \/ age[req[r].session] = 0)
      BY <3>1, SigningAssumption DEF IInv, TablesOK
    <3> QED
      BY <1>10, <3>2 DEF PollFind, Found
  <2> QED
    BY <2>1, <2>2, <2>3
<1>11. CASE StartSweep(r) \/ StartPair(r) \/ StartRetire(r) \/ PollExpire(r) \/ PollAsk(r)
              \/ PollDrop(r) \/ PollRecheck(r)
  BY <1>1, <1>2, <1>5, <1>11
     DEF StartSweep, StartPair, StartRetire, PollExpire, PollAsk, PollDrop, PollRecheck, At
<1>12. CASE RecordLock(r) \/ RenameSnapshot(r) \/ RenameApply(r) \/ RejectApply(r) \/ SubmitCommit(r)
  BY <1>1, <1>2, <1>5, <1>12
     DEF RecordLock, RenameSnapshot, RenameApply, RejectApply, SubmitCommit, At
<1>13. CASE RecordSignature(r)
  <2>1. \E a : Answer(r, a) \/ Refuse(r, a)
    BY <1>13 DEF RecordSignature
  <2> QED
    BY <1>2, <1>13, <2>1 DEF RecordSignature, At
<1> QED
  BY <1>6, <1>7, <1>8, <1>9, <1>10, <1>11, <1>12, <1>13 DEF Step
-----------------------------------------------------------------------------
(* A step that writes none of the ledger's tables and moves no commit is nothing to it. *)
LEMMA LedgerStutters ==
  ASSUME IInv, IInv', NEW r \in Requests, Moves(r),
         req[r].pc # "commit", req'[r].pc # "commit",
         UNCHANGED <<status, chain, required, sigs, typeChain>>
  PROVE  UNCHANGED Ledger!vars
<1>1. Copied' = Copied
  <2>1. \A d \in Docs : Copied'[d] = Copied[d]
    BY CopiedElsewhere
  <2> QED
    BY <2>1 DEF Copied
<1> QED
  BY <1>1 DEF Ledger!vars

(* The transaction of recordSignature is the ledger's Sign. *)
LEMMA RecordIsSign ==
  ASSUME IInv, IInv', NEW r \in Requests, RecordSignature(r)
  PROVE  [Ledger!Next]_(Ledger!vars)
<1> DEFINE q0 == req[r]  d == req[r].doc
<1>1. /\ q0.pc = "record" /\ UNCHANGED <<chain, required, typeChain>>
      /\ d \in Docs /\ q0.who \in Citizens
  BY RequestTyped DEF RecordSignature, At, settings, Busy, Ops, CountersOf, Holds, Polls, Approved
<1>2. Moves(r) /\ req'[r].pc # "commit"
  <2>1. ~SubmitLock(r)
    BY <1>1 DEF SubmitLock, At
  <2> QED
    BY <2>1, StepMoves DEF Step
<1>3. CASE UNCHANGED <<sigs, status>>
  BY <1>1, <1>2, <1>3, LedgerStutters
<1>4. ASSUME checkSigner(chain[d], Bare(sigs[d]), q0.who),
             q0.who \notin Signers(sigs[d]),
             NEW k \in 1..(MaxChainSteps + Cardinality(sigs[d]) + 1),
             RecordedOn(chain[d], Bare(sigs[d]), k),
             sigs' = [sigs EXCEPT ![d] = @ \cup {SignatureOf(q0, k)}],
             status' = [status EXCEPT ![d] =
                  IF Complete(chain[d], Bare(sigs'[d]), required[d]) THEN "APPROVED" ELSE @]
      PROVE  Ledger!Sign(d, q0.who)
  <2> DEFINE bare == [e \in Docs |-> Bare(sigs[e])]
  <2>1. sigs[d] \in SUBSET LedgerSignatures /\ IsFiniteSet(sigs[d])
        /\ \A g, h \in sigs[d] : g.signer = h.signer => g = h
    BY <1>1 DEF IInv, TablesOK, SignersOnce
  <2>2. Cardinality(Bare(sigs[d])) = Cardinality(sigs[d])
        /\ Signers(Bare(sigs[d])) = Signers(sigs[d])
    BY <2>1, BareIs
  <2>3. sigs'[d] = sigs[d] \cup {SignatureOf(q0, k)}
        /\ \A e \in Docs \ {d} : sigs'[e] = sigs[e]
    BY <1>1, <1>4 DEF IInv, TablesOK
  <2>4. Bare(sigs'[d]) = Bare(sigs[d]) \cup {[step |-> k, signer |-> q0.who]}
    BY <2>3, BareGains
  <2>5. bare' = [bare EXCEPT ![d] = @ \cup {[step |-> k, signer |-> q0.who]}]
    BY <1>1, <2>3, <2>4
  <2>6. Copied' = Copied
    <3>1. \A e \in Docs : Copied'[e] = Copied[e]
      BY <1>1, <1>2, CopiedElsewhere
    <3> QED
      BY <3>1 DEF Copied
  <2>7. status[d] = "PENDING_APPROVAL"
    BY <1>1 DEF IInv, LocksHeld, Holding, Pending
  <2>8. bare[d] = Bare(sigs[d]) /\ bare'[d] = Bare(sigs'[d])
    BY <1>1
  <2>9. \E n \in 1..(MaxChainSteps + Ledger!Cardinality(bare[d]) + 1) :
           /\ Ledger!RecordedOn(chain[d], bare[d], n)
           /\ bare' = [bare EXCEPT ![d] = @ \cup {[step |-> n, signer |-> q0.who]}]
    BY <1>4, <2>2, <2>5, <2>8, SameOperators, SameCounting
  <2>10. status' = [status EXCEPT ![d] =
            IF Ledger!Complete(chain[d], bare'[d], required[d]) THEN "APPROVED" ELSE @]
    BY <1>4, <2>8, SameOperators
  <2>11. /\ q0.who \notin Ledger!Signers(bare[d])
         /\ Ledger!checkSigner(chain[d], bare[d], q0.who)
    BY <1>4, <2>2, <2>8, SameOperators
  <2> QED
    BY <1>1, <2>6, <2>7, <2>9, <2>10, <2>11 DEF Ledger!Sign
<1>5. (\E c \in Citizens : Ledger!Sign(d, c)) => Ledger!Next
  BY <1>1, SameSets DEF Ledger!Next
<1> QED
  BY <1>1, <1>3, <1>4, <1>5, RecordWrites

(* The first statement of a submission is the ledger's CopyChain. *)
LEMMA SubmitLockIsCopy ==
  ASSUME IInv, IInv', NEW r \in Requests, SubmitLock(r)
  PROVE  [Ledger!Next]_(Ledger!vars)
<1> DEFINE d == req[r].doc  ch == fillableChain(typeChain[TypeOf[req[r].doc]])
<1>1. /\ req[r].pc = "lock" /\ lock[d] = Nobody /\ d \in Docs /\ req[r] \in RequestRecords
      /\ UNCHANGED <<status, chain, required, sigs, typeChain>>
  BY RequestTyped DEF SubmitLock, At, tables, Busy
<1>2. CASE Answer(r, "not routable")
  BY <1>1, <1>2, AnswerMoves, LedgerStutters
<1>3. CASE /\ status[d] \in {"ABSENT", "DRAFT"}
           /\ req' = [req EXCEPT ![r].pc = "commit", ![r].copy = ch]
  <2> DEFINE q == [req[r] EXCEPT !.pc = "commit", !.copy = ch]
  <2>1. req' = [req EXCEPT ![r] = q]
    BY <1>3
  <2>2. q.pc = "commit" /\ q.copy = ch /\ q.doc = d
    BY <1>1 DEF RequestRecords
  <2> HIDE DEF q, ch
  <2>3. Moves(r) /\ req'[r] = q
    BY <2>1, Moved
  <2>4. CopiesTrue /\ CopiesTrue'
    BY CopiesAreTrue, CopiesTrueNext
  <2>5. Copied[d] = Nobody
    <3>1. \A x \in Requests : ~(req[x].pc = "commit" /\ req[x].doc = d)
      BY <1>1, SigningAssumption DEF IInv, LocksHeld, Holding
    <3> QED
      BY <1>1, <2>4, <3>1 DEF CopiesTrue
  <2>6. Copied'[d] = ch
    BY <1>1, <2>2, <2>3, <2>4 DEF CopiesTrue
  <2>7. \A e \in Docs \ {d} : Copied'[e] = Copied[e]
    BY <1>1, <2>2, <2>3, CopiedElsewhere
  <2>8. Copied' = [Copied EXCEPT ![d] = Ledger!fillableChain(typeChain[TypeOf[d]])]
    <3>1. ch = Ledger!fillableChain(typeChain[TypeOf[d]])
      BY SameOperators DEF ch
    <3>2. DOMAIN Copied = Docs /\ DOMAIN Copied' = Docs
          /\ Copied = [e \in Docs |-> Copied[e]] /\ Copied' = [e \in Docs |-> Copied'[e]]
      BY DEF Copied
    <3> HIDE DEF ch
    <3> QED
      BY <2>6, <2>7, <3>1, <3>2
  <2>9. Ledger!CopyChain(d)
    BY <1>1, <1>3, <2>5, <2>8 DEF Ledger!CopyChain, Ledger!Unrouted
  <2> QED
    BY <1>1, <2>9 DEF Ledger!Next
<1> QED
  BY <1>2, <1>3 DEF SubmitLock

(* Its commit is the ledger's Submit. *)
LEMMA CommitIsSubmit ==
  ASSUME IInv, IInv', NEW r \in Requests, SubmitCommit(r)
  PROVE  [Ledger!Next]_(Ledger!vars)
<1> DEFINE d == req[r].doc  ch == req[r].copy
<1>1. /\ req[r].pc = "commit" /\ d \in Docs /\ ch \in Chains
      /\ status[d] \in {"ABSENT", "DRAFT"}
      /\ Moves(r) /\ req'[r].pc = "idle"
  BY RequestTyped, AnswerMoves
     DEF SubmitCommit, At, Busy, IInv, LocksHeld, Holding, RequestRecords
<1>2. CopiesTrue /\ CopiesTrue'
  BY CopiesAreTrue, CopiesTrueNext
<1>3. Copied[d] = ch /\ Copied[d] # Nobody
  BY <1>1, <1>2, SigningAssumption DEF CopiesTrue
<1>4. Copied' = [Copied EXCEPT ![d] = Nobody]
  <2>1. Copied'[d] = Nobody
    <3>1. \A x \in Requests : ~(req'[x].pc = "commit" /\ req'[x].doc = d)
      BY <1>1 DEF Moves, IInv, LocksHeld, Holding
    <3> QED
      BY <1>1, <1>2, <3>1 DEF CopiesTrue
  <2>2. \A e \in Docs \ {d} : Copied'[e] = Copied[e]
    BY <1>1, CopiedElsewhere
  <2>3. /\ Copied = [e \in Docs |-> Copied[e]] /\ Copied' = [e \in Docs |-> Copied'[e]]
        /\ DOMAIN Copied = Docs
    BY DEF Copied
  <2> QED
    BY <2>1, <2>2, <2>3
<1>5. Ledger!AtLeastOne(Ledger!Cardinality(DOMAIN Copied[d])) = AtLeastOne(Cardinality(DOMAIN ch))
  BY <1>3, SameOperators, SameCounting
<1>6. Ledger!Submit(d)
  BY <1>1, <1>3, <1>4, <1>5 DEF SubmitCommit, settings, Ledger!Submit, Ledger!Unrouted
<1> QED
  BY <1>1, <1>6 DEF Ledger!Next

(* Dying at the commit is the ledger's Abandon; anywhere else, nothing. *)
LEMMA DieIsAbandon ==
  ASSUME IInv, IInv', NEW r \in Requests, Die(r)
  PROVE  [Ledger!Next]_(Ledger!vars)
<1> DEFINE d == req[r].doc
<1>1. /\ UNCHANGED <<status, chain, required, sigs, typeChain>>
      /\ Moves(r) /\ req'[r].pc = "idle" /\ req[r].pc # "idle" /\ d \in Docs
      /\ req[r] \in RequestRecords
  BY RequestTyped, AnswerMoves DEF Die, tables, At, Busy
<1>2. CASE req[r].pc # "commit"
  BY <1>1, <1>2, LedgerStutters
<1>3. CASE req[r].pc = "commit"
  <2>1. CopiesTrue /\ CopiesTrue'
    BY CopiesAreTrue, CopiesTrueNext
  <2>2. Copied[d] # Nobody
    <3>1. req[r].copy \in Chains
      BY <1>1 DEF RequestRecords
    <3>2. Copied[d] = req[r].copy
      BY <1>1, <1>3, <2>1 DEF CopiesTrue
    <3> QED
      BY <3>1, <3>2, SigningAssumption
  <2>3. Copied'[d] = Nobody
    <3>1. \A x \in Requests : ~(req'[x].pc = "commit" /\ req'[x].doc = d)
      BY <1>1, <1>3 DEF Moves, IInv, LocksHeld, Holding
    <3> QED
      BY <1>1, <2>1, <3>1 DEF CopiesTrue
  <2>4. \A e \in Docs \ {d} : Copied'[e] = Copied[e]
    BY <1>1, CopiedElsewhere
  <2>5. /\ Copied = [e \in Docs |-> Copied[e]] /\ Copied' = [e \in Docs |-> Copied'[e]]
        /\ DOMAIN Copied = Docs
    BY DEF Copied
  <2>6. Copied' = [Copied EXCEPT ![d] = Nobody]
    BY <2>3, <2>4, <2>5
  <2>7. Ledger!Abandon(d)
    BY <1>1, <2>2, <2>6 DEF Ledger!Abandon
  <2> QED
    BY <1>1, <2>7 DEF Ledger!Next
<1> QED
  BY <1>2, <1>3

(* A step of a request is a step of the ledger or changes nothing of it. *)
LEMMA StepImplements ==
  ASSUME IInv, IInv', NEW r \in Requests, Step(r)
  PROVE  [Ledger!Next]_(Ledger!vars)
<1>1. CASE SubmitLock(r)
  BY <1>1, SubmitLockIsCopy
<1>2. CASE SubmitCommit(r)
  BY <1>2, CommitIsSubmit
<1>3. CASE RecordSignature(r)
  BY <1>3, RecordIsSign
<1>4. CASE ~SubmitLock(r) /\ ~SubmitCommit(r) /\ ~RecordSignature(r)
  <2>1. Moves(r) /\ req'[r].pc # "commit" /\ req[r].pc # "commit"
    BY <1>4, StepMoves
  <2>2. CASE RejectApply(r) /\ Pending(req[r].doc)
    <3> DEFINE d == req[r].doc
    <3>1. d \in Docs
      BY <2>2, RequestTyped DEF RejectApply, At, Busy
    <3>2. Copied' = Copied
      <4>1. \A e \in Docs : Copied'[e] = Copied[e]
        BY <2>1, CopiedElsewhere
      <4> QED
        BY <4>1 DEF Copied
    <3>3. Ledger!Reject(d)
      BY <2>2, <3>2 DEF RejectApply, Pending, settings, Ledger!Reject
    <3> QED
      BY <3>1, <3>3 DEF Ledger!Next
  <2>3. CASE ~(RejectApply(r) /\ Pending(req[r].doc))
    <3>1. UNCHANGED <<status, chain, required, sigs, typeChain>>
      BY <1>4, <2>3
         DEF Step, PreflightDocument, PreflightPolicy, PreflightPosition, AuthenticateDAN,
             AlreadySigned, StartTitle, StartSweep, StartPush, StartPair, StartRetire,
             PollFind, PollExpire, PollAsk, PollDrop, PollRecheck, RecordLock,
             RenameSnapshot, RenameApply, RejectApply, tables, documents, settings
    <3> QED
      BY <2>1, <3>1, LedgerStutters
  <2> QED
    BY <2>2, <2>3
<1> QED
  BY <1>1, <1>2, <1>3, <1>4

(* So is every other step. *)
LEMMA NextImplements == IInv /\ IInv' /\ [Next]_vars => [Ledger!Next]_(Ledger!vars)
<1> SUFFICES ASSUME IInv, IInv', [Next]_vars PROVE [Ledger!Next]_(Ledger!vars)
  OBVIOUS
<1>1. ASSUME NEW r \in Requests, Step(r) PROVE [Ledger!Next]_(Ledger!vars)
  BY <1>1, StepImplements
<1>2. ASSUME NEW r \in Requests, Call(r) PROVE [Ledger!Next]_(Ledger!vars)
  <2>1. PICK q \in RequestRecords :
          /\ req' = [req EXCEPT ![r] = q] /\ req[r].pc = "idle"
          /\ q.pc \in {"load", "find", "snapshot", "apply", "lock"}
          /\ UNCHANGED <<tables, push, lock>>
    BY <1>2, BeginIs
  <2> QED
    BY <2>1, Moved, LedgerStutters DEF tables
<1>3. ASSUME NEW r \in Requests, Die(r) PROVE [Ledger!Next]_(Ledger!vars)
  BY <1>3, DieIsAbandon
<1>4. ASSUME NEW t \in DocTypes, NEW ch \in EditedChains, ReplaceWorkflow(t, ch)
      PROVE  [Ledger!Next]_(Ledger!vars)
  <2>1. ch \in Ledger!SaveableChains
    BY SigningAssumption, SameSets
  <2>2. UNCHANGED <<status, chain, required, sigs, lock, req>>
    BY <1>4 DEF ReplaceWorkflow, documents
  <2>3. Copied' = Copied
    BY <2>2 DEF Copied
  <2>4. Ledger!ReplaceWorkflow(t, ch)
    BY <1>4, <2>2, <2>3 DEF ReplaceWorkflow, Ledger!ReplaceWorkflow
  <2> QED
    BY <2>1, <2>4 DEF Ledger!Next
<1>5. ASSUME \/ \E t \in DocTypes, allowed \in EditedPolicies : SaveSignaturePolicy(t, allowed)
             \/ Environment \/ UNCHANGED vars
      PROVE  UNCHANGED Ledger!vars
  <2>1. UNCHANGED <<status, chain, required, sigs, typeChain, lock, req>>
    BY <1>5 DEF SaveSignaturePolicy, Environment, Respond, Elapse, tables, documents, settings, vars
  <2>2. Copied' = Copied
    BY <2>1 DEF Copied
  <2> QED
    BY <2>1, <2>2 DEF Ledger!vars
<1> QED
  BY <1>1, <1>2, <1>3, <1>4, <1>5 DEF Next, Configure

(* The states Signing starts in are states the ledger starts in. *)
LEMMA InitImplements == Init => Ledger!Init
<1> SUFFICES ASSUME Init PROVE Ledger!Init
  OBVIOUS
<1>1. PICK led \in [Docs -> Ledger!InheritedLedgers] :
        /\ required = [d \in Docs |-> Ledger!Requirement(chain[d], led[d])]
        /\ \A d \in Docs : Ledger!Inherited(status[d], chain[d], required[d], led[d])
        /\ sigs = [d \in Docs |-> Brought(led[d])]
  BY DEF Init, Brought
<1> DEFINE bare == [d \in Docs |-> Bare(sigs[d])]
<1>2. bare = led
  <2>1. \A d \in Docs : Bare(sigs[d]) = led[d]
    BY <1>1, BroughtIs
  <2> QED
    BY <2>1
<1>3. Copied = [d \in Docs |-> Nobody]
  <2>1. \A r \in Requests : req[r].pc # "commit"
    BY IdleIsARecord DEF Init
  <2> QED
    BY <2>1 DEF Copied
<1>4. chain \in [Docs -> {Ledger!fillableChain(ch) : ch \in InitialChains} \cup {Ledger!NoChain}]
  BY SameOperators DEF Init
<1> HIDE DEF bare
<1>5. /\ bare \in [Docs -> Ledger!InheritedLedgers]
      /\ required = [d \in Docs |-> Ledger!Requirement(chain[d], bare[d])]
      /\ \A d \in Docs : Ledger!Inherited(status[d], chain[d], required[d], bare[d])
  BY <1>1, <1>2
<1> QED
  BY <1>3, <1>4, <1>5 DEF Init, Ledger!Init, bare

(* Every interleaving of statements is a run of the ledger in which each
   operation is one indivisible step. *)
THEOREM SigningImplementsLedger == Spec => Implements
<1>1. Init => Ledger!Init
  BY InitImplements
<1>2. IInv /\ IInv' /\ [Next]_vars => [Ledger!Next]_(Ledger!vars)
  BY NextImplements
<1> QED
  BY <1>1, <1>2, Invariance, PTL DEF Spec, Implements, Ledger!Spec

(* The ledger a proof about it speaks of is the one Signing implements. *)
LEMMA SameLedger ==
  /\ Ledger!Init => LP!Init
  /\ [Ledger!Next]_(Ledger!vars) => [LP!Next]_(LP!vars)
  /\ LP!StepsHonoured => Ledger!StepsHonoured
  /\ LP!NamedSignersFree => Ledger!NamedSignersFree
  /\ LP!OwesAnApproval => Ledger!OwesAnApproval
  /\ LP!ApprovedIsComplete => Ledger!ApprovedIsComplete
<1>1. /\ \A ch, led : LP!Unfilled(ch, led) = Ledger!Unfilled(ch, led)
      /\ \A led : LP!FilledSteps(led) = Ledger!FilledSteps(led) /\ LP!Signers(led) = Ledger!Signers(led)
  BY DEF LP!Unfilled, Ledger!Unfilled, LP!FilledSteps, Ledger!FilledSteps, LP!Signers, Ledger!Signers
<1>2. \A ch, led, k : LP!IsNext(ch, led, k) <=> Ledger!IsNext(ch, led, k)
  BY <1>1 DEF LP!IsNext, Ledger!IsNext
<1>3. \A ch, led, k : LP!Reserved(ch, led, k) = Ledger!Reserved(ch, led, k)
  BY <1>1 DEF LP!Reserved, Ledger!Reserved
<1>4. \A ch, led, c : LP!checkSigner(ch, led, c) <=> Ledger!checkSigner(ch, led, c)
  BY <1>2, <1>3 DEF LP!checkSigner, Ledger!checkSigner
<1>5. \A ch, led, k : LP!RecordedOn(ch, led, k) <=> Ledger!RecordedOn(ch, led, k)
  BY <1>1, <1>2 DEF LP!RecordedOn, Ledger!RecordedOn
<1>6. \A ch, led, n : LP!Complete(ch, led, n) <=> Ledger!Complete(ch, led, n)
  BY <1>1, SameCounting DEF LP!Complete, Ledger!Complete
<1>7. \A stored : LP!fillableChain(stored) = Ledger!fillableChain(stored)
  BY DEF LP!fillableChain, Ledger!fillableChain, LP!Binds, Ledger!Binds, LP!Named, Ledger!Named,
         LP!normaliseRegNumber, Ledger!normaliseRegNumber, LP!plausibleRegNumber, Ledger!plausibleRegNumber
<1>8. \A n : LP!AtLeastOne(n) = Ledger!AtLeastOne(n)
  BY DEF LP!AtLeastOne, Ledger!AtLeastOne
<1>9. \A ch, led : LP!Parked(ch, led) = Ledger!Parked(ch, led)
  BY DEF LP!Parked, Ledger!Parked
<1>10. LP!NoChain = Ledger!NoChain
  BY DEF LP!NoChain, Ledger!NoChain
<1>11. LP!InheritedLedgers = Ledger!InheritedLedgers
  BY SameCounting, SameSets DEF LP!InheritedLedgers, Ledger!InheritedLedgers
<1>12. ASSUME NEW st, NEW ch, NEW n, NEW led
       PROVE  LP!Inherited(st, ch, n, led) <=> Ledger!Inherited(st, ch, n, led)
  <2>1. LP!Placed(ch, led) <=> Ledger!Placed(ch, led)
    BY <1>1, <1>9, SameCounting DEF LP!Placed, Ledger!Placed
  <2> QED
    BY <2>1, <1>6, <1>10 DEF LP!Inherited, Ledger!Inherited
<1>13. \A ch, led : LP!Requirement(ch, led) = Ledger!Requirement(ch, led)
  BY <1>8, <1>9, SameCounting DEF LP!Requirement, Ledger!Requirement
<1>14. Ledger!Init => LP!Init
  BY <1>7, <1>10, <1>11, <1>12, <1>13 DEF Ledger!Init, LP!Init
<1>15. ASSUME NEW d PROVE Ledger!CopyChain(d) \/ Ledger!Abandon(d) \/ Ledger!Submit(d) \/ Ledger!Reject(d)
                            => LP!CopyChain(d) \/ LP!Abandon(d) \/ LP!Submit(d) \/ LP!Reject(d)
  BY <1>7, <1>8, SameCounting
     DEF Ledger!CopyChain, Ledger!Abandon, Ledger!Submit, Ledger!Reject, Ledger!Unrouted,
         LP!CopyChain, LP!Abandon, LP!Submit, LP!Reject, LP!Unrouted
<1>16. ASSUME NEW d, NEW c, Ledger!Sign(d, c) PROVE LP!Sign(d, c)
  BY <1>1, <1>4, <1>5, <1>6, <1>16, SameCounting DEF Ledger!Sign, LP!Sign
<1>17. ASSUME NEW t, NEW ch PROVE Ledger!ReplaceWorkflow(t, ch) => LP!ReplaceWorkflow(t, ch)
  BY DEF Ledger!ReplaceWorkflow, LP!ReplaceWorkflow
<1>18. Ledger!Next => LP!Next
  BY <1>15, <1>16, <1>17, SameSets DEF Ledger!Next, LP!Next
<1>19. UNCHANGED Ledger!vars => UNCHANGED LP!vars
  BY DEF Ledger!vars, LP!vars
<1>20. LP!StepsHonoured => Ledger!StepsHonoured
  BY DEF LP!StepsHonoured, Ledger!StepsHonoured
<1>21. LP!NamedSignersFree => Ledger!NamedSignersFree
  BY <1>1 DEF LP!NamedSignersFree, Ledger!NamedSignersFree
<1>22. LP!OwesAnApproval => Ledger!OwesAnApproval
  BY <1>1, <1>10 DEF LP!OwesAnApproval, Ledger!OwesAnApproval, LP!Pending, Ledger!Pending
<1>23. LP!ApprovedIsComplete => Ledger!ApprovedIsComplete
  BY SameCounting DEF LP!ApprovedIsComplete, Ledger!ApprovedIsComplete
<1> QED
  BY <1>14, <1>18, <1>19, <1>20, <1>21, <1>22, <1>23

(* What the ledger promises of one indivisible step at a time holds of the
   statements as well: at every point of every interleaving of requests, a step
   that names a citizen is filled by that citizen, who has one signature on the
   document; a citizen whose step is still open has not signed elsewhere; a
   waiting document owes an approval; and an approved one carries them all. *)
LedgerPromises ==
    /\ Ledger!StepsHonoured
    /\ Ledger!NamedSignersFree
    /\ Ledger!OwesAnApproval
    /\ Ledger!ApprovedIsComplete

(* They hold because Signing implements the ledger the theorems are about. *)
THEOREM LedgerPromisesHold == Spec => []LedgerPromises
<1>1. Spec => LP!Spec
  BY SigningImplementsLedger, SameLedger, PTL DEF Implements, Ledger!Spec, LP!Spec
<1>2. /\ LP!Spec => []LP!StepsHonoured
      /\ LP!Spec => []LP!NamedSignersFree
      /\ LP!Spec => []LP!OwesAnApproval
      /\ LP!Spec => []LP!ApprovedIsComplete
  BY LP!StepsAlwaysHonoured, LP!NamedSignersStayFree, LP!WaitingOwesAnApproval,
     LP!ApprovedMeansComplete, LedgerConstants, ChainAssumption
<1>3. LP!StepsHonoured /\ LP!NamedSignersFree /\ LP!OwesAnApproval /\ LP!ApprovedIsComplete
      => LedgerPromises
  BY SameLedger DEF LedgerPromises
<1> QED
  BY <1>1, <1>2, <1>3, PTL
=============================================================================
