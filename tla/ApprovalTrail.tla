--------------------------- MODULE ApprovalTrail ---------------------------
(***************************************************************************)
(* What the document screens tell of a document's chain and ledger          *)
(* (components/documents/shared.tsx): the badges of its row, and the trail  *)
(* an approver reads to learn whose signature comes next.  The screens work *)
(* it out anew, from the record, the steps and the signatures the API       *)
(* returns; recordSignature works it out from the tables.                   *)
(***************************************************************************)
EXTENDS DocumentLedger

(* A document_records row as the documents API returns it. *)
DocumentRecord(d) ==
    [status              |-> status[d],
     signed              |-> sigs[d] # {},          \* signed_by, of the last signature
     signature_count     |-> Cardinality(sigs[d]),
     required_signatures |-> required[d],
     outstanding_steps   |-> Cardinality(Unfilled(chain[d], sigs[d]))]

StatusBadge(doc) ==
    CASE doc.status = "APPROVED"         -> "approved"
      [] doc.status = "REJECTED"         -> "rejected"
      [] doc.status = "PENDING_APPROVAL" -> "pending"
      [] doc.status = "DRAFT"            -> "draft"
      [] OTHER                           -> doc.status

completeOneShort(doc) ==                \* planted fault: one signature short
    IF doc.required_signatures <= 1 \/ doc.status = "REJECTED" THEN "none"
    ELSE IF doc.signature_count + 1 >= doc.required_signatures THEN "complete" ELSE "under way"

(* The badge "2/3"; a type that needs one signature says nothing, and a rejected
   document's progress is moot. *)
SignatureProgress(doc) ==
    IF doc.required_signatures <= 1 \/ doc.status = "REJECTED" THEN "none"
    ELSE IF doc.outstanding_steps = 0 /\ doc.signature_count >= doc.required_signatures
         THEN "complete" ELSE "under way"

SignatureCell(doc) ==
    IF doc.signed THEN "signer"
    ELSE IF doc.status = "REJECTED" THEN "not signed" ELSE "awaiting signature"

(* The trail is worth opening once there is a signature, or a step still to be filled. *)
SignatureHistoryButton(doc) == ~(doc.signature_count = 0 /\ doc.outstanding_steps = 0)
-----------------------------------------------------------------------------
(* The trail: each step, in order, takes the signature recorded on it; whatever is
   left over is shown below.  A row is a step and the signatures shown on it. *)
TakenBy(led, k) == CHOOSE g \in led : g.step = k

chainRows(ch, led) ==
    {[step |-> k, shows |-> IF k \in FilledSteps(led) THEN {TakenBy(led, k)} ELSE {}] : k \in DOMAIN ch}

placed(ch, led) == UNION {row.shows : row \in chainRows(ch, led)}
extraRows(ch, led) == led \ placed(ch, led)

isNextByCount(doc, ch, led, k) ==       \* planted fault: the row after as many as were signed
    doc.status = "PENDING_APPROVAL" /\ k \in DOMAIN ch /\ k = doc.signature_count + 1

(* "Awaiting now": the first row without a signature, on a document that still waits. *)
isNext(doc, ch, led, k) ==
    /\ doc.status = "PENDING_APPROVAL"
    /\ [step |-> k, shows |-> {}] \in chainRows(ch, led)
    /\ \A row \in chainRows(ch, led) : row.shows = {} => k <= row.step
-----------------------------------------------------------------------------
(* The row and the status tell the same story: of several signatures, the progress is
   complete exactly on an approved document, and an approved one names a signer.  The
   screen compares numbers the record carries, the server counted the ledger itself. *)
BadgeTellsTheStatus ==
    \A d \in Docs : LET doc == DocumentRecord(d) IN
        /\ SignatureProgress(doc) # "none" =>
             (SignatureProgress(doc) = "complete" <=> StatusBadge(doc) = "approved")
        /\ StatusBadge(doc) = "approved" => SignatureCell(doc) = "signer"

(* The trail tells an approver the truth: the step it calls awaited is the one the
   next signature is recorded on, and there is one whenever a step is unfilled; a
   signature stands beside a step only if it filled it, is called outside the chain
   only if it filled none, and none is dropped.  A trail that is not offered is empty. *)
TrailTellsTheChain ==
    \A d \in Docs : LET ch == chain[d]  led == sigs[d]  doc == DocumentRecord(d) IN
        /\ Pending(d) => \A k \in DOMAIN ch :
             isNext(doc, ch, led, k) <=> k \notin FilledSteps(led) /\ RecordedOn(ch, led, k)
        /\ Pending(d) /\ Unfilled(ch, led) # {} => \E k \in DOMAIN ch : isNext(doc, ch, led, k)
        /\ \A row \in chainRows(ch, led) : \A g \in row.shows : ch[row.step] \in {Open, g.signer}
        /\ extraRows(ch, led) = Parked(ch, led)
        /\ ~SignatureHistoryButton(doc) => DOMAIN ch = {} /\ led = {}
=============================================================================
