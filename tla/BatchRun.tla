------------------------------ MODULE BatchRun ------------------------------
(***************************************************************************)
(* A batch of documents signed one by one (app/module/esign/batch over      *)
(* internal/apps/esign/handlers_batch): the screen asks the server for the  *)
(* next document, shows its code, polls until the citizen has answered, and *)
(* asks again.  The operator may cancel the batch, or go back and open it   *)
(* anew, while a loop is under way.                                         *)
(*                                                                          *)
(* No statement of the server heeds what another call has written since it  *)
(* read: a call is cut at every statement and at every call of E-ID.        *)
(***************************************************************************)
EXTENDS Console

CONSTANTS
    Items,          \* the documents of the batch, by position
    MaxPrompts,     \* bound on the requests pushed to the citizen's phone
    MaxVisits,      \* bound on the times the batch is opened
    MaxLoops        \* bound on the loops and calls at a time

ASSUME BatchAssumption == /\ Items \subseteq Nat \ {0} /\ {MaxPrompts, MaxLoops} \subseteq Nat
                          /\ MaxVisits \in Nat \ {0}

VARIABLES
    batch,      \* esign_batches and its items
    prompts,    \* the ceremonies: how the citizen answered, and the state of its session
    visit,      \* the instance of BatchDetail that is mounted, or was last
    open,       \* selected: the batch is on screen
    seen,       \* the buttons drawn of the batch as it was last read
    left,       \* the instances whose cancelled.current is raised
    loops,      \* the async functions in flight, with the calls they await
    contested,  \* the documents that two calls have picked at once
    stopped     \* a cancellation was stored while no run was past its check

batchVars == <<batch, prompts, visit, open, seen, left, loops, contested, stopped>>
-----------------------------------------------------------------------------
ItemStatuses == {"PENDING", "RUNNING", "SIGNED", "FAILED"}
BatchStatuses == {"DRAFT", "RUNNING", "COMPLETED", "FAILED", "CANCELLED"}
Prompts == 1..MaxPrompts
NoPrompt == 0
Visits == 1..MaxVisits
GivenUp == 0                        \* no instance: nobody awaits the answer any more

(* A session whose prompt is approved stays pending until somebody polls it.  A refusal
   counts from when a poll, or the closing of stale sessions, has stored it. *)
PromptStates == {"none", "pending", "approved", "completed", "rejected"}

UnderWay == {"settle", "mark", "status", "push", "record", "failed"}   \* a run past its check

Batches == [status : BatchStatuses,
            items : [Items -> [status : ItemStatuses, session : Prompts \cup {NoPrompt}]]]
Slots == 1..MaxLoops
Buttons == [run : BOOLEAN, cancel : BOOLEAN]
Loops == [slot : Slots, visit : Visits \cup {GivenUp},       \* the instance that awaits it
          pc : {"asked", "answer", "step", "watch", "settled", "cancel", "cancelled"} \cup UnderWay,
          due : SUBSET [item : Items, session : Prompts],    \* running items yet to be settled
          item : Items \cup {0}, session : Prompts \cup {NoPrompt}, to : BatchStatuses]

BatchTypeOK ==
    /\ batch \in Batches /\ seen \in Buttons
    /\ prompts \in [Prompts -> PromptStates]
    /\ visit \in Visits /\ open \in BOOLEAN /\ stopped \in BOOLEAN
    /\ left \subseteq Visits /\ loops \subseteq Loops /\ contested \subseteq Items

Undone(b) == {i \in Items : b.items[i].status = "PENDING"}
Read == [run |-> Undone(batch) # {} /\ batch.status # "CANCELLED",
         cancel |-> batch.status \notin {"CANCELLED", "COMPLETED"}]

(* createBatch: the screen that was just created opens. *)
BatchInit ==
    /\ batch = [status |-> "DRAFT", items |-> [i \in Items |-> [status |-> "PENDING", session |-> NoPrompt]]]
    /\ prompts = [s \in Prompts |-> "none"]
    /\ visit = 1 /\ open = TRUE /\ seen = Read
    /\ left = {} /\ loops = {} /\ contested = {} /\ stopped = FALSE

Becomes(l, next) == loops' = (loops \ {l}) \cup {next}
Goes(l, pc) == Becomes(l, [l EXCEPT !.pc = pc])
Ended(l) == loops' = loops \ {l}
-----------------------------------------------------------------------------
(* The server: runBatch.  The screen is as it was. *)
Screen == <<visit, open, seen, left>>

(* The answer reaches the loop that awaits it. *)
Replied(l, s) ==
    IF l.visit # GivenUp THEN Becomes(l, [l EXCEPT !.pc = "answer", !.item = 0, !.session = s, !.to = "DRAFT"])
                         ELSE Ended(l)

RefusesNothing == FALSE                 \* planted fault: a cancelled batch is run

Refuses == batch.status = "CANCELLED"

(* The items that run by this snapshot are to be settled first, so that a ceremony counts
   although its browser has gone. *)
Checks(l) ==
    /\ l.pc = "asked"
    /\ IF Refuses THEN Ended(l)
       ELSE Becomes(l, [l EXCEPT !.pc = "settle", !.due =
              {[item |-> i, session |-> batch.items[i].session] :
                  i \in {j \in Items : batch.items[j].status = "RUNNING"}}])
    /\ UNCHANGED <<batch, prompts, contested, stopped>> /\ UNCHANGED Screen

(* A poll of E-ID brings the session up to date.  Two polls of one session do it once. *)
Polled(p) == IF p = "approved" THEN "completed" ELSE p

FinalAnyway(p) == TRUE                  \* planted fault: what is not completed has failed

Final(p) == p \in {"completed", "rejected"}

IsNext(l, d) == d \in l.due /\ \A e \in l.due : d.item <= e.item

(* A session that is pending, cannot be polled or cannot be stored is passed over. *)
settleRunningItem(l) ==
    /\ l.pc = "settle"
    /\ \E d \in l.due : /\ IsNext(l, d)
         /\ prompts' \in {prompts, [prompts EXCEPT ![d.session] = Polled(@)]}
         /\ \/ Final(prompts'[d.session]) /\ Goes(l, "mark")
            \/ Becomes(l, [l EXCEPT !.due = @ \ {d}])
    /\ UNCHANGED <<batch, contested, stopped>> /\ UNCHANGED Screen

(* The error of the write is ignored. *)
MarkItem(l) ==
    /\ l.pc = "mark"
    /\ \E d \in l.due : /\ IsNext(l, d)
         /\ batch' \in {batch, [batch EXCEPT !.items[d.item] =
              [status |-> IF prompts[d.session] = "completed" THEN "SIGNED" ELSE "FAILED",
               session |-> d.session]]}
         /\ Becomes(l, [l EXCEPT !.pc = "settle", !.due = @ \ {d}])
    /\ UNCHANGED <<prompts, contested, stopped>> /\ UNCHANGED Screen

Closing(b) ==
    IF (\E i \in Items : b.items[i].status = "FAILED") /\ ~(\E i \in Items : b.items[i].status = "SIGNED")
    THEN "FAILED" ELSE "COMPLETED"

NextItem(b) == CHOOSE i \in Undone(b) : \A j \in Undone(b) : i <= j

(* The batch is read again, and what follows is decided by what was read. *)
Pick(l) ==
    /\ l.pc = "settle" /\ l.due = {}
    /\ IF Undone(batch) = {}
       THEN /\ Becomes(l, [l EXCEPT !.pc = "status", !.to = Closing(batch)])
            /\ UNCHANGED contested
       ELSE LET i == NextItem(batch) IN
            /\ Becomes(l, [l EXCEPT !.pc = "status", !.to = "RUNNING", !.item = i])
            /\ contested' = contested \cup {j \in {i} : \E r \in loops : r.item = i}
    /\ UNCHANGED <<batch, prompts, stopped>> /\ UNCHANGED Screen

(* setBatchStatus asks nothing of the status it replaces. *)
SetStatus(l) ==
    /\ l.pc = "status"
    /\ batch' = [batch EXCEPT !.status = l.to]
    /\ IF l.to = "RUNNING" THEN Goes(l, "push") ELSE Replied(l, NoPrompt)
    /\ UNCHANGED <<prompts, contested, stopped>> /\ UNCHANGED Screen

Unpushed(s) == prompts[s] = "none" /\ \A r \in 1..(s - 1) : prompts[r] # "none"

(* The prompt is pushed and its session stored; or nothing is; or it is pushed and cannot
   be stored, and the document has failed with a prompt on the phone. *)
startBatchItem(l) ==
    /\ l.pc = "push"
    /\ \/ \E s \in Prompts : /\ Unpushed(s) /\ prompts' = [prompts EXCEPT ![s] = "pending"]
                             /\ \/ Becomes(l, [l EXCEPT !.pc = "record", !.session = s])
                                \/ Goes(l, "failed")
       \/ Goes(l, "failed") /\ UNCHANGED prompts
    /\ UNCHANGED <<batch, contested, stopped>> /\ UNCHANGED Screen

(* Where this write fails (LoopEnds), the document stays pending with a prompt on the phone. *)
SetItemRunning(l) ==
    /\ l.pc = "record"
    /\ batch' = [batch EXCEPT !.items[l.item] = [status |-> "RUNNING", session |-> l.session]]
    /\ Replied(l, l.session)
    /\ UNCHANGED <<prompts, contested, stopped>> /\ UNCHANGED Screen

(* An item that has a session keeps it.  The error of the write is ignored. *)
SetItemFailed(l) ==
    /\ l.pc = "failed"
    /\ batch' \in {batch, [batch EXCEPT !.items[l.item].status = "FAILED"]}
    /\ Replied(l, NoPrompt)
    /\ UNCHANGED <<prompts, contested, stopped>> /\ UNCHANGED Screen

Run(l) == Checks(l) \/ settleRunningItem(l) \/ MarkItem(l) \/ Pick(l) \/ SetStatus(l) \/ startBatchItem(l)
          \/ SetItemRunning(l) \/ SetItemFailed(l)

(* cancelBatch, for which a run under way is none of its business. *)
CancelServed(l) ==
    /\ l.pc = "cancel"
    /\ batch' = [batch EXCEPT !.status = "CANCELLED"]
    /\ stopped' = (stopped \/ \A r \in loops : r.pc \notin UnderWay)
    /\ IF l.visit # GivenUp THEN Goes(l, "cancelled") ELSE Ended(l)
    /\ UNCHANGED <<prompts, contested>> /\ UNCHANGED Screen

(* The citizen answers, or the session is closed as stale. *)
CitizenAnswers ==
    /\ \E s \in Prompts :
         \/ prompts[s] = "pending" /\ prompts' = [prompts EXCEPT ![s] = "approved"]
         \/ prompts[s] \in {"pending", "approved"} /\ prompts' = [prompts EXCEPT ![s] = "rejected"]
    /\ UNCHANGED <<batch, contested, stopped, loops>> /\ UNCHANGED Screen
-----------------------------------------------------------------------------
(* The screen.  onRefresh: the batch is read again and selected, on screen or not. *)
Refresh ==
    /\ seen' = Read /\ open' = TRUE
    /\ IF open THEN UNCHANGED visit ELSE visit < MaxVisits /\ visit' = visit + 1

AtServer == {"asked", "cancel"} \cup UnderWay

(* A call fails where it stands, or a refresh does, and the loop ends with it. *)
LoopEnds(l) ==
    /\ l.pc \in AtServer \cup {"answer", "settled", "cancelled"}
    /\ Ended(l)
    /\ UNCHANGED <<batch, prompts, contested, stopped>> /\ UNCHANGED Screen

(* The answer is given up for lost; the server goes on. *)
CallIsLost(l) ==
    /\ l.pc \in AtServer /\ l.visit # GivenUp
    /\ Becomes(l, [l EXCEPT !.visit = GivenUp])
    /\ UNCHANGED <<batch, prompts, contested, stopped>> /\ UNCHANGED Screen

LoopRefreshes(l) ==
    /\ l.pc \in {"answer", "settled", "cancelled"}
    /\ Refresh
    /\ CASE l.pc = "answer" -> Goes(l, "step")
         [] l.pc = "settled" /\ l.visit \notin left -> Becomes(l, [l EXCEPT !.pc = "asked", !.session = NoPrompt])
         [] OTHER -> Ended(l)
    /\ UNCHANGED <<batch, prompts, left, contested, stopped>>

(* No session: nothing is left to sign. *)
LoopSteps(l) ==
    /\ l.pc = "step"
    /\ IF l.session = NoPrompt THEN Ended(l) ELSE Goes(l, "watch")
    /\ UNCHANGED <<batch, prompts, contested, stopped>> /\ UNCHANGED Screen

(* A poll that fails, or says that the session is pending, is asked again. *)
LoopWatches(l) ==
    /\ l.pc = "watch"
    /\ prompts' \in {prompts, [prompts EXCEPT ![l.session] = Polled(@)]}
    /\ \/ (Final(prompts'[l.session]) \/ l.visit \in left) /\ Goes(l, "settled")
       \/ UNCHANGED loops
    /\ UNCHANGED <<batch, contested, stopped>> /\ UNCHANGED Screen
-----------------------------------------------------------------------------
FreeSlots == {n \in Slots : \A l \in loops : l.slot # n}
LoopRoom == FreeSlots # {}

Running == \E l \in loops : l.visit = visit /\ l.pc \notin {"cancel", "cancelled"}
NewLoop(pc) == [slot |-> CHOOSE n \in FreeSlots : TRUE, visit |-> visit, pc |-> pc,
                due |-> {}, item |-> 0, session |-> NoPrompt, to |-> "DRAFT"]

runBatch ==
    /\ open /\ seen.run /\ ~Running /\ LoopRoom
    /\ left' = left \ {visit}
    /\ loops' = loops \cup {NewLoop("asked")}
    /\ UNCHANGED <<batch, prompts, visit, open, seen, contested, stopped>>

cancelBatch ==
    /\ open /\ seen.cancel /\ LoopRoom
    /\ left' = left \cup {visit}
    /\ loops' = loops \cup {NewLoop("cancel")}
    /\ UNCHANGED <<batch, prompts, visit, open, seen, contested, stopped>>

BackToBatches ==
    /\ open /\ open' = FALSE
    /\ left' = left \cup {visit}
    /\ UNCHANGED <<batch, prompts, visit, seen, loops, contested, stopped>>

OpenBatch ==
    /\ ~open /\ Refresh
    /\ UNCHANGED <<batch, prompts, left, loops, contested, stopped>>

BatchNext ==
    \/ CitizenAnswers \/ runBatch \/ cancelBatch \/ BackToBatches \/ OpenBatch
    \/ \E l \in loops : \/ Run(l) \/ CancelServed(l) \/ LoopEnds(l) \/ CallIsLost(l) \/ LoopRefreshes(l)
                         \/ LoopSteps(l) \/ LoopWatches(l)

BatchSpec == BatchInit /\ [][BatchNext /\ UNCHANGED route]_<<route, batchVars>>
-----------------------------------------------------------------------------
(* What the batch says of a document is what became of its ceremony: signed when the
   session its item names was approved by the citizen, failed when it was refused or ran
   out, or none was begun; unless two runs had picked the document at once, each of which
   then overwrites what the other stored. *)
ItemTellsItsCeremony ==
    \A i \in Items : LET item == batch.items[i] IN
        /\ item.status = "SIGNED" => prompts[item.session] = "completed"
        /\ item.status = "FAILED" /\ i \notin contested =>
              item.session = NoPrompt \/ prompts[item.session] = "rejected"

(* A cancellation holds when no run was past its check: the batch stays cancelled and no
   citizen is asked to sign, whatever other screens still show and send.  One that
   meets a run is overwritten by it. *)
CancelledStays == stopped => batch.status = "CANCELLED" /\ \A l \in loops : l.pc # "push"

(* The handler's comment: "One document failing does not end the run: it is marked and
   the next call moves on". *)
RunOutlastsFailure ==
    [][\A l \in loops : l.pc = "step" /\ l \notin loops' /\ l.session = NoPrompt => Undone(batch) = {}]_batchVars
=============================================================================
